-------------------------- MODULE LedgerProperties --------------------------
(***************************************************************************)
(* What the imports of LedgerImport guarantee, alone and side by side.     *)
(***************************************************************************)
EXTENDS LedgerImport

(* The step in which the transaction of t takes effect.                    *)
Commits(t) == Commit(t) \/ CommitUnacknowledged(t)

(* The transaction of t decided on a position that is no longer so: the    *)
(* row it found has changed, or the symbol it found without a position has *)
(* one now, under another spelling.                                        *)
Stale(t) ==
  IF Exists(positions, pos[t]) THEN row[t] # positions[pos[t]]
                               ELSE Matching(positions, req[t]) # {}

StaleCommit == \E t \in Threads : Stale(t) /\ Commits(t)

Book == INSTANCE LedgerBook

Entered == INSTANCE Journal WITH journal <- ledger, request <- req, answer <- reply

(***************************************************************************)
(* Exactly once.  However requests are retried, raced, aborted or answered *)
(* by a broken connection, no idempotency key has two ledger entries       *)
(* (ledger.py:87-106 checks it, 0001_position_tracking.py:100 enforces it).*)
(***************************************************************************)
KeyUnique ==
  \A i, j \in 1..Len(ledger) :
    ledger[i].idempotency_key = ledger[j].idempotency_key => i = j

(***************************************************************************)
(* No acknowledged import is lost: as long as a thread's last reply is     *)
(* "recorded" or "duplicate" (ledger.py:98-106, 217-225), the ledger holds *)
(* the entry the reply names, of that position and quantity; and of that   *)
(* portfolio, if the reply is "recorded".  A duplicate reply names the     *)
(* portfolio of the request, whichever the entry's is (ledger.py:101).     *)
(***************************************************************************)
Acknowledged(a) == a.status \in {"recorded", "duplicate"}

AckedIsDurable ==
  \A t \in Threads : Acknowledged(reply[t]) =>
    \E i \in 1..Len(ledger) :
      /\ ledger[i].idempotency_key = reply[t].ledger_entry_id
      /\ ledger[i].position_id = reply[t].position_id
      /\ ledger[i].submitted_ticker = reply[t].submitted_ticker
      /\ ledger[i].quantity_delta = ToColumn(reply[t].quantity_delta)
      /\ reply[t].status = "recorded" => ledger[i].position_id[1] = reply[t].portfolio

(***************************************************************************)
(* How the transactions keep out of one another's way: what makes the two  *)
(* properties above, and the refinements below, inductive.                 *)
(***************************************************************************)
(* No two transactions have updated the same row (ledger.py:163).          *)
RowLocksExclude ==
  \A t, u \in Threads :
    pc[t] \in {"ledger", "commit"} /\ pc[u] \in {"ledger", "commit"} /\ pos[t] = pos[u]
    => t = u

(* No two have inserted the same position (ledger.py:127-144).             *)
InsertsExclude ==
  \A t, u \in Threads, p \in PositionIds :
    InsertsPosition(t, p) /\ InsertsPosition(u, p) => t = u

(* No two have inserted the same key, and none one that is committed.      *)
KeysExclude ==
  \A t \in Threads : pc[t] = "commit" =>
    /\ ~KeyUsed(ledger, req[t].idempotency_key)
    /\ \A u \in Others(t) : ~HoldsKey(u, req[t].idempotency_key)

(* A transaction that has a position has one of the request's symbol: a    *)
(* row that was there when it looked, or the one it has inserted.          *)
PositionResolved ==
  \A t \in Threads : pc[t] \in {"update", "ledger", "commit"} =>
    IF Exists(positions, pos[t]) THEN pos[t] \in Matching(positions, req[t])
                                 ELSE pos[t] = OwnPosition(req[t]) /\ row[t] = NewRow

(* What its statements have let through so far.                            *)
Progress ==
  \A t \in Threads :
    /\ pc[t] # "idle" <=> reply[t] = Pending
    /\ pc[t] # "idle" => req[t].event_type \in ALLOWED_EVENT_TYPES
    /\ pc[t] \in Statements \ {"idle", "portfolio"} => req[t].portfolio \in portfolios
    /\ pc[t] \in {"ledger", "commit"} => RowFits(Updated(row[t], req[t]))
    /\ pc[t] = "commit" => EntryFits(LedgerEntry(req[t], pos[t]))

TransactionsExclude ==
  /\ RowLocksExclude
  /\ InsertsExclude
  /\ KeysExclude
  /\ PositionResolved
  /\ Progress

(***************************************************************************)
(* The write path of ledger.py:50-226 is atomic except for one hazard: a   *)
(* step that does not commit over a position changed since it was read     *)
(* does to the tables what one indivisible import does, or nothing.        *)
(***************************************************************************)
AtomicUnlessStale ==
  [][ \/ StaleCommit
      \/ Book!BookNext
      \/ UNCHANGED <<portfolios, positions, ledger>> ]_vars

(***************************************************************************)
(* A position's quantity and the sum of its ledger entries part, or come   *)
(* together again, only in a commit over a row changed since it was read:  *)
(* the absolute values of the UPDATE (ledger.py:163-180) lose an update in *)
(* no other way.  For quantities a NUMERIC(20, 8) column holds exactly.    *)
(***************************************************************************)
Drift == [p \in PositionIds |-> positions[p].quantity - ledgerSum[p]]

DriftOnlyByLostUpdate == [][Drift' = Drift \/ StaleCommit]_vars

(***************************************************************************)
(* What the reconciliation worker looks for (reconciliation.py:74-91): a   *)
(* position's quantity is the sum of its ledger entries.                   *)
(***************************************************************************)
QuantityMatchesLedger ==
  \A p \in PositionIds : positions[p].quantity = ledgerSum[p]

(***************************************************************************)
(* A normalized symbol has one position in a portfolio that the lookup can *)
(* find: whatever the spellings submitted, blanks around them included, no *)
(* import creates a second one beside it (ledger.py:109-144).  A position  *)
(* stored with a blank, which no lookup finds, may stand beside it.        *)
(***************************************************************************)
Findable(p) == Lower[p[2]] = StripLower[p[2]]

FindablePositionsAreUnique ==
  \A p, q \in PositionIds :
    /\ Exists(positions, p) /\ Exists(positions, q)
    /\ Findable(p) /\ Findable(q)
    /\ p[1] = q[1]
    /\ StripLower[p[2]] = StripLower[q[2]]
    => p = q

(***************************************************************************)
(* The status and the average cost keep up with the quantity over any      *)
(* history: a position is closed exactly when it is flat (ledger.py:160),  *)
(* and only a long one has a cost (accounting.py:76-81, 107).  For         *)
(* quantities a NUMERIC(20, 8) column holds exactly: of a finer one the    *)
(* status sees what the column rounds away.                                *)
(***************************************************************************)
FlatIsClosedAndFree ==
  \A p \in PositionIds : Exists(positions, p) =>
    /\ positions[p].status = "closed" <=> positions[p].quantity = 0
    /\ positions[p].average_cost > 0 => positions[p].quantity > 0
    /\ positions[p].average_cost >= 0

(***************************************************************************)
(* The refinements: LedgerImport implements the client's view of Journal   *)
(* with any number of threads, and the tables' view of LedgerBook with one *)
(***************************************************************************)
ImplementsJournal == Entered!JournalSpec

ImplementsBook == Book!BookSpec

(***************************************************************************)
(* Fairness: a thread that can run its next statement runs it (the server  *)
(* schedules its threads); where the statement may have to wait for        *)
(* another transaction, PostgreSQL queues the waiters, so that one that    *)
(* could go on again and again does.  Clients need not send anything, and  *)
(* nothing needs to fail.                                                  *)
(***************************************************************************)
Waits(t) == InsertPosition(t) \/ UpdatePosition(t) \/ InsertLedger(t)

Fairness == \A t \in Threads : WF_vars(Step(t)) /\ SF_vars(Waits(t))

FairSpec == Spec /\ Fairness

(***************************************************************************)
(* No import waits forever for another: every request is answered (the     *)
(* waits at ledger.py:127, 163 and 183 cannot form a cycle).               *)
(***************************************************************************)
EveryImportAnswered ==
  \A t \in Threads : reply[t] = Pending ~> reply[t] # Pending

-----------------------------------------------------------------------------
(* What the documentation says of an import, and the code does not do.      *)

(***************************************************************************)
(* "If a duplicate key is submitted: the original entry is returned with   *)
(* status duplicate" (README.md:206-209): no import fails because its key  *)
(* has been used.                                                          *)
(***************************************************************************)
UsedKeyIsNoError ==
  [][\A t \in Threads :
       InsertLedgerFails(t) => ~KeyUsed(ledger, req[t].idempotency_key)]_vars
=============================================================================
