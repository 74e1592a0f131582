---------------------------- MODULE LedgerImport ----------------------------
(***************************************************************************)
(* POST /position-ledger/import: import_ledger_entry of                    *)
(* repository/ledger.py, run by the threads of the web server, each in a   *)
(* transaction of its own over PostgreSQL.  One action is one SQL          *)
(* statement, with the Python code up to the next statement.               *)
(*                                                                         *)
(* The transactions run at the default isolation level, READ COMMITTED: a  *)
(* statement sees what was committed when it started.  Three things of an  *)
(* uncommitted transaction are felt by the others: the position row it     *)
(* inserted and the idempotency key it inserted (a second insert of either *)
(* waits), and the position row it updated (a second update waits).  What  *)
(* a transaction has done so far follows from its pc, so its writes reach  *)
(* the variables only in Commit.                                           *)
(***************************************************************************)
EXTENDS PositionStore

CONSTANTS Threads   \* the threads of the web server

VARIABLES
  portfolios,   \* positions.portfolios, the committed names
  positions,    \* positions.positions, the committed rows (NoRow: there is none)
  ledger,       \* positions.position_ledger_entries, in the order of the commits
  ledgerSum,    \* SUM(quantity_delta) of the entries of each position
  pc,           \* [Threads -> the statement the thread runs next]
  req,          \* [Threads -> the request it serves]
  pos,          \* [Threads -> position_id, once found or inserted]
  row,          \* [Threads -> position_row: the position as the thread has read it]
  reply         \* [Threads -> its last reply, "pending" while it serves a request]

tables == <<portfolios, positions, ledger, ledgerSum>>
locals == <<pc, req, pos, row, reply>>
vars   == <<portfolios, positions, ledger, ledgerSum, pc, req, pos, row, reply>>

Statements == {"idle", "portfolio", "idempotency", "find", "insert",
               "update", "ledger", "commit"}

TypeOK ==
  /\ portfolios \subseteq Portfolios
  /\ positions \in [PositionIds -> Rows]
  /\ ledger \in Seq(Entries)
  /\ ledgerSum \in [PositionIds -> Int]
  /\ pc \in [Threads -> Statements]
  /\ req \in [Threads -> Requests]
  /\ pos \in [Threads -> PositionIds]
  /\ row \in [Threads -> Rows]
  /\ reply \in [Threads -> Replies]

(* What a local variable holds while it is not in scope. *)
AnyRequest  == CHOOSE r \in Requests : TRUE
AnyPosition == OwnPosition(AnyRequest)

Init ==
  /\ portfolios = {}
  /\ positions = [p \in PositionIds |-> NoRow]
  /\ ledger = << >>
  /\ ledgerSum = [p \in PositionIds |-> 0]
  /\ pc = [t \in Threads |-> "idle"]
  /\ req = [t \in Threads |-> AnyRequest]
  /\ pos = [t \in Threads |-> AnyPosition]
  /\ row = [t \in Threads |-> NoRow]
  /\ reply = [t \in Threads |-> Idle]

-----------------------------------------------------------------------------
(* What the uncommitted transaction of thread t makes the others wait for. *)
InsertsPosition(t, p) == /\ pc[t] \in {"update", "ledger", "commit"}
                         /\ pos[t] = p
                         /\ ~Exists(positions, p)

LocksRow(t, p) == pc[t] \in {"ledger", "commit"} /\ pos[t] = p

(* Mutant: the entry is inserted before the position is updated.           *)
HoldsKeyEarly(t, k) == /\ pc[t] \in {"update", "ledger", "commit"}
                       /\ req[t].idempotency_key = k

HoldsKey(t, k) == pc[t] = "commit" /\ req[t].idempotency_key = k

(* The other threads. *)
Others(t) == Threads \ {t}

(* The transaction of t goes on with statement s. *)
GoTo(t, s) == pc' = [pc EXCEPT ![t] = s]

(* The locals of t go out of scope and a is what the client is answered. *)
Answer(t, a) ==
  /\ GoTo(t, "idle")
  /\ req' = [req EXCEPT ![t] = AnyRequest]
  /\ pos' = [pos EXCEPT ![t] = AnyPosition]
  /\ row' = [row EXCEPT ![t] = NoRow]
  /\ reply' = [reply EXCEPT ![t] = a]

(* The transaction of t ends with nothing written, by a return or a rollback. *)
End(t, a) == Answer(t, a) /\ UNCHANGED tables

-----------------------------------------------------------------------------
(* POST /portfolios: create_portfolio.  Its one statement is a transaction;  *)
(* a name already taken violates UNIQUE and changes nothing.                 *)
CreatePortfolio(name) ==
  /\ name \notin portfolios
  /\ portfolios' = portfolios \cup {name}
  /\ UNCHANGED <<positions, ledger, ledgerSum, locals>>

(* A request arrives whose event type is not supported: no transaction.      *)
RejectEventType(t, r) ==
  /\ pc[t] = "idle"
  /\ ~Supported(r)
  /\ End(t, Rejected)

(* A request arrives and its transaction begins.                             *)
Receive(t, r) ==
  /\ pc[t] = "idle"
  /\ Supported(r)
  /\ GoTo(t, "portfolio")
  /\ req' = [req EXCEPT ![t] = r]
  /\ reply' = [reply EXCEPT ![t] = Pending]
  /\ UNCHANGED <<tables, pos, row>>

(* SELECT ... FROM portfolios WHERE name = :name                             *)
ResolvePortfolio(t) ==
  /\ pc[t] = "portfolio"
  /\ req[t].portfolio \in portfolios
  /\ GoTo(t, "idempotency")
  /\ UNCHANGED <<tables, req, pos, row, reply>>

RejectPortfolio(t) ==
  /\ pc[t] = "portfolio"
  /\ req[t].portfolio \notin portfolios
  /\ End(t, Rejected)

(* SELECT ... FROM position_ledger_entries WHERE idempotency_key = :key      *)
PassIdempotency(t) ==
  /\ pc[t] = "idempotency"
  /\ ~KeyUsed(ledger, req[t].idempotency_key)
  /\ GoTo(t, "find")
  /\ UNCHANGED <<tables, req, pos, row, reply>>

ReplyDuplicate(t) ==
  /\ pc[t] = "idempotency"
  /\ \E i \in 1..Len(ledger) :
       /\ ledger[i].idempotency_key = req[t].idempotency_key
       /\ End(t, Duplicate(req[t], ledger[i]))

(* SELECT ... FROM positions ... LIMIT 1, with no ORDER BY: any match.       *)
FindPosition(t) ==
  /\ pc[t] = "find"
  /\ \E p \in Matching(positions, req[t]) :
       /\ pos' = [pos EXCEPT ![t] = p]
       /\ row' = [row EXCEPT ![t] = positions[p]]
  /\ GoTo(t, "update")
  /\ UNCHANGED <<tables, req, reply>>

FindNoPosition(t) ==
  /\ pc[t] = "find"
  /\ Matching(positions, req[t]) = {}
  /\ GoTo(t, "insert")
  /\ UNCHANGED <<tables, req, pos, row, reply>>

(* INSERT INTO positions ... RETURNING: waits for a transaction that has     *)
(* inserted the same UNIQUE columns, and fails once they are committed.      *)
CanInsertPosition(t) ==
  \A u \in Others(t) : ~InsertsPosition(u, OwnPosition(req[t]))

InsertPosition(t) ==
  /\ pc[t] = "insert"
  /\ CanInsertPosition(t)
  /\ ~Exists(positions, OwnPosition(req[t]))
  /\ pos' = [pos EXCEPT ![t] = OwnPosition(req[t])]
  /\ row' = [row EXCEPT ![t] = NewRow]
  /\ GoTo(t, "update")
  /\ UNCHANGED <<tables, req, reply>>

InsertPositionFails(t) ==
  /\ pc[t] = "insert"
  /\ Exists(positions, OwnPosition(req[t]))
  /\ End(t, Error)

(* UPDATE positions SET quantity = :quantity, ... WHERE id = :id: the values *)
(* come from the row read earlier; it waits for the lock on the row.         *)
(* Mutant: the UPDATE takes no lock.                                       *)
UpdatesUnlocked(t) == TRUE

CanUpdatePosition(t) == \A u \in Others(t) : ~LocksRow(u, pos[t])

UpdatePosition(t) ==
  /\ pc[t] = "update"
  /\ CanUpdatePosition(t)
  /\ RowFits(Updated(row[t], req[t]))
  /\ GoTo(t, "ledger")
  /\ UNCHANGED <<tables, req, pos, row, reply>>

UpdatePositionOverflows(t) ==
  /\ pc[t] = "update"
  /\ ~RowFits(Updated(row[t], req[t]))
  /\ End(t, Error)

(* INSERT INTO position_ledger_entries: waits for a transaction that has     *)
(* inserted the same key, and fails once the key is committed.               *)
(* Mutant: idempotency_key has no UNIQUE index to wait on.                 *)
InsertsUnindexed(t) == TRUE

CanInsertLedger(t) == \A u \in Others(t) : ~HoldsKey(u, req[t].idempotency_key)

InsertLedger(t) ==
  /\ pc[t] = "ledger"
  /\ CanInsertLedger(t)
  /\ ~KeyUsed(ledger, req[t].idempotency_key)
  /\ EntryFits(LedgerEntry(req[t], pos[t]))
  /\ GoTo(t, "commit")
  /\ UNCHANGED <<tables, req, pos, row, reply>>

InsertLedgerFails(t) ==
  /\ pc[t] = "ledger"
  /\ \/ KeyUsed(ledger, req[t].idempotency_key)
     \/ ~EntryFits(LedgerEntry(req[t], pos[t]))
  /\ End(t, Error)

(* The commit at the end of `with engine.begin()`: the position and the      *)
(* entry become visible together.  The reply is lost when the connection     *)
(* breaks after the server has committed.                                    *)
(* Mutants: nothing is committed; the entry is, without the position; the  *)
(* UPDATE goes to the spelling submitted, not to the position found.       *)
PostsNothing(t) == UNCHANGED <<positions, ledger, ledgerSum>>

PostsEntryOnly(t) ==
  LET e == LedgerEntry(req[t], pos[t])
  IN  /\ ledger' = Append(ledger, e)
      /\ ledgerSum' = [ledgerSum EXCEPT ![pos[t]] = @ + e.quantity_delta]
      /\ UNCHANGED positions

PostsToSpelling(t) ==
  LET e == LedgerEntry(req[t], pos[t])
  IN  /\ positions' = [positions EXCEPT ![OwnPosition(req[t])] = Updated(row[t], req[t])]
      /\ ledger' = Append(ledger, e)
      /\ ledgerSum' = [ledgerSum EXCEPT ![pos[t]] = @ + e.quantity_delta]

Post(t) ==
  LET e == LedgerEntry(req[t], pos[t])
  IN  /\ positions' = [positions EXCEPT ![pos[t]] = Updated(row[t], req[t])]
      /\ ledger' = Append(ledger, e)
      /\ ledgerSum' = [ledgerSum EXCEPT ![pos[t]] = @ + e.quantity_delta]

Commit(t) ==
  /\ pc[t] = "commit"
  /\ Post(t)
  /\ Answer(t, Recorded(req[t], pos[t]))
  /\ UNCHANGED portfolios

CommitUnacknowledged(t) ==
  /\ pc[t] = "commit"
  /\ Post(t)
  /\ Answer(t, Error)
  /\ UNCHANGED portfolios

(* Any statement, the commit included, may fail (the connection breaks, the  *)
(* server restarts, the thread's process dies) and the transaction is rolled *)
(* back.                                                                     *)
Abort(t) ==
  /\ pc[t] # "idle"
  /\ End(t, Error)

-----------------------------------------------------------------------------
Step(t) ==
  \/ ResolvePortfolio(t) \/ RejectPortfolio(t)
  \/ PassIdempotency(t) \/ ReplyDuplicate(t)
  \/ FindPosition(t) \/ FindNoPosition(t)
  \/ InsertPosition(t) \/ InsertPositionFails(t)
  \/ UpdatePosition(t) \/ UpdatePositionOverflows(t)
  \/ InsertLedger(t) \/ InsertLedgerFails(t)
  \/ Commit(t) \/ CommitUnacknowledged(t)

Next ==
  \/ \E name \in Portfolios : CreatePortfolio(name)
  \/ \E t \in Threads, r \in Requests : Receive(t, r) \/ RejectEventType(t, r)
  \/ \E t \in Threads : Step(t) \/ Abort(t)

Spec == Init /\ [][Next]_vars
=============================================================================
