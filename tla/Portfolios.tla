----------------------------- MODULE Portfolios -----------------------------
(***************************************************************************)
(* Creating and deleting portfolios (repository/portfolios.py and its      *)
(* routes in app.py) beside imports, of which only what touches the row of *)
(* the portfolio is modelled: its SELECT by name and the foreign key of    *)
(* what it inserts.  The default application wires no portfolio_delete     *)
(* (its route answers 500); this is the application with it.               *)
(*                                                                         *)
(* One action is one SQL statement at READ COMMITTED.  Of an uncommitted   *)
(* transaction the others feel the name it inserted, the row it deleted,   *)
(* and the row its foreign key refers to.  A row is known by its id; the   *)
(* writes reach the variables in Commit.                                   *)
(***************************************************************************)
EXTENDS Naturals, FiniteSets

CONSTANTS Threads,   \* the threads of the web server
          Names,     \* portfolio names, stripped
          NoName,    \* there is no such row
          MaxId      \* bound on the ids the sequence hands out

ASSUME PortfoliosAssumption ==
  IsFiniteSet(Threads) /\ MaxId \in Nat /\ Names # {} /\ NoName \notin Names

Ids == 1..MaxId

VARIABLES
  name,     \* [Ids -> the name of the committed row, or NoName]
  booked,   \* the ids that committed positions refer to
  nextId,   \* the sequence of the SERIAL column
  pc,       \* [Threads -> the statement the thread runs next]
  req,      \* [Threads -> the request it serves]
  id,       \* [Threads -> the id it has found or inserted, 0 before]
  reply     \* [Threads -> its last reply, "pending" while it serves a request]

rows   == <<name, booked>>
locals == <<pc, req, id, reply>>
vars   == <<name, booked, nextId, pc, req, id, reply>>

Requests == [op : {"create", "import"}, name : Names] \cup [op : {"delete"}, id : Ids]

Replies ==
  [status : {"idle", "pending", "error", "conflict", "not_found", "rejected"}]
    \cup [status : {"deleted", "in_use"}, id : Ids]
    \cup [status : {"created", "recorded"}, id : Ids, name : Names]

(* The first statement of each request. *)
FirstStatement == [create |-> "insert", delete |-> "select", import |-> "resolve"]

TypeOK ==
  /\ name \in [Ids -> Names \cup {NoName}]
  /\ booked \subseteq Ids
  /\ nextId \in 1..(MaxId + 1)
  /\ pc \in [Threads -> {"idle", "insert", "select", "check", "delete",
                         "resolve", "book", "commit"}]
  /\ req \in [Threads -> Requests]
  /\ id \in [Threads -> Ids \cup {0}]
  /\ reply \in [Threads -> Replies]

(* What req holds while it is not in scope. *)
NoRequest == [op |-> "import", name |-> CHOOSE n \in Names : TRUE]

Init ==
  /\ name = [i \in Ids |-> NoName]
  /\ booked = {}
  /\ nextId = 1
  /\ pc = [t \in Threads |-> "idle"]
  /\ req = [t \in Threads |-> NoRequest]
  /\ id = [t \in Threads |-> 0]
  /\ reply = [t \in Threads |-> [status |-> "idle"]]

-----------------------------------------------------------------------------
(* What the uncommitted transaction of t makes the others wait for.          *)
Uncommitted(t, op) == pc[t] = "commit" /\ req[t].op = op

(* Mutant: names are not UNIQUE.                                             *)
InsertsAnyName(t, n) == FALSE

Inserts(t, n) == Uncommitted(t, "create") /\ req[t].name = n

(* Mutant: the row is locked when it is selected, and once more in DELETE.   *)
LocksEarly(t, i) == pc[t] \in {"check", "delete", "commit"} /\ id[t] = i

Deletes(t, i) == Uncommitted(t, "delete") /\ id[t] = i /\ name[i] # NoName

(* Mutant: positions.portfolio_id has no REFERENCES.                         *)
RefersNowhere(t, i) == FALSE

Refers(t, i) == Uncommitted(t, "import") /\ id[t] = i

Inserting == {t \in Threads : pc[t] = "insert"}

Others(t) == Threads \ {t}

Taken(n) == \E i \in Ids : name[i] = n

GoTo(t, s) == pc' = [pc EXCEPT ![t] = s]

Finds(t, i) == id' = [id EXCEPT ![t] = i]

Answer(t, a) ==
  /\ GoTo(t, "idle")
  /\ req' = [req EXCEPT ![t] = NoRequest]
  /\ Finds(t, 0)
  /\ reply' = [reply EXCEPT ![t] = a]

End(t, a) == Answer(t, a) /\ UNCHANGED <<name, booked, nextId>>

Error == [status |-> "error"]

-----------------------------------------------------------------------------
(* A request arrives.  Creates are bounded by the ids that are left.         *)
Receive(t, r) ==
  /\ pc[t] = "idle"
  /\ r.op = "create" => nextId + Cardinality(Inserting) <= MaxId
  /\ GoTo(t, FirstStatement[r.op])
  /\ req' = [req EXCEPT ![t] = r]
  /\ reply' = [reply EXCEPT ![t] = [status |-> "pending"]]
  /\ UNCHANGED <<name, booked, nextId, id>>

(* INSERT INTO portfolios: waits for a transaction that has inserted the     *)
(* name or deleted its row, and fails if the name is taken then.  The id is  *)
(* used up either way.                                                       *)
CanInsert(t) ==
  \A u \in Others(t) :
    /\ ~Inserts(u, req[t].name)
    /\ \A i \in Ids : Deletes(u, i) => name[i] # req[t].name

(* Mutants: the id is not RETURNING; ids are given again.                    *)
NoId == 0

LowestFreeId ==
  CHOOSE i \in Ids : /\ name[i] = NoName
                     /\ \A j \in Ids : name[j] = NoName => i <= j

NewId == nextId

InsertPortfolio(t) ==
  /\ pc[t] = "insert"
  /\ CanInsert(t)
  /\ ~Taken(req[t].name)
  /\ Finds(t, NewId)
  /\ nextId' = nextId + 1
  /\ GoTo(t, "commit")
  /\ UNCHANGED <<rows, req, reply>>

InsertConflicts(t) ==
  /\ pc[t] = "insert"
  /\ CanInsert(t)
  /\ Taken(req[t].name)
  /\ nextId' = nextId + 1
  /\ Answer(t, [status |-> "conflict"])
  /\ UNCHANGED rows

(* delete_portfolio: SELECT ... WHERE id = :id                               *)
SelectPortfolio(t) ==
  /\ pc[t] = "select"
  /\ name[req[t].id] # NoName
  /\ Finds(t, req[t].id)
  /\ GoTo(t, "check")
  /\ UNCHANGED <<rows, nextId, req, reply>>

NotFound(t) ==
  /\ pc[t] = "select"
  /\ name[req[t].id] = NoName
  /\ End(t, [status |-> "not_found"])

(* SELECT 1 FROM positions WHERE portfolio_id = :id                          *)
CheckPositions(t) ==
  /\ pc[t] = "check"
  /\ id[t] \notin booked
  /\ GoTo(t, "delete")
  /\ UNCHANGED <<rows, nextId, req, id, reply>>

InUse(t) ==
  /\ pc[t] = "check"
  /\ id[t] \in booked
  /\ End(t, [status |-> "in_use", id |-> id[t]])

(* DELETE: waits for a transaction that has deleted the row or inserted a    *)
(* reference to it.  The foreign key refuses it when there is a position; it *)
(* deletes nothing, and says so to nobody, when the row is gone.             *)
CanDelete(t) == \A u \in Others(t) : ~Deletes(u, id[t]) /\ ~Refers(u, id[t])

DeletePortfolio(t) ==
  /\ pc[t] = "delete"
  /\ CanDelete(t)
  /\ id[t] \notin booked
  /\ GoTo(t, "commit")
  /\ UNCHANGED <<rows, nextId, req, id, reply>>

DeleteRefused(t) ==
  /\ pc[t] = "delete"
  /\ CanDelete(t)
  /\ id[t] \in booked
  /\ End(t, Error)

(* import_ledger_entry: SELECT ... FROM portfolios WHERE name = :name        *)
Resolve(t) ==
  /\ pc[t] = "resolve"
  /\ \E i \in Ids : name[i] = req[t].name /\ Finds(t, i)
  /\ GoTo(t, "book")
  /\ UNCHANGED <<rows, nextId, req, reply>>

RejectPortfolio(t) ==
  /\ pc[t] = "resolve"
  /\ ~Taken(req[t].name)
  /\ End(t, [status |-> "rejected"])

(* Its first INSERT with a portfolio_id: the foreign key waits for a         *)
(* transaction that has deleted the row, and fails if it is gone then.       *)
CanRefer(t) == \A u \in Others(t) : ~Deletes(u, id[t])

BookPosition(t) ==
  /\ pc[t] = "book"
  /\ CanRefer(t)
  /\ name[id[t]] # NoName
  /\ GoTo(t, "commit")
  /\ UNCHANGED <<rows, nextId, req, id, reply>>

BookingFails(t) ==
  /\ pc[t] = "book"
  /\ CanRefer(t)
  /\ name[id[t]] = NoName
  /\ End(t, Error)

-----------------------------------------------------------------------------
(* The commit at the end of `with engine.begin()`.                           *)
Entered(t) ==
  IF req[t].op = "create" THEN [name EXCEPT ![id[t]] = req[t].name]
  ELSE IF req[t].op = "delete" THEN [name EXCEPT ![id[t]] = NoName]
  ELSE name

Write(t) ==
  /\ name' = Entered(t)
  /\ booked' = IF req[t].op = "import" THEN booked \cup {id[t]} ELSE booked
  /\ UNCHANGED nextId

Done(t) ==
  IF req[t].op = "delete" THEN [status |-> "deleted", id |-> id[t]]
  ELSE [status |-> IF req[t].op = "create" THEN "created" ELSE "recorded",
        id |-> id[t], name |-> req[t].name]

Commit(t) ==
  /\ pc[t] = "commit"
  /\ Write(t)
  /\ Answer(t, Done(t))

CommitUnacknowledged(t) ==
  /\ pc[t] = "commit"
  /\ Write(t)
  /\ Answer(t, Error)

(* Any statement may fail, and the transaction is rolled back.  The route    *)
(* looks for "unique" or "duplicate" in a text that quotes the parameters of *)
(* the INSERT: there any failure may be answered as a conflict.              *)
Fail(t) ==
  /\ pc[t] # "idle"
  /\ \/ End(t, Error)
     \/ pc[t] = "insert" /\ End(t, [status |-> "conflict"])

-----------------------------------------------------------------------------
Step(t) ==
  \/ InsertPortfolio(t) \/ InsertConflicts(t)
  \/ SelectPortfolio(t) \/ NotFound(t)
  \/ CheckPositions(t) \/ InUse(t)
  \/ DeletePortfolio(t) \/ DeleteRefused(t)
  \/ Resolve(t) \/ RejectPortfolio(t)
  \/ BookPosition(t) \/ BookingFails(t)
  \/ Commit(t) \/ CommitUnacknowledged(t)

Next == \E t \in Threads : Step(t) \/ Fail(t) \/ \E r \in Requests : Receive(t, r)

Spec == Init /\ [][Next]_vars
=============================================================================
