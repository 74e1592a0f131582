------------------------ MODULE PortfolioProperties ------------------------
(***************************************************************************)
(* What creating, deleting and booking to portfolios guarantee side by     *)
(* side.                                                                   *)
(***************************************************************************)
EXTENDS Portfolios

(***************************************************************************)
(* The check at portfolios.py:138-143 and the DELETE at 145 are two        *)
(* statements, and an import may be anywhere between its two: no position  *)
(* is left without its portfolio, and no name has two.                     *)
(***************************************************************************)
NoDanglingPosition ==
  /\ \A i \in booked : name[i] # NoName
  /\ \A i, j \in Ids : name[i] = name[j] /\ name[i] # NoName => i = j

(***************************************************************************)
(* What a client was told stays true whatever others do: a deleted         *)
(* portfolio never comes back and never holds a position (portfolios.py:   *)
(* 145-150), one in use is never deleted (142-143), an import recorded     *)
(* under a name is booked to the portfolio of that name for good           *)
(* (ledger.py:73-84, 127-144), and an id keeps its name while it exists.   *)
(***************************************************************************)
RepliesStayTrue ==
  \A t \in Threads :
    /\ reply[t].status = "deleted" =>
         name[reply[t].id] = NoName /\ reply[t].id \notin booked
    /\ reply[t].status = "in_use" =>
         name[reply[t].id] # NoName /\ reply[t].id \in booked
    /\ reply[t].status = "recorded" =>
         name[reply[t].id] = reply[t].name /\ reply[t].id \in booked
    /\ reply[t].status = "created" => name[reply[t].id] \in {reply[t].name, NoName}

(***************************************************************************)
(* How the transactions keep apart, which makes the above inductive.       *)
(***************************************************************************)
(* Ids are handed out once, and there is one for each create. *)
IdsAreFresh ==
  /\ nextId + Cardinality(Inserting) <= MaxId + 1
  /\ \A i \in Ids : i >= nextId => name[i] = NoName
  /\ \A t \in Threads : id[t] < nextId
  /\ \A t \in Threads : reply[t].status \in {"deleted", "in_use", "created", "recorded"}
                        => reply[t].id < nextId

(* A transaction about to create holds its id and its name alone. *)
CreatesExclude ==
  \A t \in Threads : Uncommitted(t, "create") =>
    /\ id[t] # 0 /\ name[id[t]] = NoName /\ ~Taken(req[t].name)
    /\ \A u \in Others(t) : id[u] # id[t] /\ ~Inserts(u, req[t].name)
    /\ \A u \in Threads : reply[u].status \in {"deleted", "created"} => reply[u].id # id[t]

(* One about to delete has nobody refer to the row it deletes. *)
DeletesExclude ==
  \A t \in Threads : Uncommitted(t, "delete") =>
    /\ id[t] # 0 /\ id[t] \notin booked
    /\ \A u \in Others(t) : ~Refers(u, id[t]) /\ ~Deletes(u, id[t])

(* One about to book refers to the portfolio it has found by name. *)
BookingsHold ==
  \A t \in Threads :
    /\ pc[t] \in {"check", "delete", "book"} => id[t] # 0
    /\ pc[t] = "book" => name[id[t]] \in {req[t].name, NoName}
    /\ Uncommitted(t, "import") => id[t] # 0 /\ name[id[t]] = req[t].name

(* Each statement belongs to its kind of request. *)
StatementsFit ==
  \A t \in Threads :
    /\ pc[t] = "insert" => req[t].op = "create"
    /\ pc[t] \in {"select", "check", "delete"} => req[t].op = "delete"
    /\ pc[t] \in {"resolve", "book"} => req[t].op = "import"

RowsExclude ==
  IdsAreFresh /\ CreatesExclude /\ DeletesExclude /\ BookingsHold /\ StatementsFit

(***************************************************************************)
(* Each request takes effect in one step (PortfolioRegister): the check    *)
(* and the DELETE, and the SELECT and the INSERT of an import, come to the *)
(* same as if no other statement were between them.                        *)
(***************************************************************************)
Register == INSTANCE PortfolioRegister

ImplementsRegister == Register!RegisterSpec

(***************************************************************************)
(* Fairness as for the imports: threads are scheduled, lock waiters are    *)
(* queued.                                                                 *)
(***************************************************************************)
MayWait(t) ==
  \/ InsertPortfolio(t) \/ InsertConflicts(t)
  \/ DeletePortfolio(t) \/ DeleteRefused(t)
  \/ BookPosition(t) \/ BookingFails(t)

FairSpec == Spec /\ \A t \in Threads : WF_vars(Step(t)) /\ SF_vars(MayWait(t))

(***************************************************************************)
(* No wait for a name, a row or a reference closes a cycle: every request  *)
(* is answered (portfolios.py:66-80, 124-150), except that imports to a    *)
(* portfolio that never stop overlapping keep its row from the DELETE.     *)
(***************************************************************************)
Pending(t) == reply[t].status = "pending"

Overtaken(t) == pc[t] = "delete" /\ \E u \in Threads : Refers(u, id[t])

EveryRequestAnswered ==
  \A t \in Threads : <>[]Pending(t) => <>[]Overtaken(t)
=============================================================================
