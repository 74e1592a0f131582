-------------------------- MODULE Portfolio_proofs --------------------------
(***************************************************************************)
(* The theorems about portfolios, for any threads, names and number of     *)
(* ids: no position is left without its portfolio, what clients were told  *)
(* stays true, and each request takes effect in one step.                  *)
(***************************************************************************)
EXTENDS PortfolioProperties, FiniteSetTheorems, TLAPS

(* The inductive invariant: the properties proved and how the transactions *)
(* keep apart.                                                             *)
IInv == TypeOK /\ RowsExclude /\ NoDanglingPosition /\ RepliesStayTrue

USE DEF Others

(***************************************************************************)
(* The ids that are left suffice for the creates under way.                *)
(***************************************************************************)
LEMMA InsertingFinite ==
  /\ IsFiniteSet(Inserting) /\ Cardinality(Inserting) \in Nat
BY PortfoliosAssumption, FS_Subset, FS_CardinalityType DEF Inserting

(* One who leaves "insert" frees its place, anybody else changes nothing.  *)
LEMMA InsertingShrinks ==
  ASSUME TypeOK, NEW t \in Threads, NEW s, s # "insert", GoTo(t, s)
  PROVE  /\ Inserting' = Inserting \ {t}
         /\ Cardinality(Inserting') \in Nat
         /\ Cardinality(Inserting') = IF pc[t] = "insert" THEN Cardinality(Inserting) - 1
                                                         ELSE Cardinality(Inserting)
<1>1. Inserting' = Inserting \ {t}
  BY DEF TypeOK, Inserting, GoTo
<1>2. t \in Inserting <=> pc[t] = "insert"
  BY DEF Inserting
<1> QED
  BY <1>1, <1>2, InsertingFinite, FS_RemoveElement, FS_CardinalityType

LEMMA InsertingGrows ==
  ASSUME TypeOK, NEW t \in Threads, pc[t] # "insert", GoTo(t, "insert")
  PROVE  Cardinality(Inserting') = Cardinality(Inserting) + 1
<1>1. Inserting' = Inserting \cup {t}
  BY DEF TypeOK, Inserting, GoTo
<1>2. t \notin Inserting
  BY DEF Inserting
<1> QED
  BY <1>1, <1>2, InsertingFinite, FS_AddElement

LEMMA NoRequestType == NoRequest \in Requests
BY PortfoliosAssumption DEF NoRequest, Requests

(* The replies that name a row.                                            *)
LEMMA ReplyIds ==
  ASSUME TypeOK
  PROVE  \A u \in Threads : reply[u].status \in {"deleted", "in_use", "created", "recorded"}
                             => reply[u].id \in Ids
BY DEF TypeOK, Replies

(* A transaction that ends with nothing written disturbs nobody.            *)
LEMMA EndPreserves ==
  ASSUME IInv, NEW t \in Threads, NEW a \in Replies, End(t, a),
         a.status = "in_use" => a.id = id[t] /\ id[t] \in booked,
         a.status \notin {"deleted", "created", "recorded"}
  PROVE  IInv'
<1>a. nextId + Cardinality(Inserting') <= MaxId + 1
  <2>1. GoTo(t, "idle")
    BY DEF End, Answer
  <2> QED
    BY <2>1, InsertingShrinks, InsertingFinite, PortfoliosAssumption
       DEF IInv, TypeOK, RowsExclude, IdsAreFresh, Ids
<1> USE DEF IInv, End, Answer, GoTo, Finds
<1>1. TypeOK'
  BY PortfoliosAssumption, NoRequestType DEF TypeOK, Ids
<1>2. IdsAreFresh'
  BY <1>a DEF TypeOK, RowsExclude, IdsAreFresh, Ids
<1>3. CreatesExclude'
  BY DEF TypeOK, RowsExclude, IdsAreFresh, CreatesExclude, StatementsFit, Uncommitted,
         Inserts, Taken, Ids
<1>4. DeletesExclude'
  BY DEF TypeOK, RowsExclude, DeletesExclude, CreatesExclude, BookingsHold,
         StatementsFit, Uncommitted, Refers, Deletes, Ids
<1>5. BookingsHold'
  BY DEF TypeOK, RowsExclude, BookingsHold, StatementsFit, Uncommitted, Ids
<1>6. StatementsFit'
  BY DEF TypeOK, RowsExclude, StatementsFit
<1>7. NoDanglingPosition'
  BY DEF NoDanglingPosition
<1>8. RepliesStayTrue'
  BY DEF TypeOK, RepliesStayTrue, NoDanglingPosition
<1> QED
  BY <1>1, <1>2, <1>3, <1>4, <1>5, <1>6, <1>7, <1>8 DEF RowsExclude

(***************************************************************************)
(* One lemma for each statement: what it does to each part of the          *)
(* invariant.                                                              *)
(***************************************************************************)
LEMMA InsertPortfolioPreserves ==
  ASSUME IInv, NEW t \in Threads, InsertPortfolio(t)
  PROVE  IInv'
<1>a. /\ nextId \in Ids /\ nextId + 1 \in 1..(MaxId + 1)
      /\ Cardinality(Inserting') \in Nat
      /\ nextId + 1 + Cardinality(Inserting') <= MaxId + 1
  <2>1. GoTo(t, "commit") /\ pc[t] = "insert"
    BY DEF InsertPortfolio
  <2> QED
    BY <2>1, InsertingShrinks, InsertingFinite, PortfoliosAssumption
       DEF IInv, TypeOK, RowsExclude, IdsAreFresh, Ids
<1> USE DEF IInv, InsertPortfolio, GoTo, Finds, rows, NewId, CanInsert
<1>1. TypeOK'
  BY <1>a DEF TypeOK, Ids
<1>2. IdsAreFresh'
  <2>1. \A u \in Threads : id'[u] < nextId'
    BY <1>a DEF TypeOK, RowsExclude, IdsAreFresh, Ids
  <2>2. \A u \in Threads : reply'[u].status \in {"deleted", "in_use", "created", "recorded"}
                           => reply'[u].id < nextId'
    BY <1>a, ReplyIds DEF TypeOK, RowsExclude, IdsAreFresh, Ids
  <2>3. \A i \in Ids : i >= nextId' => name'[i] = NoName
    BY <1>a DEF TypeOK, RowsExclude, IdsAreFresh, Ids
  <2> QED
    BY <1>a, <2>1, <2>2, <2>3 DEF IdsAreFresh
<1>3. CreatesExclude'
  BY <1>a
     DEF TypeOK, RowsExclude, IdsAreFresh, CreatesExclude, StatementsFit, BookingsHold,
         Uncommitted, Inserts, Taken, Ids
<1>4. DeletesExclude'
  BY <1>a
     DEF TypeOK, RowsExclude, IdsAreFresh, DeletesExclude, StatementsFit, Uncommitted,
         Refers, Deletes, Ids
<1>5. BookingsHold'
  BY <1>a DEF TypeOK, RowsExclude, BookingsHold, StatementsFit, Uncommitted, Ids
<1>6. StatementsFit'
  BY DEF TypeOK, RowsExclude, StatementsFit
<1>7. NoDanglingPosition'
  BY DEF NoDanglingPosition
<1>8. RepliesStayTrue'
  BY DEF TypeOK, RepliesStayTrue, NoDanglingPosition
<1> QED
  BY <1>1, <1>2, <1>3, <1>4, <1>5, <1>6, <1>7, <1>8 DEF RowsExclude

LEMMA InsertConflictsPreserves ==
  ASSUME IInv, NEW t \in Threads, InsertConflicts(t)
  PROVE  IInv'
<1>a. /\ nextId \in Ids /\ nextId + 1 \in 1..(MaxId + 1)
      /\ Cardinality(Inserting') \in Nat
      /\ nextId + 1 + Cardinality(Inserting') <= MaxId + 1
  <2>1. GoTo(t, "idle") /\ pc[t] = "insert"
    BY DEF InsertConflicts, Answer
  <2> QED
    BY <2>1, InsertingShrinks, InsertingFinite, PortfoliosAssumption
       DEF IInv, TypeOK, RowsExclude, IdsAreFresh, Ids
<1> USE DEF IInv, InsertConflicts, Answer, GoTo, Finds, rows
<1>1. TypeOK'
  BY <1>a, NoRequestType DEF TypeOK, Replies, Ids
<1>2. IdsAreFresh'
  <2>1. \A u \in Threads : id'[u] < nextId'
    BY <1>a DEF TypeOK, RowsExclude, IdsAreFresh, Ids
  <2>2. \A u \in Threads : reply'[u].status \in {"deleted", "in_use", "created", "recorded"}
                           => reply'[u].id < nextId'
    BY <1>a, ReplyIds DEF TypeOK, RowsExclude, IdsAreFresh, Ids
  <2>3. \A i \in Ids : i >= nextId' => name'[i] = NoName
    BY <1>a DEF TypeOK, RowsExclude, IdsAreFresh, Ids
  <2> QED
    BY <1>a, <2>1, <2>2, <2>3 DEF IdsAreFresh
<1>3. CreatesExclude'
  BY DEF TypeOK, RowsExclude, IdsAreFresh, CreatesExclude, StatementsFit, Uncommitted,
         Inserts, Taken, Ids
<1>4. DeletesExclude'
  BY DEF TypeOK, RowsExclude, DeletesExclude, CreatesExclude, BookingsHold,
         StatementsFit, Uncommitted, Refers, Deletes, Ids
<1>5. BookingsHold'
  BY DEF TypeOK, RowsExclude, BookingsHold, StatementsFit, Uncommitted, Ids
<1>6. StatementsFit'
  BY DEF TypeOK, RowsExclude, StatementsFit
<1>7. NoDanglingPosition'
  BY DEF NoDanglingPosition
<1>8. RepliesStayTrue'
  BY DEF TypeOK, RepliesStayTrue, NoDanglingPosition
<1> QED
  BY <1>1, <1>2, <1>3, <1>4, <1>5, <1>6, <1>7, <1>8 DEF RowsExclude

LEMMA SelectPortfolioPreserves ==
  ASSUME IInv, NEW t \in Threads, SelectPortfolio(t)
  PROVE  IInv'
<1>a. nextId + Cardinality(Inserting') <= MaxId + 1
  <2>1. GoTo(t, "check")
    BY DEF SelectPortfolio
  <2> QED
    BY <2>1, InsertingShrinks, InsertingFinite, PortfoliosAssumption
       DEF IInv, TypeOK, RowsExclude, IdsAreFresh, Ids
<1> USE DEF IInv, SelectPortfolio, GoTo, Finds, rows
<1>1. TypeOK'
  BY DEF TypeOK, RowsExclude, StatementsFit, Requests, Ids
<1>2. IdsAreFresh'
  BY <1>a, PortfoliosAssumption
     DEF TypeOK, RowsExclude, IdsAreFresh, StatementsFit, Requests, Ids
<1>3. CreatesExclude'
  BY DEF TypeOK, RowsExclude, IdsAreFresh, CreatesExclude, StatementsFit, Uncommitted,
         Inserts, Taken, Ids
<1>4. DeletesExclude'
  BY DEF TypeOK, RowsExclude, DeletesExclude, CreatesExclude, BookingsHold,
         StatementsFit, Uncommitted, Refers, Deletes, Ids
<1>5. BookingsHold'
  BY DEF TypeOK, RowsExclude, BookingsHold, StatementsFit, Uncommitted, Requests, Ids
<1>6. StatementsFit'
  BY DEF TypeOK, RowsExclude, StatementsFit
<1>7. NoDanglingPosition'
  BY DEF NoDanglingPosition
<1>8. RepliesStayTrue'
  BY DEF TypeOK, RepliesStayTrue, NoDanglingPosition
<1> QED
  BY <1>1, <1>2, <1>3, <1>4, <1>5, <1>6, <1>7, <1>8 DEF RowsExclude

LEMMA CheckPositionsPreserves ==
  ASSUME IInv, NEW t \in Threads, CheckPositions(t)
  PROVE  IInv'
<1>a. nextId + Cardinality(Inserting') <= MaxId + 1
  <2>1. GoTo(t, "delete")
    BY DEF CheckPositions
  <2> QED
    BY <2>1, InsertingShrinks, InsertingFinite, PortfoliosAssumption
       DEF IInv, TypeOK, RowsExclude, IdsAreFresh, Ids
<1> USE DEF IInv, CheckPositions, GoTo, rows
<1>1. TypeOK'
  BY PortfoliosAssumption, NoRequestType DEF TypeOK, Ids
<1>2. IdsAreFresh'
  BY <1>a DEF TypeOK, RowsExclude, IdsAreFresh, Ids
<1>3. CreatesExclude'
  BY DEF TypeOK, RowsExclude, IdsAreFresh, CreatesExclude, StatementsFit, Uncommitted,
         Inserts, Taken, Ids
<1>4. DeletesExclude'
  BY DEF TypeOK, RowsExclude, DeletesExclude, CreatesExclude, BookingsHold,
         StatementsFit, Uncommitted, Refers, Deletes, Ids
<1>5. BookingsHold'
  BY DEF TypeOK, RowsExclude, BookingsHold, StatementsFit, Uncommitted, Ids
<1>6. StatementsFit'
  BY DEF TypeOK, RowsExclude, StatementsFit
<1>7. NoDanglingPosition'
  BY DEF NoDanglingPosition
<1>8. RepliesStayTrue'
  BY DEF TypeOK, RepliesStayTrue, NoDanglingPosition
<1> QED
  BY <1>1, <1>2, <1>3, <1>4, <1>5, <1>6, <1>7, <1>8 DEF RowsExclude

LEMMA DeletePortfolioPreserves ==
  ASSUME IInv, NEW t \in Threads, DeletePortfolio(t)
  PROVE  IInv'
<1>a. nextId + Cardinality(Inserting') <= MaxId + 1
  <2>1. GoTo(t, "commit")
    BY DEF DeletePortfolio
  <2> QED
    BY <2>1, InsertingShrinks, InsertingFinite, PortfoliosAssumption
       DEF IInv, TypeOK, RowsExclude, IdsAreFresh, Ids
<1> USE DEF IInv, DeletePortfolio, GoTo, rows, CanDelete
<1>1. TypeOK'
  BY PortfoliosAssumption, NoRequestType DEF TypeOK, Ids
<1>2. IdsAreFresh'
  BY <1>a DEF TypeOK, RowsExclude, IdsAreFresh, Ids
<1>3. CreatesExclude'
  BY DEF TypeOK, RowsExclude, IdsAreFresh, CreatesExclude, StatementsFit, Uncommitted,
         Inserts, Taken, Ids
<1>4. DeletesExclude'
  BY DEF TypeOK, RowsExclude, DeletesExclude, CreatesExclude, BookingsHold,
         StatementsFit, Uncommitted, Refers, Deletes, Ids
<1>5. BookingsHold'
  BY DEF TypeOK, RowsExclude, BookingsHold, StatementsFit, Uncommitted, Ids
<1>6. StatementsFit'
  BY DEF TypeOK, RowsExclude, StatementsFit
<1>7. NoDanglingPosition'
  BY DEF NoDanglingPosition
<1>8. RepliesStayTrue'
  BY DEF TypeOK, RepliesStayTrue, NoDanglingPosition
<1> QED
  BY <1>1, <1>2, <1>3, <1>4, <1>5, <1>6, <1>7, <1>8 DEF RowsExclude

LEMMA ResolvePreserves ==
  ASSUME IInv, NEW t \in Threads, Resolve(t)
  PROVE  IInv'
<1>a. nextId + Cardinality(Inserting') <= MaxId + 1
  <2>1. GoTo(t, "book")
    BY DEF Resolve
  <2> QED
    BY <2>1, InsertingShrinks, InsertingFinite, PortfoliosAssumption
       DEF IInv, TypeOK, RowsExclude, IdsAreFresh, Ids
<1> USE DEF IInv, Resolve, GoTo, Finds, rows
<1>1. TypeOK'
  BY PortfoliosAssumption, NoRequestType DEF TypeOK, Ids
<1>2. IdsAreFresh'
  <2>1. PICK i \in Ids : name[i] = req[t].name /\ id' = [id EXCEPT ![t] = i]
    OBVIOUS
  <2>2. req[t].name \in Names
    BY DEF TypeOK, RowsExclude, StatementsFit, Requests
  <2>3. i < nextId
    <3>1. name[i] # NoName
      BY <2>1, <2>2, PortfoliosAssumption
    <3>2. i \in Nat /\ nextId \in Nat
      BY PortfoliosAssumption DEF TypeOK, Ids
    <3> QED
      BY <3>1, <3>2 DEF RowsExclude, IdsAreFresh
  <2>4. \A u \in Threads : id'[u] < nextId
    BY <2>1, <2>3 DEF TypeOK, RowsExclude, IdsAreFresh
  <2> QED
    BY <1>a, <2>4 DEF RowsExclude, IdsAreFresh
<1>3. CreatesExclude'
  <2>1. ASSUME NEW u \in Threads, Uncommitted(u, "create")
        PROVE  u # t /\ id'[t] # id[u]
    BY <2>1, PortfoliosAssumption
       DEF TypeOK, RowsExclude, CreatesExclude, StatementsFit, Uncommitted, Taken,
           Requests, Ids
  <2>2. \A u \in Threads : Uncommitted(u, "create")' <=> Uncommitted(u, "create")
    BY DEF TypeOK, Uncommitted
  <2> QED
    BY <2>1, <2>2 DEF TypeOK, RowsExclude, CreatesExclude, Uncommitted, Inserts, Taken
<1>4. DeletesExclude'
  BY DEF TypeOK, RowsExclude, DeletesExclude, CreatesExclude, BookingsHold,
         StatementsFit, Uncommitted, Refers, Deletes, Ids
<1>5. BookingsHold'
  BY DEF TypeOK, RowsExclude, BookingsHold, StatementsFit, Uncommitted, Ids
<1>6. StatementsFit'
  BY DEF TypeOK, RowsExclude, StatementsFit
<1>7. NoDanglingPosition'
  BY DEF NoDanglingPosition
<1>8. RepliesStayTrue'
  BY DEF TypeOK, RepliesStayTrue, NoDanglingPosition
<1> QED
  BY <1>1, <1>2, <1>3, <1>4, <1>5, <1>6, <1>7, <1>8 DEF RowsExclude

LEMMA BookPositionPreserves ==
  ASSUME IInv, NEW t \in Threads, BookPosition(t)
  PROVE  IInv'
<1>a. nextId + Cardinality(Inserting') <= MaxId + 1
  <2>1. GoTo(t, "commit")
    BY DEF BookPosition
  <2> QED
    BY <2>1, InsertingShrinks, InsertingFinite, PortfoliosAssumption
       DEF IInv, TypeOK, RowsExclude, IdsAreFresh, Ids
<1> USE DEF IInv, BookPosition, GoTo, rows, CanRefer
<1>1. TypeOK'
  BY PortfoliosAssumption, NoRequestType DEF TypeOK, Ids
<1>2. IdsAreFresh'
  BY <1>a DEF TypeOK, RowsExclude, IdsAreFresh, Ids
<1>3. CreatesExclude'
  BY DEF TypeOK, RowsExclude, IdsAreFresh, CreatesExclude, StatementsFit, Uncommitted,
         Inserts, Taken, Ids
<1>4. DeletesExclude'
  BY DEF TypeOK, RowsExclude, DeletesExclude, CreatesExclude, BookingsHold,
         StatementsFit, Uncommitted, Refers, Deletes, Ids
<1>5. BookingsHold'
  BY DEF TypeOK, RowsExclude, BookingsHold, StatementsFit, Uncommitted, Ids
<1>6. StatementsFit'
  BY DEF TypeOK, RowsExclude, StatementsFit
<1>7. NoDanglingPosition'
  BY DEF NoDanglingPosition
<1>8. RepliesStayTrue'
  BY DEF TypeOK, RepliesStayTrue, NoDanglingPosition
<1> QED
  BY <1>1, <1>2, <1>3, <1>4, <1>5, <1>6, <1>7, <1>8 DEF RowsExclude

(* A request arrives.                                                      *)
LEMMA ReceivePreserves ==
  ASSUME IInv, NEW t \in Threads, NEW r \in Requests, Receive(t, r)
  PROVE  IInv'
<1> DEFINE s == FirstStatement[r.op]
<1>o. /\ r.op \in {"create", "delete", "import"}
      /\ r.op = "create" => s = "insert"
      /\ r.op = "delete" => s = "select"
      /\ r.op = "import" => s = "resolve"
  BY DEF Requests, FirstStatement
<1>g. GoTo(t, s)
  BY DEF Receive
<1> HIDE DEF s
<1>a. nextId + Cardinality(Inserting') <= MaxId + 1
  <2>1. CASE r.op = "create"
    <3>1. GoTo(t, "insert") /\ pc[t] # "insert"
      BY <1>o, <1>g, <2>1 DEF Receive
    <3> QED
      BY <3>1, <2>1, InsertingGrows, InsertingFinite, PortfoliosAssumption
         DEF Receive, IInv, TypeOK, Ids
  <2>2. CASE r.op # "create"
    <3>1. s # "insert" /\ pc[t] # "insert"
      BY <1>o, <2>2 DEF Receive
    <3> QED
      BY <1>g, <3>1, InsertingShrinks DEF IInv, RowsExclude, IdsAreFresh
  <2> QED
    BY <2>1, <2>2
<1>r. /\ pc[t] = "idle"
      /\ req' = [req EXCEPT ![t] = r]
      /\ reply' = [reply EXCEPT ![t] = [status |-> "pending"]]
      /\ UNCHANGED <<name, booked, nextId, id>>
  BY DEF Receive
<1> USE DEF IInv, GoTo
<1>1. TypeOK'
  BY <1>o, <1>g, <1>r DEF TypeOK, Replies
<1>2. IdsAreFresh'
  BY <1>a, <1>g, <1>r DEF TypeOK, RowsExclude, IdsAreFresh, Ids
<1>3. CreatesExclude'
  BY <1>o, <1>g, <1>r
     DEF TypeOK, RowsExclude, IdsAreFresh, CreatesExclude, Uncommitted, Inserts, Taken,
         Ids
<1>4. DeletesExclude'
  BY <1>o, <1>g, <1>r
     DEF TypeOK, RowsExclude, DeletesExclude, Uncommitted, Refers, Deletes, Ids
<1>5. BookingsHold'
  BY <1>o, <1>g, <1>r DEF TypeOK, RowsExclude, BookingsHold, Uncommitted, Ids
<1>6. StatementsFit'
  BY <1>o, <1>g, <1>r DEF TypeOK, RowsExclude, StatementsFit
<1>7. NoDanglingPosition'
  BY <1>r DEF NoDanglingPosition
<1>8. RepliesStayTrue'
  BY <1>r DEF TypeOK, RepliesStayTrue, NoDanglingPosition
<1> QED
  BY <1>1, <1>2, <1>3, <1>4, <1>5, <1>6, <1>7, <1>8 DEF RowsExclude

(* The commit of each kind of transaction.                                 *)
LEMMA CommitCreatePreserves ==
  ASSUME IInv, NEW t \in Threads, Uncommitted(t, "create"), Write(t),
         NEW a \in {Done(t), Error}, Answer(t, a)
  PROVE  IInv'
<1>w. /\ name' = [name EXCEPT ![id[t]] = req[t].name] /\ booked' = booked
      /\ req[t].name \in Names
      /\ nextId' = nextId
      /\ a.status # "error" => a = [status |-> "created", id |-> id[t], name |-> req[t].name]
      /\ a \in Replies /\ id[t] \in Ids
  BY PortfoliosAssumption
     DEF IInv, TypeOK, RowsExclude, CreatesExclude, DeletesExclude, BookingsHold,
         Uncommitted, Write, Entered, Done, Error, Requests, Replies
<1>a. nextId + Cardinality(Inserting') <= MaxId + 1
  <2>1. GoTo(t, "idle")
    BY DEF Answer
  <2> QED
    BY <2>1, InsertingShrinks, InsertingFinite, PortfoliosAssumption
       DEF IInv, TypeOK, RowsExclude, IdsAreFresh, Ids
<1>b. pc[t] = "commit" /\ req[t].op = "create"
  BY DEF Uncommitted
<1> USE DEF IInv, Answer, GoTo, Finds
<1>1. TypeOK'
  BY <1>w, PortfoliosAssumption, NoRequestType DEF TypeOK
<1>2. IdsAreFresh'
  BY <1>a, <1>b, <1>w DEF TypeOK, RowsExclude, IdsAreFresh, Uncommitted, Ids
<1>3. CreatesExclude'
  BY <1>b, <1>w
     DEF TypeOK, RowsExclude, IdsAreFresh, CreatesExclude, DeletesExclude, BookingsHold,
         Uncommitted, Inserts, Taken, Ids
<1>4. DeletesExclude'
  BY <1>b, <1>w
     DEF TypeOK, RowsExclude, CreatesExclude, DeletesExclude, BookingsHold, Uncommitted,
         Refers, Deletes, Ids
<1>5. BookingsHold'
  BY <1>b, <1>w
     DEF TypeOK, RowsExclude, CreatesExclude, DeletesExclude, BookingsHold, Uncommitted,
         Refers, Deletes, Ids
<1>6. StatementsFit'
  BY <1>b DEF TypeOK, RowsExclude, StatementsFit
<1>7. NoDanglingPosition'
  BY <1>b, <1>w, PortfoliosAssumption
     DEF TypeOK, RowsExclude, CreatesExclude, DeletesExclude, BookingsHold,
         NoDanglingPosition, Uncommitted, Taken, Requests, Ids
<1>8. RepliesStayTrue'
  BY <1>b, <1>w, PortfoliosAssumption
     DEF TypeOK, RowsExclude, CreatesExclude, DeletesExclude, BookingsHold,
         NoDanglingPosition, RepliesStayTrue, Uncommitted, Requests, Ids
<1> QED
  BY <1>1, <1>2, <1>3, <1>4, <1>5, <1>6, <1>7, <1>8 DEF RowsExclude

LEMMA CommitDeletePreserves ==
  ASSUME IInv, NEW t \in Threads, Uncommitted(t, "delete"), Write(t),
         NEW a \in {Done(t), Error}, Answer(t, a)
  PROVE  IInv'
<1>w. /\ name' = [name EXCEPT ![id[t]] = NoName] /\ booked' = booked
      /\ nextId' = nextId
      /\ a.status # "error" => a = [status |-> "deleted", id |-> id[t]]
      /\ a \in Replies /\ id[t] \in Ids
  BY PortfoliosAssumption
     DEF IInv, TypeOK, RowsExclude, CreatesExclude, DeletesExclude, BookingsHold,
         Uncommitted, Write, Entered, Done, Error, Requests, Replies
<1>a. nextId + Cardinality(Inserting') <= MaxId + 1
  <2>1. GoTo(t, "idle")
    BY DEF Answer
  <2> QED
    BY <2>1, InsertingShrinks, InsertingFinite, PortfoliosAssumption
       DEF IInv, TypeOK, RowsExclude, IdsAreFresh, Ids
<1>b. pc[t] = "commit" /\ req[t].op = "delete"
  BY DEF Uncommitted
<1> USE DEF IInv, Answer, GoTo, Finds
<1>1. TypeOK'
  BY <1>w, PortfoliosAssumption, NoRequestType DEF TypeOK
<1>2. IdsAreFresh'
  BY <1>a, <1>b, <1>w DEF TypeOK, RowsExclude, IdsAreFresh, Uncommitted, Ids
<1>3. CreatesExclude'
  BY <1>b, <1>w
     DEF TypeOK, RowsExclude, IdsAreFresh, CreatesExclude, DeletesExclude, BookingsHold,
         Uncommitted, Inserts, Taken, Ids
<1>4. DeletesExclude'
  BY <1>b, <1>w
     DEF TypeOK, RowsExclude, CreatesExclude, DeletesExclude, BookingsHold, Uncommitted,
         Refers, Deletes, Ids
<1>5. BookingsHold'
  BY <1>b, <1>w
     DEF TypeOK, RowsExclude, CreatesExclude, DeletesExclude, BookingsHold, Uncommitted,
         Refers, Deletes, Ids
<1>6. StatementsFit'
  BY <1>b DEF TypeOK, RowsExclude, StatementsFit
<1>7. NoDanglingPosition'
  BY <1>b, <1>w, PortfoliosAssumption
     DEF TypeOK, RowsExclude, CreatesExclude, DeletesExclude, BookingsHold,
         NoDanglingPosition, Uncommitted, Taken, Requests, Ids
<1>8. RepliesStayTrue'
  BY <1>b, <1>w, PortfoliosAssumption
     DEF TypeOK, RowsExclude, CreatesExclude, DeletesExclude, BookingsHold,
         NoDanglingPosition, RepliesStayTrue, Uncommitted, Requests, Ids
<1> QED
  BY <1>1, <1>2, <1>3, <1>4, <1>5, <1>6, <1>7, <1>8 DEF RowsExclude

LEMMA CommitImportPreserves ==
  ASSUME IInv, NEW t \in Threads, Uncommitted(t, "import"), Write(t),
         NEW a \in {Done(t), Error}, Answer(t, a)
  PROVE  IInv'
<1>w. /\ name' = name /\ booked' = booked \cup {id[t]}
      /\ req[t].name \in Names
      /\ nextId' = nextId
      /\ a.status # "error" => a = [status |-> "recorded", id |-> id[t], name |-> req[t].name]
      /\ a \in Replies /\ id[t] \in Ids
  BY PortfoliosAssumption
     DEF IInv, TypeOK, RowsExclude, CreatesExclude, DeletesExclude, BookingsHold,
         Uncommitted, Write, Entered, Done, Error, Requests, Replies
<1>a. nextId + Cardinality(Inserting') <= MaxId + 1
  <2>1. GoTo(t, "idle")
    BY DEF Answer
  <2> QED
    BY <2>1, InsertingShrinks, InsertingFinite, PortfoliosAssumption
       DEF IInv, TypeOK, RowsExclude, IdsAreFresh, Ids
<1>b. pc[t] = "commit" /\ req[t].op = "import"
  BY DEF Uncommitted
<1> USE DEF IInv, Answer, GoTo, Finds
<1>1. TypeOK'
  BY <1>w, PortfoliosAssumption, NoRequestType DEF TypeOK
<1>2. IdsAreFresh'
  BY <1>a, <1>b, <1>w DEF TypeOK, RowsExclude, IdsAreFresh, Uncommitted, Ids
<1>3. CreatesExclude'
  BY <1>b, <1>w
     DEF TypeOK, RowsExclude, IdsAreFresh, CreatesExclude, DeletesExclude, BookingsHold,
         Uncommitted, Inserts, Taken, Ids
<1>4. DeletesExclude'
  BY <1>b, <1>w
     DEF TypeOK, RowsExclude, CreatesExclude, DeletesExclude, BookingsHold, Uncommitted,
         Refers, Deletes, Ids
<1>5. BookingsHold'
  BY <1>b, <1>w
     DEF TypeOK, RowsExclude, CreatesExclude, DeletesExclude, BookingsHold, Uncommitted,
         Refers, Deletes, Ids
<1>6. StatementsFit'
  BY <1>b DEF TypeOK, RowsExclude, StatementsFit
<1>7. NoDanglingPosition'
  BY <1>b, <1>w, PortfoliosAssumption
     DEF TypeOK, RowsExclude, CreatesExclude, DeletesExclude, BookingsHold,
         NoDanglingPosition, Uncommitted, Taken, Requests, Ids
<1>8. RepliesStayTrue'
  BY <1>b, <1>w, PortfoliosAssumption
     DEF TypeOK, RowsExclude, CreatesExclude, DeletesExclude, BookingsHold,
         NoDanglingPosition, RepliesStayTrue, Uncommitted, Requests, Ids
<1> QED
  BY <1>1, <1>2, <1>3, <1>4, <1>5, <1>6, <1>7, <1>8 DEF RowsExclude

(***************************************************************************)
(* The invariant is inductive.                                             *)
(***************************************************************************)
LEMMA InitInv == Init => IInv
<1> SUFFICES ASSUME Init PROVE IInv
  OBVIOUS
<1> USE PortfoliosAssumption DEF Init
<1>1. TypeOK
  BY NoRequestType DEF TypeOK, Ids, Replies
<1>2. Inserting = {}
  BY DEF Inserting
<1>3. IdsAreFresh
  BY <1>2, FS_EmptySet DEF IdsAreFresh, Ids
<1>4. CreatesExclude /\ DeletesExclude /\ BookingsHold /\ StatementsFit
  BY DEF CreatesExclude, DeletesExclude, BookingsHold, StatementsFit, Uncommitted
<1>5. NoDanglingPosition /\ RepliesStayTrue
  BY DEF NoDanglingPosition, RepliesStayTrue
<1> QED
  BY <1>1, <1>3, <1>4, <1>5 DEF IInv, RowsExclude

LEMMA CommitPreserves ==
  ASSUME IInv, NEW t \in Threads, pc[t] = "commit", Write(t),
         NEW a \in {Done(t), Error}, Answer(t, a)
  PROVE  IInv'
<1>1. req[t].op \in {"create", "delete", "import"}
  BY DEF IInv, TypeOK, Requests
<1> QED
  BY <1>1, CommitCreatePreserves, CommitDeletePreserves, CommitImportPreserves
     DEF Uncommitted

(* The steps that answer a request without a commit.                       *)
LEMMA AnswersPreserve ==
  ASSUME IInv, NEW t \in Threads,
         \/ NotFound(t) \/ InUse(t) \/ DeleteRefused(t)
         \/ RejectPortfolio(t) \/ BookingFails(t) \/ Fail(t)
  PROVE  IInv'
<1>1. CASE InUse(t)
  <2>1. id[t] \in Ids
    BY <1>1 DEF InUse, IInv, TypeOK
  <2>2. [status |-> "in_use", id |-> id[t]] \in Replies
    BY <2>1 DEF Replies
  <2> QED
    BY <1>1, <2>2, EndPreserves DEF InUse
<1>2. CASE \E s \in {"error", "conflict", "not_found", "rejected"} : End(t, [status |-> s])
  <2>1. PICK s \in {"error", "conflict", "not_found", "rejected"} : End(t, [status |-> s])
    BY <1>2
  <2>2. [status |-> s] \in Replies
    BY DEF Replies
  <2> QED
    BY <2>1, <2>2, EndPreserves
<1> QED
  BY <1>1, <1>2
     DEF NotFound, InUse, DeleteRefused, RejectPortfolio, BookingFails, Fail, Error

LEMMA NextInv == IInv /\ [Next]_vars => IInv'
<1> SUFFICES ASSUME IInv, [Next]_vars PROVE IInv'
  OBVIOUS
<1>1. CASE UNCHANGED vars
  BY <1>1
     DEF vars, IInv, TypeOK, RowsExclude, IdsAreFresh, CreatesExclude, DeletesExclude,
         BookingsHold, StatementsFit, NoDanglingPosition, RepliesStayTrue, Inserting,
         Uncommitted, Inserts, Deletes, Refers, Taken
<1>2. ASSUME NEW t \in Threads, NEW r \in Requests, Receive(t, r)
      PROVE  IInv'
  BY <1>2, ReceivePreserves
<1>3. ASSUME NEW t \in Threads, Fail(t)
      PROVE  IInv'
  BY <1>3, AnswersPreserve
<1>4. ASSUME NEW t \in Threads, Step(t)
      PROVE  IInv'
  <2>1. CASE Commit(t) \/ CommitUnacknowledged(t)
    BY <2>1, CommitPreserves DEF Commit, CommitUnacknowledged
  <2> QED
    BY <1>4, <2>1, AnswersPreserve, InsertPortfolioPreserves, InsertConflictsPreserves,
       SelectPortfolioPreserves, CheckPositionsPreserves, DeletePortfolioPreserves,
       ResolvePreserves, BookPositionPreserves
       DEF Step
<1> QED
  BY <1>1, <1>2, <1>3, <1>4 DEF Next

LEMMA Invariance == Spec => []IInv
BY InitInv, NextInv, PTL DEF Spec

(***************************************************************************)
(* Every variable keeps its type; the creates under way never run out of   *)
(* ids.                                                                    *)
(***************************************************************************)
THEOREM TypeCorrect == Spec => []TypeOK
<1>1. IInv => TypeOK
  BY DEF IInv
<1> QED
  BY <1>1, Invariance, PTL

(***************************************************************************)
(* Transactions keep apart on names, rows and references (the UNIQUE and   *)
(* REFERENCES columns of 0001).                                            *)
(***************************************************************************)
THEOREM Exclusion == Spec => []RowsExclude
<1>1. IInv => RowsExclude
  BY DEF IInv
<1> QED
  BY <1>1, Invariance, PTL

(***************************************************************************)
(* No position is left without its portfolio by the unlocked check of      *)
(* portfolios.py:138-145, and no name has two portfolios.                  *)
(***************************************************************************)
THEOREM NoneDangling == Spec => []NoDanglingPosition
<1>1. IInv => NoDanglingPosition
  BY DEF IInv
<1> QED
  BY <1>1, Invariance, PTL

(***************************************************************************)
(* What a client was told of a portfolio stays true (portfolios.py:66-80,  *)
(* 124-150).                                                               *)
(***************************************************************************)
THEOREM RepliesTrue == Spec => []RepliesStayTrue
<1>1. IInv => RepliesStayTrue
  BY DEF IInv
<1> QED
  BY <1>1, Invariance, PTL

(***************************************************************************)
(* Each request takes effect in one step or not at all: the statements of  *)
(* portfolios.py:124-150 and ledger.py:73-144 between which others may     *)
(* commit implement PortfolioRegister.                                     *)
(***************************************************************************)
LEMMA CommitIsRegistered ==
  ASSUME IInv, NEW t \in Threads, pc[t] = "commit", Write(t)
  PROVE  Register!RegisterNext
<1>1. req[t].op \in {"create", "delete", "import"}
  BY DEF IInv, TypeOK, Requests
<1>2. CASE req[t].op = "create"
  <2>1. /\ id[t] \in Ids /\ req[t].name \in Names /\ name[id[t]] = NoName
        /\ ~Taken(req[t].name)
    BY <1>2 DEF IInv, TypeOK, Requests, RowsExclude, CreatesExclude, Uncommitted
  <2>2. Register!Create(id[t], req[t].name)
    BY <1>2, <2>1 DEF Write, Entered, Taken, Register!Create
  <2> QED
    BY <2>1, <2>2 DEF Register!RegisterNext
<1>3. CASE req[t].op = "delete"
  <2>1. id[t] \in Ids /\ id[t] \notin booked
    BY <1>3 DEF IInv, TypeOK, RowsExclude, DeletesExclude, Uncommitted
  <2>2. Register!Delete(id[t])
    BY <1>3, <2>1 DEF Write, Entered, Register!Delete
  <2> QED
    BY <2>1, <2>2 DEF Register!RegisterNext
<1>4. CASE req[t].op = "import"
  <2>1. id[t] \in Ids /\ name[id[t]] # NoName
    BY <1>4, PortfoliosAssumption
       DEF IInv, TypeOK, Requests, RowsExclude, BookingsHold, Uncommitted
  <2>2. Register!Book(id[t])
    BY <1>4, <2>1 DEF Write, Entered, Register!Book
  <2> QED
    BY <2>1, <2>2 DEF Register!RegisterNext
<1> QED
  BY <1>1, <1>2, <1>3, <1>4

LEMMA StepIsRegistered ==
  IInv /\ [Next]_vars => [Register!RegisterNext]_(Register!registerVars)
<1> SUFFICES ASSUME IInv, [Next]_vars
             PROVE  [Register!RegisterNext]_(Register!registerVars)
  OBVIOUS
<1>1. ASSUME NEW t \in Threads, Commit(t) \/ CommitUnacknowledged(t)
      PROVE  Register!RegisterNext
  BY <1>1, CommitIsRegistered DEF Commit, CommitUnacknowledged
<1>2. ASSUME NEW t \in Threads, Step(t), ~Commit(t), ~CommitUnacknowledged(t)
      PROVE  UNCHANGED rows
  BY <1>2
     DEF Step, InsertPortfolio, InsertConflicts, SelectPortfolio, NotFound,
         CheckPositions, InUse, DeletePortfolio, DeleteRefused, Resolve,
         RejectPortfolio, BookPosition, BookingFails, End, rows
<1>3. ASSUME NEW t \in Threads, Fail(t) \/ \E r \in Requests : Receive(t, r)
      PROVE  UNCHANGED rows
  BY <1>3 DEF Fail, Receive, End, rows
<1>4. CASE UNCHANGED vars
  BY <1>4 DEF vars, Register!registerVars
<1>5. UNCHANGED rows => UNCHANGED Register!registerVars
  BY DEF rows, Register!registerVars
<1> QED
  BY <1>1, <1>2, <1>3, <1>4, <1>5 DEF Next

THEOREM RegisterRefinement == Spec => ImplementsRegister
<1>1. Init => Register!RegisterInit
  BY DEF Init, Register!RegisterInit
<1> QED
  BY <1>1, Invariance, StepIsRegistered, PTL
     DEF Spec, ImplementsRegister, Register!RegisterSpec
=============================================================================
