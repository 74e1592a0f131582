---------------------- MODULE LedgerRefinement_proofs ----------------------
(***************************************************************************)
(* What LedgerImport implements: the client's view of Journal with any     *)
(* number of threads, and the tables' view of LedgerBook, step by step     *)
(* with any number of threads and as a whole with one.                     *)
(***************************************************************************)
EXTENDS LedgerImport_proofs

-----------------------------------------------------------------------------
(* Atomicity.                                                              *)

(* LedgerBook, instantiated on the tables, speaks of the same rows and     *)
(* entries as LedgerImport.                                                *)
LEMMA BookArithmetic ==
  ASSUME NEW q, NEW a, NEW d, NEW x, NEW f
  PROVE  Book!ApplyLedgerEvent(q, a, d, x, f) = ApplyLedgerEvent(q, a, d, x, f)
<1>1. Book!ApplyIncrease(q, a, d, x, f) = ApplyIncrease(q, a, d, x, f)
  BY DEF Book!ApplyIncrease, ApplyIncrease, Book!Magnitude, Magnitude, Book!NoPrice, NoPrice,
         Book!Quantize, Quantize, Book!HalfUp, HalfUp
<1>2. Book!ApplyDecrease(q, a, d, x, f) = ApplyDecrease(q, a, d, x, f)
  BY DEF Book!ApplyDecrease, ApplyDecrease, Book!Magnitude, Magnitude, Book!NoPrice, NoPrice
<1> QED
  BY <1>1, <1>2, Zenon DEF Book!ApplyLedgerEvent, ApplyLedgerEvent

LEMMA BookStore ==
  /\ Book!PositionIds = PositionIds
  /\ Book!NewRow = NewRow
  /\ Book!ALLOWED_EVENT_TYPES = ALLOWED_EVENT_TYPES
  /\ \A r : Book!OwnPosition(r) = OwnPosition(r)
  /\ \A f, p : Book!Exists(f, p) <=> Exists(f, p)
  /\ \A f, r : Book!Matching(f, r) = Matching(f, r)
  /\ \A l, k : Book!KeyUsed(l, k) <=> KeyUsed(l, k)
  /\ \A w : Book!RowFits(w) <=> RowFits(w)
  /\ \A e : Book!EntryFits(e) <=> EntryFits(e)
<1>1. \A x : Book!Storable(x) <=> Storable(x)
  BY DEF Book!Storable, Storable
<1> QED
  BY <1>1, Zenon
  DEF Book!PositionIds, PositionIds, Book!NewRow, NewRow, Book!ALLOWED_EVENT_TYPES,
      ALLOWED_EVENT_TYPES, Book!OwnPosition, OwnPosition, Book!Exists, Exists,
      Book!Matching, Matching, Book!KeyUsed, KeyUsed, Book!RowFits, RowFits,
      Book!EntryFits, EntryFits

LEMMA BookColumns ==
  ASSUME NEW n, NEW m
  PROVE  Book!Quantize(n, m) = Quantize(n, m) /\ Book!ToColumn(n) = ToColumn(n)
BY Zenon DEF Book!Quantize, Quantize, Book!HalfUp, HalfUp, Book!ToColumn, ToColumn

LEMMA BookUpdates ==
  ASSUME NEW w, NEW r, NEW p
  PROVE  /\ Book!Updated(w, r) = Updated(w, r)
         /\ Book!LedgerEntry(r, p) = LedgerEntry(r, p)
<1>1. Book!Updated(w, r) = Updated(w, r)
  BY BookArithmetic, BookColumns, Zenon DEF Book!Updated, Updated
<1>2. Book!LedgerEntry(r, p) = LedgerEntry(r, p)
  BY BookColumns, Zenon DEF Book!LedgerEntry, LedgerEntry, Book!NoPrice, NoPrice
<1> QED
  BY <1>1, <1>2

(* A commit that is not stale is one indivisible import. *)
LEMMA FreshCommitIsBook ==
  ASSUME TypeOK, TransactionsExclude, NEW t \in Threads, Commits(t), ~Stale(t)
  PROVE  Book!Book(req[t], pos[t])
<1>1. /\ pc[t] = "commit" /\ Post(t) /\ UNCHANGED portfolios
      /\ req[t].event_type \in ALLOWED_EVENT_TYPES
      /\ ~KeyUsed(ledger, req[t].idempotency_key)
  BY CommitIsPost
<1>2. /\ req[t].portfolio \in portfolios
      /\ RowFits(Updated(row[t], req[t]))
      /\ EntryFits(LedgerEntry(req[t], pos[t]))
  BY <1>1 DEF TransactionsExclude, Progress, Statements
<1>3. IF Exists(positions, pos[t]) THEN pos[t] \in Matching(positions, req[t])
                                   ELSE pos[t] = OwnPosition(req[t]) /\ row[t] = NewRow
  BY <1>1 DEF TransactionsExclude, PositionResolved
<1>4. pos[t] \in Book!Targets(req[t]) /\ row[t] = Book!Current(pos[t])
  <2>1. CASE Exists(positions, pos[t])
    BY <2>1, <1>3, BookStore DEF Stale, Book!Targets, Book!Current
  <2>2. CASE ~Exists(positions, pos[t])
    BY <2>2, <1>3, BookStore DEF Stale, Book!Targets, Book!Current
  <2> QED
    BY <2>1, <2>2
<1> QED
  BY <1>1, <1>2, <1>4, BookStore, BookUpdates DEF Book!Book, Book!Supported, Post

LEMMA AtomicStep ==
  ASSUME TypeOK, TransactionsExclude, [Next]_vars
  PROVE  StaleCommit \/ Book!BookNext \/ UNCHANGED <<portfolios, positions, ledger>>
<1>1. ASSUME NEW t \in Threads, Commits(t)
      PROVE  StaleCommit \/ Book!BookNext
  <2>1. req[t] \in Requests /\ pos[t] \in PositionIds
    BY DEF TypeOK
  <2> QED
    BY <1>1, <2>1, FreshCommitIsBook, BookStore DEF StaleCommit, Book!BookNext
<1>2. ASSUME NEW name \in Portfolios, CreatePortfolio(name)
      PROVE  Book!BookNext
  BY <1>2 DEF CreatePortfolio, Book!BookNext, Book!Open
<1>3. \/ UNCHANGED <<portfolios, positions, ledger>>
      \/ \E name \in Portfolios : CreatePortfolio(name)
      \/ \E t \in Threads : Commits(t)
  BY DEF Next, Step, vars, tables, Receive, RejectEventType,
         ResolvePortfolio, RejectPortfolio, PassIdempotency, ReplyDuplicate, FindPosition,
         FindNoPosition, InsertPosition, InsertPositionFails, UpdatePosition,
         UpdatePositionOverflows, InsertLedger, InsertLedgerFails, Abort, End, Commits
<1> QED
  BY <1>1, <1>2, <1>3

(***************************************************************************)
(* The write path is atomic up to one hazard, named by StaleCommit: every  *)
(* other step is one indivisible import, or writes nothing.                *)
(***************************************************************************)
THEOREM Atomic == Spec => AtomicUnlessStale
<1>1. TypeOK /\ TransactionsExclude /\ [Next]_vars
        => StaleCommit \/ Book!BookNext \/ UNCHANGED <<portfolios, positions, ledger>>
  BY AtomicStep
<1> QED
  BY <1>1, TypeCorrect, Exclusion, PTL DEF Spec, AtomicUnlessStale

-----------------------------------------------------------------------------
(* Quantities and ledger sums.                                             *)

(* What a column holds exactly it does not round. *)
WholeSteps == \A r \in Requests : r.quantity_delta % Ulp = 0

LEMMA FreshCommitKeepsDrift ==
  ASSUME TypeOK, TransactionsExclude, TablesOnGrid, WholeSteps,
         NEW t \in Threads, Commits(t), ~Stale(t)
  PROVE  Drift' = Drift
<1> DEFINE d == req[t].quantity_delta
           e == LedgerEntry(req[t], pos[t])
<1>1. /\ pc[t] = "commit" /\ Post(t) /\ req[t] \in Requests
      /\ req[t] \in LedgerImportParams /\ req[t].event_type \in ALLOWED_EVENT_TYPES
      /\ pos[t] \in PositionIds /\ row[t] \in Rows
  BY CommitIsPost
<1>2. d \in Int /\ d % Ulp = 0 /\ row[t].quantity \in Int /\ row[t].quantity % Ulp = 0
  BY <1>1 DEF WholeSteps, LedgerImportParams, Rows, TablesOnGrid
<1>3. row[t].quantity = positions[pos[t]].quantity
  <2>1. CASE Exists(positions, pos[t])
    BY <2>1 DEF Stale
  <2>2. CASE ~Exists(positions, pos[t])
    <3>1. row[t] = NewRow
      BY <1>1, <2>2 DEF TransactionsExclude, PositionResolved
    <3> QED
      BY <1>1, <2>2, <3>1 DEF TablesOnGrid, NewRow
  <2> QED
    BY <2>1, <2>2
<1>4. Updated(row[t], req[t]).quantity = row[t].quantity + d
  <2>1. Updated(row[t], req[t]).quantity = ToColumn(row[t].quantity + d)
    BY <1>1, UpdatedType
  <2>2. (row[t].quantity + d) % Ulp = 0
    BY <1>2, GridSum
  <2> QED
    BY <2>1, <2>2 DEF ToColumn
<1>5. e.quantity_delta = d
  <2>1. e.quantity_delta = ToColumn(d)
    BY <1>1, LedgerEntryType
  <2> QED
    BY <1>2, <2>1 DEF ToColumn
<1> HIDE DEF d, e
<1>6. /\ positions' = [positions EXCEPT ![pos[t]] = Updated(row[t], req[t])]
      /\ ledgerSum' = [ledgerSum EXCEPT ![pos[t]] = @ + e.quantity_delta]
  BY <1>1 DEF Post, e
<1>7. ASSUME NEW p \in PositionIds
      PROVE  positions'[p].quantity - ledgerSum'[p] = positions[p].quantity - ledgerSum[p]
  <2>1. ledgerSum[p] \in Int /\ positions[p].quantity \in Int
    BY DEF TypeOK, Rows
  <2>2. CASE p = pos[t]
    <3>1. positions'[p].quantity = positions[p].quantity + d
      BY <1>3, <1>4, <1>6, <2>2 DEF TypeOK
    <3>2. ledgerSum'[p] = ledgerSum[p] + d
      BY <1>5, <1>6, <2>2 DEF TypeOK
    <3> QED
      BY <3>1, <3>2, <2>1, <1>2
  <2>3. CASE p # pos[t]
    BY <1>6, <2>3 DEF TypeOK
  <2> QED
    BY <2>2, <2>3
<1> QED
  BY <1>7 DEF Drift

LEMMA DriftStep ==
  ASSUME TypeOK, TransactionsExclude, TablesOnGrid, WholeSteps, [Next]_vars
  PROVE  Drift' = Drift \/ StaleCommit
<1>1. CASE UNCHANGED <<positions, ledgerSum>>
  BY <1>1 DEF Drift
<1>2. ASSUME NEW t \in Threads, Commits(t)
      PROVE  Drift' = Drift \/ StaleCommit
  BY <1>2, FreshCommitKeepsDrift DEF StaleCommit
<1> QED
  BY <1>1, <1>2, OnlyCommitsWrite

(***************************************************************************)
(* For quantities a column holds exactly, a position parts from its ledger *)
(* entries only in a commit over a row changed since it was read.          *)
(***************************************************************************)
THEOREM DriftNeedsLostUpdate ==
  ASSUME WholeSteps
  PROVE  Spec => DriftOnlyByLostUpdate
<1>1. TypeOK /\ TransactionsExclude /\ TablesOnGrid /\ [Next]_vars
        => Drift' = Drift \/ StaleCommit
  BY DriftStep
<1> QED
  BY <1>1, TypeCorrect, Exclusion, Grid, PTL DEF Spec, DriftOnlyByLostUpdate

-----------------------------------------------------------------------------
(* One thread.                                                             *)

OneThread == \A t, u \in Threads : t = u

(* Nobody commits between the read and the commit of an import.            *)
ReadIsCurrent ==
  \A t \in Threads :
    /\ pc[t] = "insert" => Matching(positions, req[t]) = {}
    /\ pc[t] \in {"update", "ledger", "commit"} =>
         IF Exists(positions, pos[t]) THEN row[t] = positions[pos[t]]
                                      ELSE Matching(positions, req[t]) = {}

LEMMA SerialReads ==
  ASSUME OneThread
  PROVE  Spec => []ReadIsCurrent
<1>1. Init => ReadIsCurrent
  BY DEF Init, ReadIsCurrent
<1>2. TypeOK /\ ReadIsCurrent /\ [Next]_vars => ReadIsCurrent'
  <2> SUFFICES ASSUME TypeOK, ReadIsCurrent, [Next]_vars
               PROVE  ReadIsCurrent'
    OBVIOUS
  <2>1. CASE UNCHANGED vars
    BY <2>1 DEF vars, ReadIsCurrent
  <2>2. ASSUME NEW name \in Portfolios, CreatePortfolio(name)
        PROVE  ReadIsCurrent'
    BY <2>2 DEF CreatePortfolio, locals, ReadIsCurrent
  <2>3. ASSUME NEW t \in Threads, pc'[t] \notin {"insert", "update", "ledger", "commit"}
        PROVE  ReadIsCurrent'
    BY <2>3 DEF ReadIsCurrent, OneThread
  <2>4. ASSUME NEW t \in Threads, NEW r \in Requests, Receive(t, r)
        PROVE  ReadIsCurrent'
    BY <2>3, <2>4 DEF Receive, GoTo, TypeOK
  <2>5. ASSUME NEW t \in Threads, NEW a, Answer(t, a)
        PROVE  ReadIsCurrent'
    BY <2>3, <2>5 DEF Answer, GoTo, TypeOK
  <2>6. ASSUME NEW t \in Threads, Step(t)
        PROVE  ReadIsCurrent'
    <3>1. CASE ResolvePortfolio(t) \/ PassIdempotency(t)
      BY <2>3, <3>1 DEF ResolvePortfolio, PassIdempotency, GoTo, TypeOK
    <3>2. CASE FindPosition(t)
      <4>1. PICK p \in Matching(positions, req[t]) :
              /\ pos' = [pos EXCEPT ![t] = p]
              /\ row' = [row EXCEPT ![t] = positions[p]]
        BY <3>2 DEF FindPosition
      <4>2. /\ pc'[t] = "update" /\ pos'[t] = p /\ row'[t] = positions[p]
            /\ UNCHANGED <<positions, req>>
        BY <3>2, <4>1 DEF FindPosition, GoTo, tables, TypeOK
      <4>3. Exists(positions, p)
        BY DEF Matching
      <4> QED
        BY <4>2, <4>3 DEF ReadIsCurrent, OneThread
    <3>3. CASE FindNoPosition(t)
      <4>1. /\ pc'[t] = "insert" /\ Matching(positions, req[t]) = {}
            /\ UNCHANGED <<positions, req>>
        BY <3>3 DEF FindNoPosition, GoTo, tables, TypeOK
      <4> QED
        BY <4>1 DEF ReadIsCurrent, OneThread
    <3>4. CASE InsertPosition(t)
      <4>1. /\ pc[t] = "insert" /\ pc'[t] = "update" /\ pos'[t] = OwnPosition(req[t])
            /\ ~Exists(positions, OwnPosition(req[t]))
            /\ UNCHANGED <<positions, req>>
        BY <3>4 DEF InsertPosition, GoTo, tables, TypeOK
      <4> QED
        BY <4>1 DEF ReadIsCurrent, OneThread
    <3>5. CASE UpdatePosition(t) \/ InsertLedger(t)
      <4>1. /\ pc[t] \in {"update", "ledger"} /\ pc'[t] \in {"ledger", "commit"}
            /\ UNCHANGED <<positions, req, pos, row>>
        BY <3>5 DEF UpdatePosition, InsertLedger, GoTo, tables, TypeOK
      <4> QED
        BY <4>1 DEF ReadIsCurrent, OneThread
    <3>6. CASE \/ RejectPortfolio(t) \/ ReplyDuplicate(t) \/ InsertPositionFails(t)
               \/ UpdatePositionOverflows(t) \/ InsertLedgerFails(t)
               \/ Commit(t) \/ CommitUnacknowledged(t)
      <4>1. \E a : Answer(t, a)
        BY <3>6 DEF RejectPortfolio, ReplyDuplicate, InsertPositionFails,
                    UpdatePositionOverflows, InsertLedgerFails, Commit,
                    CommitUnacknowledged, End
      <4> QED
        BY <4>1, <2>5
    <3> QED
      BY <2>6, <3>1, <3>2, <3>3, <3>4, <3>5, <3>6 DEF Step
  <2>7. ASSUME NEW t \in Threads, NEW r \in Requests, RejectEventType(t, r) \/ Abort(t)
        PROVE  ReadIsCurrent'
    BY <2>7, <2>5 DEF RejectEventType, Abort, End
  <2>8. Requests # {}
    BY RequestsAssumption
  <2> QED
    BY <2>1, <2>2, <2>4, <2>6, <2>7, <2>8 DEF Next
<1> QED
  BY <1>1, <1>2, TypeCorrect, PTL DEF Spec

LEMMA NoStaleCommit ==
  ASSUME ReadIsCurrent
  PROVE  ~StaleCommit
BY DEF ReadIsCurrent, StaleCommit, Stale, Commits, Commit, CommitUnacknowledged

(***************************************************************************)
(* A single thread implements the indivisible import of LedgerBook.        *)
(***************************************************************************)
THEOREM SerialImplementsBook ==
  ASSUME OneThread
  PROVE  Spec => ImplementsBook
<1>1. Init => Book!BookInit
  BY BookStore DEF Init, Book!BookInit, NoRow, Book!NoRow
<1>2. TypeOK /\ TransactionsExclude /\ ReadIsCurrent /\ [Next]_vars
        => [Book!BookNext]_(Book!bookVars)
  BY AtomicStep, NoStaleCommit DEF Book!bookVars
<1> QED
  BY <1>1, <1>2, TypeCorrect, Exclusion, SerialReads, PTL DEF Spec, ImplementsBook, Book!BookSpec

(***************************************************************************)
(* A single thread keeps every position equal to the sum of its entries.   *)
(***************************************************************************)
THEOREM SerialQuantities ==
  ASSUME OneThread, WholeSteps
  PROVE  Spec => []QuantityMatchesLedger
<1>1. Init => QuantityMatchesLedger
  BY DEF Init, QuantityMatchesLedger, NoRow
<1>2. /\ TypeOK /\ TransactionsExclude /\ TablesOnGrid /\ ReadIsCurrent
      /\ QuantityMatchesLedger /\ [Next]_vars
      => QuantityMatchesLedger'
  <2> SUFFICES ASSUME TypeOK, TransactionsExclude, TablesOnGrid, ReadIsCurrent,
                      QuantityMatchesLedger, [Next]_vars
               PROVE  QuantityMatchesLedger'
    OBVIOUS
  <2>1. Drift' = Drift
    BY DriftStep, NoStaleCommit
  <2>2. \A p \in PositionIds :
          positions'[p].quantity - ledgerSum'[p] = positions[p].quantity - ledgerSum[p]
    BY <2>1 DEF Drift
  <2>3. CASE UNCHANGED <<positions, ledgerSum>>
    BY <2>3 DEF QuantityMatchesLedger
  <2>4. ASSUME NEW t \in Threads, Commits(t)
        PROVE  QuantityMatchesLedger'
    <3>1. positions' \in [PositionIds -> Rows] /\ ledgerSum' \in [PositionIds -> Int]
      BY <2>4, CommitIsPost, PostType
    <3>2. \A p \in PositionIds : /\ positions'[p].quantity \in Int /\ ledgerSum'[p] \in Int
                                 /\ positions[p].quantity \in Int /\ ledgerSum[p] \in Int
      BY <3>1 DEF TypeOK, Rows
    <3> QED
      BY <3>2, <2>2 DEF QuantityMatchesLedger
  <2> QED
    BY <2>3, <2>4, OnlyCommitsWrite
<1> QED
  BY <1>1, <1>2, TypeCorrect, Exclusion, Grid, SerialReads, PTL DEF Spec

-----------------------------------------------------------------------------
(* The client's view.                                                      *)

(* Journal, instantiated, speaks of the same requests, entries and replies *)
(* as LedgerImport.                                                        *)
LEMMA JournalStore ==
  /\ Entered!PositionIds = PositionIds
  /\ Entered!Idle = Idle /\ Entered!Pending = Pending
  /\ Entered!Rejected = Rejected /\ Entered!Error = Error
  /\ \A l, k : Entered!KeyUsed(l, k) <=> KeyUsed(l, k)
  /\ \A r, p : Entered!Recorded(r, p) = Recorded(r, p)
  /\ \A r, e : Entered!Duplicate(r, e) = Duplicate(r, e)
BY Zenon
DEF Entered!PositionIds, PositionIds, Entered!Idle, Idle, Entered!Pending, Pending,
    Entered!Rejected, Rejected, Entered!Error, Error, Entered!KeyUsed, KeyUsed,
    Entered!Recorded, Recorded, Entered!Duplicate, Duplicate

LEMMA JournalEntries ==
  ASSUME NEW r, NEW p
  PROVE  Entered!LedgerEntry(r, p) = LedgerEntry(r, p)
<1>1. ASSUME NEW n
      PROVE  Entered!ToColumn(n) = ToColumn(n)
  BY Zenon DEF Entered!ToColumn, ToColumn, Entered!Quantize, Quantize, Entered!HalfUp, HalfUp
<1> QED
  BY <1>1, Zenon DEF Entered!LedgerEntry, LedgerEntry, Entered!NoPrice, NoPrice

(* Every reply to a request being served settles it. *)
LEMMA AnswerSettles ==
  ASSUME TypeOK, TransactionsExclude, NEW t \in Threads, NEW a, pc[t] # "idle", Answer(t, a)
  PROVE  Entered!Settle(t, a)
<1>1. reply[t] = Pending
  BY DEF TransactionsExclude, Progress
<1>2. AnyRequest \in Requests
  BY AnyType
<1> QED
  BY <1>1, <1>2, JournalStore DEF Answer, Entered!Settle

LEMMA CommitEnters ==
  ASSUME TypeOK, TransactionsExclude, NEW t \in Threads, Commits(t)
  PROVE  Entered!Enter(t, pos[t])
<1>1. /\ pc[t] = "commit" /\ Post(t)
      /\ ~KeyUsed(ledger, req[t].idempotency_key)
      /\ req[t] \in LedgerImportParams
  BY CommitIsPost
<1>2. Answer(t, Recorded(req[t], pos[t])) \/ Answer(t, Error)
  BY DEF Commits, Commit, CommitUnacknowledged
<1>3. \/ Entered!Settle(t, Entered!Recorded(req[t], pos[t]))
      \/ Entered!Settle(t, Entered!Error)
  BY <1>1, <1>2, AnswerSettles, JournalStore
<1>4. /\ pos[t][1] = req[t].portfolio
      /\ pos[t][2] = req[t].ticker \/ Lower[pos[t][2]] = StripLower[req[t].ticker]
  BY <1>1 DEF TransactionsExclude, PositionResolved, Matching, OwnPosition
<1>5. ledger' = Append(ledger, Entered!LedgerEntry(req[t], pos[t]))
  BY <1>1, JournalEntries DEF Post
<1> QED
  BY <1>1, <1>3, <1>4, <1>5, JournalStore DEF Entered!Enter

LEMMA JournalStep ==
  ASSUME TypeOK, TransactionsExclude, [Next]_vars
  PROVE  [Entered!JournalNext]_<<ledger, req, reply>>
<1>1. CASE UNCHANGED <<ledger, req, reply>>
  BY <1>1
<1>2. ASSUME NEW t \in Threads, NEW r \in Requests, Receive(t, r)
      PROVE  Entered!JournalNext
  <2>1. reply[t] # Pending
    BY <1>2 DEF Receive, TransactionsExclude, Progress
  <2>2. Entered!Submit(t, r)
    BY <1>2, <2>1, JournalStore DEF Receive, tables, Entered!Submit
  <2> QED
    BY <2>2 DEF Entered!JournalNext
<1>3. ASSUME NEW t \in Threads, NEW r \in Requests, RejectEventType(t, r)
      PROVE  Entered!JournalNext
  <2>1. reply[t] # Pending
    BY <1>3 DEF RejectEventType, TransactionsExclude, Progress
  <2>2. Entered!RefuseAtOnce(t)
    BY <1>3, <2>1, AnyType, JournalStore
    DEF RejectEventType, End, Answer, tables, Entered!RefuseAtOnce
  <2> QED
    BY <2>2 DEF Entered!JournalNext
<1>4. ASSUME NEW t \in Threads, pc[t] # "idle", End(t, Rejected) \/ End(t, Error)
      PROVE  Entered!JournalNext
  <2>1. Entered!Refuse(t)
    BY <1>4, AnswerSettles, JournalStore DEF End, tables, Entered!Refuse
  <2> QED
    BY <2>1 DEF Entered!JournalNext
<1>5. ASSUME NEW t \in Threads, ReplyDuplicate(t)
      PROVE  Entered!JournalNext
  <2>1. PICK i \in 1..Len(ledger) :
          /\ ledger[i].idempotency_key = req[t].idempotency_key
          /\ End(t, Duplicate(req[t], ledger[i]))
    BY <1>5 DEF ReplyDuplicate
  <2>2. Entered!AnswerDuplicate(t, i)
    BY <1>5, <2>1, AnswerSettles, JournalStore
    DEF ReplyDuplicate, End, tables, Entered!AnswerDuplicate
  <2> QED
    BY <2>2 DEF Entered!JournalNext
<1>6. ASSUME NEW t \in Threads, Commits(t)
      PROVE  Entered!JournalNext
  <2>1. pos[t] \in PositionIds
    BY DEF TypeOK
  <2> QED
    BY <1>6, <2>1, CommitEnters, JournalStore DEF Entered!JournalNext
<1>7. \/ UNCHANGED <<ledger, req, reply>>
      \/ \E t \in Threads :
           \/ \E r \in Requests : Receive(t, r) \/ RejectEventType(t, r)
           \/ pc[t] # "idle" /\ (End(t, Rejected) \/ End(t, Error))
           \/ ReplyDuplicate(t)
           \/ Commits(t)
  BY DEF Next, Step, vars, tables, locals, CreatePortfolio, ResolvePortfolio,
         RejectPortfolio, PassIdempotency, FindPosition, FindNoPosition, InsertPosition,
         InsertPositionFails, UpdatePosition, UpdatePositionOverflows, InsertLedger,
         InsertLedgerFails, Abort, Commits
<1> QED
  BY <1>1, <1>2, <1>3, <1>4, <1>5, <1>6, <1>7

(***************************************************************************)
(* With any number of threads, every import is at most one entry of an     *)
(* append-only journal of unique keys, and is answered accordingly.        *)
(***************************************************************************)
THEOREM JournalRefinement == Spec => ImplementsJournal
<1>1. Init => Entered!JournalInit
  BY AnyType, JournalStore DEF Init, Entered!JournalInit
<1>2. TypeOK /\ TransactionsExclude /\ [Next]_vars
        => [Entered!JournalNext]_(Entered!journalVars)
  BY JournalStep DEF Entered!journalVars
<1> QED
  BY <1>1, <1>2, TypeCorrect, Exclusion, PTL
  DEF Spec, ImplementsJournal, Entered!JournalSpec
=============================================================================
