------------------------ MODULE LedgerImport_proofs ------------------------
(***************************************************************************)
(* The theorems about LedgerImport, for every set of threads, requests,    *)
(* spellings and keys and every decimal scale.                             *)
(***************************************************************************)
EXTENDS LedgerProperties, Accounting_proofs

-----------------------------------------------------------------------------
(* What an import writes has the types of the tables.                      *)

LEMMA UpdatedType ==
  ASSUME NEW old \in Rows, NEW r \in LedgerImportParams
  PROVE  /\ Updated(old, r) \in Rows
         /\ Updated(old, r).status # "none"
         /\ Updated(old, r).quantity = ToColumn(old.quantity + r.quantity_delta)
<1> DEFINE u == ApplyLedgerEvent(old.quantity, old.average_cost,
                                 r.quantity_delta, r.price, r.fees)
<1>1. /\ old.quantity \in Int /\ old.average_cost \in Int /\ old.realized_pnl \in Int
      /\ r.quantity_delta \in Int /\ r.price \in Nat \cup {NoPrice} /\ r.fees \in Nat
  BY DEF Rows, LedgerImportParams
<1>2. /\ u.new_quantity = old.quantity + r.quantity_delta
      /\ u.new_average_cost \in Int
      /\ u.realized_pnl_delta \in Int
  BY <1>1, ApplyType
<1> HIDE DEF u
<1>3. ToColumn(u.new_quantity) \in Int
  BY <1>1, <1>2, ToColumnInt
<1>4. old.realized_pnl * One + u.realized_pnl_delta \in Int
  BY <1>1, <1>2, ScaleAssumption
<1>5. Quantize(old.realized_pnl * One + u.realized_pnl_delta, One) \in Int
  BY <1>4, QuantizeInt, ScaleAssumption
<1>6. Updated(old, r) =
        [ quantity     |-> ToColumn(u.new_quantity),
          average_cost |-> u.new_average_cost,
          realized_pnl |-> Quantize(old.realized_pnl * One + u.realized_pnl_delta, One),
          status       |-> IF u.new_quantity # 0 THEN "open" ELSE "closed" ]
  BY DEF Updated, u
<1> QED
  BY <1>2, <1>3, <1>5, <1>6 DEF Rows

LEMMA LedgerEntryType ==
  ASSUME NEW r \in LedgerImportParams, r.event_type \in ALLOWED_EVENT_TYPES,
         NEW p \in PositionIds
  PROVE  /\ LedgerEntry(r, p) \in Entries
         /\ LedgerEntry(r, p).idempotency_key = r.idempotency_key
         /\ LedgerEntry(r, p).position_id = p
         /\ LedgerEntry(r, p).submitted_ticker = r.ticker
         /\ LedgerEntry(r, p).quantity_delta = ToColumn(r.quantity_delta)
<1>1. /\ ToColumn(r.quantity_delta) \in Int
      /\ ToColumn(r.fees) \in Int
      /\ r.price # NoPrice => ToColumn(r.price) \in Int
  BY ToColumnInt DEF LedgerImportParams, NoPrice
<1> QED
  BY <1>1 DEF LedgerEntry, Entries, LedgerImportParams, NoPrice

-----------------------------------------------------------------------------
(* Types.                                                                  *)

LEMMA AnyType == AnyRequest \in Requests /\ AnyPosition \in PositionIds
<1>1. AnyRequest \in Requests
  BY RequestsAssumption DEF AnyRequest
<1> QED
  BY <1>1, RequestsAssumption DEF AnyPosition, OwnPosition, PositionIds, LedgerImportParams

LEMMA RowConstantsType == NoRow \in Rows /\ NewRow \in Rows
BY DEF NoRow, NewRow, Rows

LEMMA PlainRepliesType ==
  {Idle, Pending, Rejected, Error} \subseteq Replies
BY DEF Idle, Pending, Rejected, Error, Replies

LEMMA RecordedType ==
  ASSUME NEW r \in Requests, NEW p \in PositionIds
  PROVE  Recorded(r, p) \in Replies /\ Recorded(r, p) # Pending
<1>1. r \in LedgerImportParams
  BY RequestsAssumption
<1>2. Recorded(r, p).status = "recorded" /\ Pending.status = "pending"
  BY DEF Recorded, Pending
<1> QED
  BY <1>1, <1>2 DEF Recorded, Replies, LedgerImportParams

LEMMA DuplicateType ==
  ASSUME NEW r \in Requests, NEW e \in Entries
  PROVE  Duplicate(r, e) \in Replies /\ Duplicate(r, e) # Pending
<1>1. r \in LedgerImportParams
  BY RequestsAssumption
<1>2. Duplicate(r, e).status = "duplicate" /\ Pending.status = "pending"
  BY DEF Duplicate, Pending
<1> QED
  BY <1>1, <1>2 DEF Duplicate, Replies, LedgerImportParams, Entries

(* Ending a transaction keeps the types of the locals. *)
LEMMA AnswerType ==
  ASSUME TypeOK, NEW t \in Threads, NEW a \in Replies, Answer(t, a)
  PROVE  /\ pc' \in [Threads -> Statements]
         /\ req' \in [Threads -> Requests]
         /\ pos' \in [Threads -> PositionIds]
         /\ row' \in [Threads -> Rows]
         /\ reply' \in [Threads -> Replies]
BY AnyType, RowConstantsType DEF TypeOK, Answer, GoTo, Statements

LEMMA EndType ==
  ASSUME TypeOK, NEW t \in Threads, NEW a \in Replies, End(t, a)
  PROVE  TypeOK'
BY AnswerType DEF End, TypeOK, tables

LEMMA PostType ==
  ASSUME TypeOK, NEW t \in Threads, req[t].event_type \in ALLOWED_EVENT_TYPES, Post(t)
  PROVE  /\ positions' \in [PositionIds -> Rows]
         /\ ledger' \in Seq(Entries)
         /\ ledgerSum' \in [PositionIds -> Int]
<1> DEFINE e == LedgerEntry(req[t], pos[t])
<1>1. req[t] \in LedgerImportParams /\ pos[t] \in PositionIds /\ row[t] \in Rows
  BY RequestsAssumption DEF TypeOK
<1>2. Updated(row[t], req[t]) \in Rows
  BY <1>1, UpdatedType
<1>3. e \in Entries
  BY <1>1, LedgerEntryType
<1>4. e.quantity_delta \in Int
  BY <1>3 DEF Entries
<1>5. /\ positions' = [positions EXCEPT ![pos[t]] = Updated(row[t], req[t])]
      /\ ledger' = Append(ledger, e)
      /\ ledgerSum' = [ledgerSum EXCEPT ![pos[t]] = @ + e.quantity_delta]
  BY DEF Post
<1> QED
  BY <1>1, <1>2, <1>3, <1>4, <1>5 DEF TypeOK

(* Requests being served have a supported event type. *)
EventTypesOK == \A t \in Threads : pc[t] # "idle" => req[t].event_type \in ALLOWED_EVENT_TYPES

LEMMA Typing == Spec => [](TypeOK /\ EventTypesOK)
<1>1. Init => TypeOK /\ EventTypesOK
  BY AnyType, RowConstantsType, PlainRepliesType
  DEF Init, TypeOK, EventTypesOK, Statements
<1>2. TypeOK /\ EventTypesOK /\ [Next]_vars => (TypeOK /\ EventTypesOK)'
  <2> SUFFICES ASSUME TypeOK, EventTypesOK, [Next]_vars
               PROVE  TypeOK' /\ EventTypesOK'
    OBVIOUS
  <2>1. CASE UNCHANGED vars
    BY <2>1 DEF TypeOK, EventTypesOK, vars
  <2>2. ASSUME NEW name \in Portfolios, CreatePortfolio(name)
        PROVE  TypeOK' /\ EventTypesOK'
    BY <2>2 DEF CreatePortfolio, locals, TypeOK, EventTypesOK
  <2>3. ASSUME NEW t \in Threads, NEW r \in Requests, Receive(t, r)
        PROVE  TypeOK' /\ EventTypesOK'
    BY <2>3, PlainRepliesType DEF Receive, Supported, GoTo, tables, TypeOK, EventTypesOK, Statements
  <2>4. ASSUME NEW t \in Threads, NEW a \in Replies, End(t, a)
        PROVE  TypeOK' /\ EventTypesOK'
    <3>1. EventTypesOK'
      BY <2>4 DEF End, Answer, GoTo, TypeOK, EventTypesOK
    <3> QED
      BY <2>4, <3>1, EndType
  <2>5. ASSUME NEW t \in Threads, NEW s \in Statements, pc[t] # "idle",
               GoTo(t, s), UNCHANGED <<tables, req, reply>>,
               pos' \in [Threads -> PositionIds], row' \in [Threads -> Rows]
        PROVE  TypeOK' /\ EventTypesOK'
    BY <2>5 DEF GoTo, tables, TypeOK, EventTypesOK
  <2>6. ASSUME NEW t \in Threads, NEW a \in Replies, pc[t] # "idle",
               Post(t), Answer(t, a), UNCHANGED portfolios
        PROVE  TypeOK' /\ EventTypesOK'
    <3>1. EventTypesOK'
      BY <2>6 DEF Answer, GoTo, TypeOK, EventTypesOK
    <3> QED
      BY <2>6, <3>1, PostType, AnswerType DEF TypeOK, EventTypesOK
  <2>7. ASSUME NEW t \in Threads, Step(t)
        PROVE  TypeOK' /\ EventTypesOK'
    <3>1. req[t] \in Requests /\ pos[t] \in PositionIds /\ row[t] \in Rows
      BY DEF TypeOK
    <3>2. Recorded(req[t], pos[t]) \in Replies
      BY <3>1, RecordedType
    <3>3. CASE ResolvePortfolio(t)
      BY <3>3, <2>5 DEF ResolvePortfolio, TypeOK, Statements
    <3>4. CASE RejectPortfolio(t)
      BY <3>4, <2>4, PlainRepliesType DEF RejectPortfolio
    <3>5. CASE PassIdempotency(t)
      BY <3>5, <2>5 DEF PassIdempotency, TypeOK, Statements
    <3>6. CASE ReplyDuplicate(t)
      <4>1. PICK i \in 1..Len(ledger) : End(t, Duplicate(req[t], ledger[i]))
        BY <3>6 DEF ReplyDuplicate
      <4>2. Duplicate(req[t], ledger[i]) \in Replies
        BY <3>1, DuplicateType DEF TypeOK
      <4> QED
        BY <4>1, <4>2, <2>4
    <3>7. CASE FindPosition(t)
      <4>1. PICK p \in Matching(positions, req[t]) :
              /\ pos' = [pos EXCEPT ![t] = p]
              /\ row' = [row EXCEPT ![t] = positions[p]]
        BY <3>7 DEF FindPosition
      <4>2. p \in PositionIds
        BY DEF Matching
      <4>3. pos' \in [Threads -> PositionIds] /\ row' \in [Threads -> Rows]
        BY <4>1, <4>2 DEF TypeOK
      <4> QED
        BY <3>7, <4>3, <2>5 DEF FindPosition, Statements
    <3>8. CASE FindNoPosition(t)
      BY <3>8, <2>5 DEF FindNoPosition, TypeOK, Statements
    <3>9. CASE InsertPosition(t)
      <4>1. OwnPosition(req[t]) \in PositionIds
        BY <3>1, RequestsAssumption DEF OwnPosition, PositionIds, LedgerImportParams
      <4>2. pos' \in [Threads -> PositionIds] /\ row' \in [Threads -> Rows]
        BY <3>9, <4>1, RowConstantsType DEF InsertPosition, TypeOK
      <4> QED
        BY <3>9, <4>2, <2>5 DEF InsertPosition, Statements
    <3>10. CASE InsertPositionFails(t)
      BY <3>10, <2>4, PlainRepliesType DEF InsertPositionFails
    <3>11. CASE UpdatePosition(t)
      BY <3>11, <2>5 DEF UpdatePosition, TypeOK, Statements
    <3>12. CASE UpdatePositionOverflows(t)
      BY <3>12, <2>4, PlainRepliesType DEF UpdatePositionOverflows
    <3>13. CASE InsertLedger(t)
      BY <3>13, <2>5 DEF InsertLedger, TypeOK, Statements
    <3>14. CASE InsertLedgerFails(t)
      BY <3>14, <2>4, PlainRepliesType DEF InsertLedgerFails
    <3>15. CASE Commit(t)
      BY <3>15, <3>2, <2>6 DEF Commit
    <3>16. CASE CommitUnacknowledged(t)
      BY <3>16, <2>6, PlainRepliesType DEF CommitUnacknowledged
    <3> QED
      BY <2>7, <3>3, <3>4, <3>5, <3>6, <3>7, <3>8, <3>9, <3>10, <3>11, <3>12,
         <3>13, <3>14, <3>15, <3>16 DEF Step
  <2>8. ASSUME NEW t \in Threads, NEW r \in Requests, RejectEventType(t, r)
        PROVE  TypeOK' /\ EventTypesOK'
    BY <2>8, <2>4, PlainRepliesType DEF RejectEventType
  <2>9. ASSUME NEW t \in Threads, Abort(t)
        PROVE  TypeOK' /\ EventTypesOK'
    BY <2>9, <2>4, PlainRepliesType DEF Abort
  <2> QED
    BY <2>1, <2>2, <2>3, <2>7, <2>8, <2>9 DEF Next
<1> QED
  BY <1>1, <1>2, PTL DEF Spec

(***************************************************************************)
(* Every variable keeps its type: no statement of the import writes a row, *)
(* an entry or a reply of another shape.                                   *)
(***************************************************************************)
THEOREM TypeCorrect == Spec => []TypeOK
BY Typing, PTL

-----------------------------------------------------------------------------
(* What a commit does to the tables.                                       *)

LEMMA PostEffect ==
  ASSUME TypeOK, NEW t \in Threads, req[t].event_type \in ALLOWED_EVENT_TYPES, Post(t)
  PROVE  /\ \A q \in PositionIds :
              Exists(positions', q) <=> Exists(positions, q) \/ q = pos[t]
         /\ \A k \in Keys :
              KeyUsed(ledger', k) <=> KeyUsed(ledger, k) \/ k = req[t].idempotency_key
         /\ Len(ledger') = Len(ledger) + 1
         /\ \A i \in 1..Len(ledger) : ledger'[i] = ledger[i]
         /\ ledger'[Len(ledger) + 1] = LedgerEntry(req[t], pos[t])
<1> DEFINE e == LedgerEntry(req[t], pos[t])
<1>1. req[t] \in LedgerImportParams /\ pos[t] \in PositionIds /\ row[t] \in Rows
  BY RequestsAssumption DEF TypeOK
<1>2. e \in Entries /\ e.idempotency_key = req[t].idempotency_key
  BY <1>1, LedgerEntryType
<1>3. ledger' = Append(ledger, e) /\ ledger \in Seq(Entries)
  BY DEF Post, TypeOK
<1> HIDE DEF e
<1>4. /\ Len(ledger') = Len(ledger) + 1
      /\ \A i \in 1..Len(ledger) : ledger'[i] = ledger[i]
      /\ ledger'[Len(ledger) + 1] = e
  BY <1>2, <1>3
<1>5. ASSUME NEW k \in Keys
      PROVE  KeyUsed(ledger', k) <=> KeyUsed(ledger, k) \/ k = req[t].idempotency_key
  <2>1. Len(ledger) \in Nat
    BY <1>3
  <2>2. ASSUME KeyUsed(ledger', k), k # req[t].idempotency_key
        PROVE  KeyUsed(ledger, k)
    <3>1. PICK i \in 1..Len(ledger') : ledger'[i].idempotency_key = k
      BY <2>2 DEF KeyUsed
    <3>2. i \in 1..Len(ledger)
      BY <3>1, <2>1, <2>2, <1>2, <1>4
    <3> QED
      BY <3>1, <3>2, <1>4 DEF KeyUsed
  <2>3. ASSUME KeyUsed(ledger, k)
        PROVE  KeyUsed(ledger', k)
    BY <2>1, <2>3, <1>4 DEF KeyUsed
  <2>4. KeyUsed(ledger', req[t].idempotency_key)
    BY <2>1, <1>2, <1>4 DEF KeyUsed
  <2> QED
    BY <2>2, <2>3, <2>4
<1>6. ASSUME NEW q \in PositionIds
      PROVE  Exists(positions', q) <=> Exists(positions, q) \/ q = pos[t]
  <2>1. Updated(row[t], req[t]).status # "none"
    BY <1>1, UpdatedType
  <2> QED
    BY <1>1, <2>1 DEF Post, Exists, TypeOK
<1> QED
  BY <1>4, <1>5, <1>6 DEF e

-----------------------------------------------------------------------------
(* The transactions exclude one another.                                   *)

(* A thread that ends with nothing written disturbs nobody. *)
LEMMA EndExcludes ==
  ASSUME TypeOK, TransactionsExclude, NEW t \in Threads, NEW a \in Replies,
         a # Pending, End(t, a)
  PROVE  TransactionsExclude'
<1>1. /\ pc' = [pc EXCEPT ![t] = "idle"]
      /\ reply' = [reply EXCEPT ![t] = a]
      /\ \A u \in Others(t) : /\ req'[u] = req[u] /\ pos'[u] = pos[u]
                              /\ row'[u] = row[u] /\ reply'[u] = reply[u]
                              /\ pc'[u] = pc[u]
      /\ UNCHANGED <<portfolios, positions, ledger>>
      /\ pc'[t] = "idle" /\ reply'[t] = a
  BY DEF End, Answer, GoTo, Others, tables, TypeOK
<1>2. RowLocksExclude'
  BY <1>1 DEF TransactionsExclude, RowLocksExclude, Others
<1>3. InsertsExclude'
  BY <1>1 DEF TransactionsExclude, InsertsExclude, InsertsPosition, Others
<1>4. KeysExclude'
  BY <1>1 DEF TransactionsExclude, KeysExclude, HoldsKey, Others
<1>5. PositionResolved'
  BY <1>1 DEF TransactionsExclude, PositionResolved, Others
<1>6. Progress'
  BY <1>1 DEF TransactionsExclude, Progress, Others, Statements
<1> QED
  BY <1>2, <1>3, <1>4, <1>5, <1>6 DEF TransactionsExclude

(* A thread that commits does not, because of what it excluded before. *)
LEMMA PostExcludes ==
  ASSUME TypeOK, TransactionsExclude, NEW t \in Threads, NEW a \in Replies,
         a # Pending, pc[t] = "commit", Post(t), Answer(t, a), UNCHANGED portfolios
  PROVE  TransactionsExclude'
<1>1. /\ \A u \in Others(t) : /\ req'[u] = req[u] /\ pos'[u] = pos[u]
                              /\ row'[u] = row[u] /\ reply'[u] = reply[u]
                              /\ pc'[u] = pc[u]
      /\ pc'[t] = "idle" /\ reply'[t] = a
      /\ UNCHANGED portfolios
  BY DEF Answer, GoTo, Others, TypeOK
<1>2. req[t].event_type \in ALLOWED_EVENT_TYPES
  BY DEF TransactionsExclude, Progress
<1>3. \A q \in PositionIds :
        Exists(positions', q) <=> Exists(positions, q) \/ q = pos[t]
  BY <1>2, PostEffect
<1>4. \A u \in Threads : pos[u] \in PositionIds /\ req[u].idempotency_key \in Keys
  BY RequestsAssumption DEF TypeOK, LedgerImportParams
<1>5. RowLocksExclude'
  BY <1>1 DEF TransactionsExclude, RowLocksExclude, Others
<1>6. InsertsExclude'
  <2> SUFFICES ASSUME NEW u \in Threads, NEW v \in Threads, NEW p \in PositionIds,
                      InsertsPosition(u, p)', InsertsPosition(v, p)'
               PROVE  u = v
    BY DEF InsertsExclude
  <2>1. u \in Others(t) /\ v \in Others(t)
    BY <1>1 DEF InsertsPosition, Others
  <2>2. InsertsPosition(u, p) /\ InsertsPosition(v, p)
    BY <2>1, <1>1, <1>3 DEF InsertsPosition
  <2> QED
    BY <2>2 DEF TransactionsExclude, InsertsExclude
<1>7. KeysExclude'
  <2> SUFFICES ASSUME NEW u \in Threads, pc'[u] = "commit"
               PROVE  /\ ~KeyUsed(ledger', req'[u].idempotency_key)
                      /\ \A v \in Others(u) : ~HoldsKey(v, req[u].idempotency_key)'
    BY DEF KeysExclude
  <2>1. u \in Others(t) /\ pc[u] = "commit" /\ req'[u] = req[u]
    BY <1>1 DEF Others
  <2>2. req[u].idempotency_key # req[t].idempotency_key
    BY <2>1 DEF TransactionsExclude, KeysExclude, HoldsKey, Others
  <2>3. ~KeyUsed(ledger', req[u].idempotency_key)
    BY <2>1, <2>2, <1>2, <1>4, PostEffect DEF TransactionsExclude, KeysExclude
  <2>4. \A v \in Others(u) : ~HoldsKey(v, req[u].idempotency_key)'
    BY <2>1, <1>1 DEF TransactionsExclude, KeysExclude, HoldsKey, Others
  <2> QED
    BY <2>1, <2>3, <2>4
<1>8. PositionResolved'
  <2> SUFFICES ASSUME NEW u \in Threads, pc'[u] \in {"update", "ledger", "commit"}
               PROVE  IF Exists(positions', pos'[u])
                        THEN pos'[u] \in Matching(positions', req'[u])
                        ELSE pos'[u] = OwnPosition(req'[u]) /\ row'[u] = NewRow
    BY DEF PositionResolved
  <2>1. /\ u \in Others(t) /\ pc[u] \in {"update", "ledger", "commit"}
        /\ req'[u] = req[u] /\ pos'[u] = pos[u] /\ row'[u] = row[u]
    BY <1>1 DEF Others
  <2>2. CASE Exists(positions, pos[u])
    <3>1. pos[u] \in Matching(positions, req[u])
      BY <2>1, <2>2 DEF TransactionsExclude, PositionResolved
    <3> QED
      BY <2>1, <3>1, <1>3 DEF Matching
  <2>3. CASE ~Exists(positions, pos[u])
    <3>1. pos[u] = OwnPosition(req[u]) /\ row[u] = NewRow
      BY <2>1, <2>3 DEF TransactionsExclude, PositionResolved
    <3>2. pos[u] # pos[t]
      BY <2>1, <2>3, <1>4
      DEF TransactionsExclude, InsertsExclude, InsertsPosition, Others
    <3> QED
      BY <2>1, <2>3, <3>1, <3>2, <1>3, <1>4
  <2> QED
    BY <2>2, <2>3
<1>9. Progress'
  BY <1>1 DEF TransactionsExclude, Progress, Others, Statements
<1> QED
  BY <1>5, <1>6, <1>7, <1>8, <1>9 DEF TransactionsExclude

(* A thread that moves on to its next statement. *)
LEMMA StepExcludes ==
  ASSUME TypeOK, TransactionsExclude, NEW t \in Threads, Step(t)
  PROVE  TransactionsExclude'
<1> USE DEF TransactionsExclude
<1>1. /\ req[t] \in Requests /\ pos[t] \in PositionIds
      /\ req[t] \in LedgerImportParams /\ OwnPosition(req[t]) \in PositionIds
  BY RequestsAssumption DEF TypeOK, OwnPosition, PositionIds, LedgerImportParams
<1>2. {Rejected, Error} \subseteq Replies \ {Pending}
  BY PlainRepliesType DEF Rejected, Error, Pending
<1>3. ASSUME NEW s \in Statements \ {"idle"}, GoTo(t, s), pc[t] # "idle"
      PROVE  /\ \A u \in Others(t) : pc'[u] = pc[u]
             /\ pc'[t] = s
  BY <1>3 DEF GoTo, Others, TypeOK
<1>4. CASE ResolvePortfolio(t)
  <2>1. /\ \A u \in Others(t) : pc'[u] = pc[u]
        /\ pc'[t] = "idempotency" /\ pc[t] = "portfolio"
        /\ req[t].portfolio \in portfolios
        /\ UNCHANGED <<portfolios, positions, ledger, req, pos, row, reply>>
    BY <1>3, <1>4 DEF ResolvePortfolio, tables, Statements
  <2>2. RowLocksExclude' /\ InsertsExclude' /\ KeysExclude' /\ PositionResolved'
    BY <2>1 DEF RowLocksExclude, InsertsExclude, InsertsPosition, KeysExclude, HoldsKey,
                PositionResolved, Others
  <2>3. Progress'
    BY <2>1 DEF Progress, Others, Statements
  <2> QED
    BY <2>2, <2>3
<1>5. CASE PassIdempotency(t) \/ FindNoPosition(t)
  <2>1. /\ \A u \in Others(t) : pc'[u] = pc[u]
        /\ pc'[t] \in {"find", "insert"} /\ pc[t] \in {"idempotency", "find"}
        /\ UNCHANGED <<portfolios, positions, ledger, req, pos, row, reply>>
    BY <1>3, <1>5 DEF PassIdempotency, FindNoPosition, tables, Statements
  <2>2. RowLocksExclude' /\ InsertsExclude' /\ KeysExclude' /\ PositionResolved'
    BY <2>1 DEF RowLocksExclude, InsertsExclude, InsertsPosition, KeysExclude, HoldsKey,
                PositionResolved, Others
  <2>3. Progress'
    BY <2>1 DEF Progress, Others, Statements
  <2> QED
    BY <2>2, <2>3
<1>6. CASE FindPosition(t)
  <2>1. PICK p \in Matching(positions, req[t]) : pos' = [pos EXCEPT ![t] = p]
    BY <1>6 DEF FindPosition
  <2>2. /\ \A u \in Others(t) : pc'[u] = pc[u] /\ pos'[u] = pos[u] /\ row'[u] = row[u]
        /\ pc'[t] = "update" /\ pc[t] = "find" /\ pos'[t] = p
        /\ UNCHANGED <<portfolios, positions, ledger, req, reply>>
    BY <1>3, <1>6, <2>1 DEF FindPosition, tables, Statements, Others, TypeOK
  <2>3. Exists(positions, p)
    BY DEF Matching
  <2>4. RowLocksExclude' /\ KeysExclude'
    BY <2>2 DEF RowLocksExclude, KeysExclude, HoldsKey, Others
  <2>5. InsertsExclude' /\ PositionResolved'
    BY <2>2, <2>3 DEF InsertsExclude, InsertsPosition, PositionResolved, Others
  <2>6. Progress'
    BY <2>2 DEF Progress, Others, Statements
  <2> QED
    BY <2>4, <2>5, <2>6
<1>7. CASE InsertPosition(t)
  <2>1. /\ \A u \in Others(t) : pc'[u] = pc[u] /\ pos'[u] = pos[u] /\ row'[u] = row[u]
        /\ pc'[t] = "update" /\ pc[t] = "insert"
        /\ pos'[t] = OwnPosition(req[t]) /\ row'[t] = NewRow
        /\ UNCHANGED <<portfolios, positions, ledger, req, reply>>
        /\ \A u \in Others(t) : ~InsertsPosition(u, OwnPosition(req[t]))
        /\ ~Exists(positions, OwnPosition(req[t]))
    BY <1>3, <1>7 DEF InsertPosition, CanInsertPosition, tables, Statements, Others, TypeOK
  <2>2. RowLocksExclude' /\ KeysExclude'
    BY <2>1 DEF RowLocksExclude, KeysExclude, HoldsKey, Others
  <2>3. InsertsExclude'
    BY <2>1 DEF InsertsExclude, InsertsPosition, Others
  <2>4. PositionResolved'
    BY <2>1 DEF PositionResolved, Others
  <2>5. Progress'
    BY <2>1 DEF Progress, Others, Statements
  <2> QED
    BY <2>2, <2>3, <2>4, <2>5
<1>8. CASE UpdatePosition(t)
  <2>1. /\ \A u \in Others(t) : pc'[u] = pc[u]
        /\ pc'[t] = "ledger" /\ pc[t] = "update"
        /\ UNCHANGED <<portfolios, positions, ledger, req, pos, row, reply>>
        /\ \A u \in Others(t) : ~LocksRow(u, pos[t])
        /\ RowFits(Updated(row[t], req[t]))
    BY <1>3, <1>8 DEF UpdatePosition, CanUpdatePosition, tables, Statements
  <2>2. RowLocksExclude'
    BY <2>1 DEF RowLocksExclude, LocksRow, Others
  <2>3. InsertsExclude' /\ KeysExclude' /\ PositionResolved'
    BY <2>1 DEF InsertsExclude, InsertsPosition, KeysExclude, HoldsKey, PositionResolved, Others
  <2>4. Progress'
    BY <2>1 DEF Progress, Others, Statements
  <2> QED
    BY <2>2, <2>3, <2>4
<1>9. CASE InsertLedger(t)
  <2>1. /\ \A u \in Others(t) : pc'[u] = pc[u]
        /\ pc'[t] = "commit" /\ pc[t] = "ledger"
        /\ UNCHANGED <<portfolios, positions, ledger, req, pos, row, reply>>
        /\ \A u \in Others(t) : ~HoldsKey(u, req[t].idempotency_key)
        /\ ~KeyUsed(ledger, req[t].idempotency_key)
        /\ EntryFits(LedgerEntry(req[t], pos[t]))
    BY <1>3, <1>9 DEF InsertLedger, CanInsertLedger, tables, Statements
  <2>2. RowLocksExclude' /\ InsertsExclude' /\ PositionResolved'
    BY <2>1 DEF RowLocksExclude, InsertsExclude, InsertsPosition, PositionResolved, Others
  <2>3. KeysExclude'
    BY <2>1 DEF KeysExclude, HoldsKey, Others
  <2>4. Progress'
    BY <2>1 DEF Progress, Others, Statements
  <2> QED
    BY <2>2, <2>3, <2>4
<1>10. CASE \/ RejectPortfolio(t) \/ InsertPositionFails(t)
            \/ UpdatePositionOverflows(t) \/ InsertLedgerFails(t)
  <2>1. End(t, Rejected) \/ End(t, Error)
    BY <1>10 DEF RejectPortfolio, InsertPositionFails, UpdatePositionOverflows,
                 InsertLedgerFails
  <2> QED
    BY <2>1, <1>2, EndExcludes
<1>11. CASE ReplyDuplicate(t)
  <2>1. PICK i \in 1..Len(ledger) : End(t, Duplicate(req[t], ledger[i]))
    BY <1>11 DEF ReplyDuplicate
  <2>2. /\ Duplicate(req[t], ledger[i]) \in Replies
        /\ Duplicate(req[t], ledger[i]) # Pending
    BY <1>1, DuplicateType DEF TypeOK
  <2> QED
    BY <2>1, <2>2, EndExcludes
<1>12. CASE Commit(t) \/ CommitUnacknowledged(t)
  <2>1. Recorded(req[t], pos[t]) \in Replies \ {Pending}
    BY <1>1, RecordedType
  <2>2. PICK a \in Replies \ {Pending} : Answer(t, a)
    BY <1>12, <2>1, <1>2 DEF Commit, CommitUnacknowledged
  <2>3. pc[t] = "commit" /\ Post(t) /\ UNCHANGED portfolios
    BY <1>12 DEF Commit, CommitUnacknowledged
  <2> QED
    BY <2>2, <2>3, PostExcludes
<1> QED
  BY <1>4, <1>5, <1>6, <1>7, <1>8, <1>9, <1>10, <1>11, <1>12 DEF Step

(***************************************************************************)
(* Whatever the threads do, no two transactions hold the same row, new     *)
(* position or key, and each works on a position of its request's symbol.  *)
(***************************************************************************)
THEOREM Exclusion == Spec => []TransactionsExclude
<1>1. Init => TransactionsExclude
  BY DEF Init, TransactionsExclude, RowLocksExclude, InsertsExclude, InsertsPosition,
         KeysExclude, PositionResolved, Progress, Idle, Pending
<1>2. TypeOK /\ TransactionsExclude /\ [Next]_vars => TransactionsExclude'
  <2> SUFFICES ASSUME TypeOK, TransactionsExclude, [Next]_vars
               PROVE  TransactionsExclude'
    OBVIOUS
  <2>1. CASE UNCHANGED vars
    BY <2>1 DEF vars, TransactionsExclude, RowLocksExclude, InsertsExclude, InsertsPosition,
                KeysExclude, HoldsKey, PositionResolved, Progress
  <2>2. ASSUME NEW name \in Portfolios, CreatePortfolio(name)
        PROVE  TransactionsExclude'
    BY <2>2 DEF CreatePortfolio, locals, TransactionsExclude, RowLocksExclude,
                InsertsExclude, InsertsPosition, KeysExclude, HoldsKey,
                PositionResolved, Progress
  <2>3. ASSUME NEW t \in Threads, NEW r \in Requests, Receive(t, r)
        PROVE  TransactionsExclude'
    <3>1. /\ \A u \in Others(t) : /\ pc'[u] = pc[u] /\ req'[u] = req[u]
                                  /\ reply'[u] = reply[u]
          /\ pc'[t] = "portfolio" /\ req'[t] = r /\ reply'[t] = Pending
          /\ r.event_type \in ALLOWED_EVENT_TYPES
          /\ UNCHANGED <<portfolios, positions, ledger, pos, row>>
      BY <2>3 DEF Receive, Supported, GoTo, tables, Others, TypeOK
    <3>2. RowLocksExclude' /\ InsertsExclude' /\ PositionResolved'
      BY <3>1 DEF TransactionsExclude, RowLocksExclude, InsertsExclude, InsertsPosition,
                  PositionResolved, Others
    <3>3. KeysExclude'
      BY <3>1 DEF TransactionsExclude, KeysExclude, HoldsKey, Others
    <3>4. Progress'
      BY <3>1 DEF TransactionsExclude, Progress, Others, Statements
    <3> QED
      BY <3>2, <3>3, <3>4 DEF TransactionsExclude
  <2>4. ASSUME NEW t \in Threads, NEW r \in Requests, RejectEventType(t, r) \/ Abort(t)
        PROVE  TransactionsExclude'
    <3>1. End(t, Rejected) \/ End(t, Error)
      BY <2>4 DEF RejectEventType, Abort
    <3>2. {Rejected, Error} \subseteq Replies \ {Pending}
      BY PlainRepliesType DEF Rejected, Error, Pending
    <3> QED
      BY <3>1, <3>2, EndExcludes
  <2>5. Requests # {}
    BY RequestsAssumption
  <2> QED
    BY <2>1, <2>2, <2>3, <2>4, <2>5, StepExcludes DEF Next
<1> QED
  BY <1>1, <1>2, TypeCorrect, PTL DEF Spec

-----------------------------------------------------------------------------
(* The effects of a step.                                                  *)

LEMMA OnlyCommitsWrite ==
  ASSUME TypeOK, [Next]_vars
  PROVE  \/ UNCHANGED <<positions, ledger, ledgerSum>>
         \/ \E t \in Threads : Commits(t)
BY DEF Next, Step, vars, tables, CreatePortfolio, Receive, RejectEventType,
       ResolvePortfolio, RejectPortfolio, PassIdempotency, ReplyDuplicate, FindPosition,
       FindNoPosition, InsertPosition, InsertPositionFails, UpdatePosition,
       UpdatePositionOverflows, InsertLedger, InsertLedgerFails, Abort, End, Commits

LEMMA CommitIsPost ==
  ASSUME TypeOK, TransactionsExclude, NEW t \in Threads, Commits(t)
  PROVE  /\ pc[t] = "commit" /\ Post(t) /\ UNCHANGED portfolios
         /\ req[t].event_type \in ALLOWED_EVENT_TYPES
         /\ req[t] \in Requests /\ req[t] \in LedgerImportParams
         /\ pos[t] \in PositionIds /\ row[t] \in Rows
         /\ ~KeyUsed(ledger, req[t].idempotency_key)
         /\ LedgerEntry(req[t], pos[t]) \in Entries
         /\ LedgerEntry(req[t], pos[t]).idempotency_key = req[t].idempotency_key
<1>1. pc[t] = "commit" /\ Post(t) /\ UNCHANGED portfolios
  BY DEF Commits, Commit, CommitUnacknowledged
<1>2. req[t].event_type \in ALLOWED_EVENT_TYPES /\ ~KeyUsed(ledger, req[t].idempotency_key)
  BY <1>1 DEF TransactionsExclude, Progress, KeysExclude
<1>3. /\ req[t] \in Requests /\ req[t] \in LedgerImportParams
      /\ pos[t] \in PositionIds /\ row[t] \in Rows
  BY RequestsAssumption DEF TypeOK
<1> QED
  BY <1>1, <1>2, <1>3, LedgerEntryType

-----------------------------------------------------------------------------
(***************************************************************************)
(* No key is entered twice, however the threads are scheduled and wherever *)
(* they fail: a transaction that reaches its commit holds a key nobody has *)
(* committed, and nobody else holds.                                       *)
(***************************************************************************)
THEOREM ExactlyOnce == Spec => []KeyUnique
<1>1. Init => KeyUnique
  BY DEF Init, KeyUnique
<1>2. TypeOK /\ TransactionsExclude /\ KeyUnique /\ [Next]_vars => KeyUnique'
  <2> SUFFICES ASSUME TypeOK, TransactionsExclude, KeyUnique, [Next]_vars
               PROVE  KeyUnique'
    OBVIOUS
  <2>1. CASE UNCHANGED ledger
    BY <2>1 DEF KeyUnique
  <2>2. ASSUME NEW t \in Threads, Commits(t)
        PROVE  KeyUnique'
    <3> DEFINE e == LedgerEntry(req[t], pos[t])
    <3>1. /\ req[t].event_type \in ALLOWED_EVENT_TYPES /\ Post(t)
          /\ ~KeyUsed(ledger, req[t].idempotency_key)
          /\ e.idempotency_key = req[t].idempotency_key
      BY <2>2, CommitIsPost
    <3> HIDE DEF e
    <3>2. /\ Len(ledger) \in Nat /\ Len(ledger') = Len(ledger) + 1
          /\ \A i \in 1..Len(ledger) : ledger'[i] = ledger[i]
          /\ ledger'[Len(ledger) + 1] = e
      BY <3>1, PostEffect DEF TypeOK, e
    <3>3. \A i \in 1..Len(ledger) : ledger'[i].idempotency_key # e.idempotency_key
      BY <3>1, <3>2 DEF KeyUsed
    <3> QED
      BY <3>2, <3>3 DEF KeyUnique
  <2> QED
    BY <2>1, <2>2, OnlyCommitsWrite
<1> QED
  BY <1>1, <1>2, TypeCorrect, Exclusion, PTL DEF Spec

-----------------------------------------------------------------------------
(* The quantities in the tables are what a column can hold, and there is   *)
(* none where there is no row.                                             *)
TablesOnGrid ==
  /\ \A p \in PositionIds : ~Exists(positions, p) => positions[p].quantity = 0
  /\ \A p \in PositionIds : positions[p].quantity % Ulp = 0
  /\ \A t \in Threads : row[t].quantity % Ulp = 0
  /\ \A i \in 1..Len(ledger) : ledger[i].quantity_delta % Ulp = 0

LEMMA ZeroOnGrid == 0 % Ulp = 0
BY MultipleIsOnGrid, ScaleAssumption

LEMMA LocalRows ==
  ASSUME TypeOK, [Next]_vars, NEW t \in Threads
  PROVE  \/ row'[t] \in {row[t], NoRow, NewRow}
         \/ \E p \in PositionIds : row'[t] = positions[p]
<1>1. CASE UNCHANGED row
  BY <1>1
<1>2. ASSUME NEW u \in Threads, NEW a, Answer(u, a)
      PROVE  row'[t] \in {row[t], NoRow}
  BY <1>2 DEF Answer, TypeOK
<1>3. ASSUME NEW u \in Threads, FindPosition(u)
      PROVE  row'[t] = row[t] \/ \E p \in PositionIds : row'[t] = positions[p]
  BY <1>3 DEF FindPosition, Matching, TypeOK
<1>4. ASSUME NEW u \in Threads, InsertPosition(u)
      PROVE  row'[t] \in {row[t], NewRow}
  BY <1>4 DEF InsertPosition, TypeOK
<1>5. \/ UNCHANGED row
      \/ \E u \in Threads : \/ \E a : Answer(u, a)
                            \/ FindPosition(u) \/ InsertPosition(u)
  BY DEF Next, Step, vars, locals, CreatePortfolio, Receive, RejectEventType,
         ResolvePortfolio, RejectPortfolio, PassIdempotency, ReplyDuplicate,
         FindNoPosition, InsertPositionFails, UpdatePosition, UpdatePositionOverflows,
         InsertLedger, InsertLedgerFails, Abort, End, Commit, CommitUnacknowledged
<1> QED
  BY <1>1, <1>2, <1>3, <1>4, <1>5

LEMMA Grid == Spec => []TablesOnGrid
<1>1. Init => TablesOnGrid
  BY ZeroOnGrid DEF Init, TablesOnGrid, NoRow, Exists
<1>2. TypeOK /\ TransactionsExclude /\ TablesOnGrid /\ [Next]_vars => TablesOnGrid'
  <2> SUFFICES ASSUME TypeOK, TransactionsExclude, TablesOnGrid, [Next]_vars
               PROVE  TablesOnGrid'
    OBVIOUS
  <2>1. \A t \in Threads : row'[t].quantity % Ulp = 0
    BY LocalRows, ZeroOnGrid DEF TablesOnGrid, NoRow, NewRow
  <2>2. CASE UNCHANGED <<positions, ledger>>
    BY <2>1, <2>2 DEF TablesOnGrid, Exists
  <2>3. ASSUME NEW t \in Threads, Commits(t)
        PROVE  TablesOnGrid'
    <3>1. /\ Post(t) /\ req[t].event_type \in ALLOWED_EVENT_TYPES
          /\ req[t] \in LedgerImportParams /\ pos[t] \in PositionIds /\ row[t] \in Rows
      BY <2>3, CommitIsPost
    <3>2. /\ row[t].quantity + req[t].quantity_delta \in Int
          /\ req[t].quantity_delta \in Int
      BY <3>1 DEF Rows, LedgerImportParams
    <3>3. Updated(row[t], req[t]).quantity % Ulp = 0
      BY <3>1, <3>2, UpdatedType, ToColumnOnGrid
    <3>4. LedgerEntry(req[t], pos[t]).quantity_delta % Ulp = 0
      BY <3>1, <3>2, LedgerEntryType, ToColumnOnGrid
    <3>5. \A p \in PositionIds : positions'[p].quantity % Ulp = 0
      BY <3>1, <3>3 DEF Post, TypeOK, TablesOnGrid
    <3>8. \A p \in PositionIds : ~Exists(positions', p) => positions'[p].quantity = 0
      <4>1. \A p \in PositionIds :
              Exists(positions', p) <=> Exists(positions, p) \/ p = pos[t]
        BY <3>1, PostEffect
      <4>2. \A p \in PositionIds \ {pos[t]} : positions'[p] = positions[p]
        BY <3>1 DEF Post, TypeOK
      <4> QED
        BY <4>1, <4>2 DEF TablesOnGrid
    <3>6. /\ Len(ledger) \in Nat /\ Len(ledger') = Len(ledger) + 1
          /\ \A i \in 1..Len(ledger) : ledger'[i] = ledger[i]
          /\ ledger'[Len(ledger) + 1] = LedgerEntry(req[t], pos[t])
      BY <3>1, PostEffect DEF TypeOK
    <3>7. ASSUME NEW i \in 1..Len(ledger')
          PROVE  ledger'[i].quantity_delta % Ulp = 0
      <4>1. i \in 1..Len(ledger) \/ i = Len(ledger) + 1
        BY <3>6
      <4> QED
        BY <4>1, <3>4, <3>6 DEF TablesOnGrid
    <3> QED
      BY <2>1, <3>5, <3>7, <3>8 DEF TablesOnGrid
  <2> QED
    BY <2>2, <2>3, OnlyCommitsWrite
<1> QED
  BY <1>1, <1>2, TypeCorrect, Exclusion, PTL DEF Spec

-----------------------------------------------------------------------------
(* Acknowledged imports.                                                   *)

LEMMA LedgerGrows ==
  ASSUME TypeOK, TransactionsExclude, [Next]_vars, NEW i \in 1..Len(ledger)
  PROVE  i \in 1..Len(ledger') /\ ledger'[i] = ledger[i]
<1>1. CASE UNCHANGED ledger
  BY <1>1
<1>2. ASSUME NEW t \in Threads, Commits(t)
      PROVE  i \in 1..Len(ledger') /\ ledger'[i] = ledger[i]
  <2>1. Post(t) /\ req[t].event_type \in ALLOWED_EVENT_TYPES
    BY <1>2, CommitIsPost
  <2>2. Len(ledger) \in Nat /\ Len(ledger') = Len(ledger) + 1 /\ ledger'[i] = ledger[i]
    BY <2>1, PostEffect DEF TypeOK
  <2> QED
    BY <2>2
<1> QED
  BY <1>1, <1>2, OnlyCommitsWrite

LEMMA NewReplies ==
  ASSUME TypeOK, [Next]_vars, NEW t \in Threads
  PROVE  \/ reply'[t] \in {reply[t], Pending, Rejected, Error}
         \/ Commits(t) /\ reply'[t] = Recorded(req[t], pos[t])
         \/ \E i \in 1..Len(ledger) : reply'[t] = Duplicate(req[t], ledger[i])
<1>1. CASE UNCHANGED reply
  BY <1>1
<1>2. ASSUME NEW u \in Threads, NEW a, Answer(u, a)
      PROVE  reply'[t] = IF t = u THEN a ELSE reply[t]
  BY <1>2 DEF Answer, TypeOK
<1>3. ASSUME NEW u \in Threads, End(u, Rejected) \/ End(u, Error)
      PROVE  reply'[t] \in {reply[t], Rejected, Error}
  BY <1>2, <1>3 DEF End
<1>4. ASSUME NEW u \in Threads, ReplyDuplicate(u)
      PROVE  \/ reply'[t] = reply[t]
             \/ \E i \in 1..Len(ledger) : reply'[t] = Duplicate(req[t], ledger[i])
  BY <1>2, <1>4 DEF ReplyDuplicate, End
<1>5. ASSUME NEW u \in Threads, Commits(u)
      PROVE  \/ reply'[t] \in {reply[t], Error}
             \/ Commits(t) /\ reply'[t] = Recorded(req[t], pos[t])
  BY <1>2, <1>5 DEF Commits, Commit, CommitUnacknowledged
<1>6. ASSUME NEW u \in Threads, NEW r \in Requests, Receive(u, r)
      PROVE  reply'[t] \in {reply[t], Pending}
  BY <1>6 DEF Receive, TypeOK
<1>7. \/ UNCHANGED reply
      \/ \E u \in Threads :
           \/ End(u, Rejected) \/ End(u, Error)
           \/ ReplyDuplicate(u) \/ Commits(u)
           \/ \E r \in Requests : Receive(u, r)
  BY DEF Next, Step, vars, locals, CreatePortfolio, RejectEventType,
         ResolvePortfolio, RejectPortfolio, PassIdempotency, FindPosition,
         FindNoPosition, InsertPosition, InsertPositionFails, UpdatePosition,
         UpdatePositionOverflows, InsertLedger, InsertLedgerFails, Abort, Commits
<1> QED
  BY <1>1, <1>3, <1>4, <1>5, <1>6, <1>7

(***************************************************************************)
(* What a client has been told is in the ledger stays there: a recorded    *)
(* reply is given in the step that commits the entry, under the portfolio  *)
(* it names, a duplicate one for a committed entry, and no step takes an   *)
(* entry back.                                                             *)
(***************************************************************************)
THEOREM Durable == Spec => []AckedIsDurable
<1> DEFINE InLedger(a, l) ==
             \E i \in 1..Len(l) :
               /\ l[i].idempotency_key = a.ledger_entry_id
               /\ l[i].position_id = a.position_id
               /\ l[i].submitted_ticker = a.submitted_ticker
               /\ l[i].quantity_delta = ToColumn(a.quantity_delta)
               /\ a.status = "recorded" => l[i].position_id[1] = a.portfolio
<1>1. Init => AckedIsDurable
  BY DEF Init, AckedIsDurable, Acknowledged, Idle
<1>2. TypeOK /\ TransactionsExclude /\ TablesOnGrid /\ AckedIsDurable /\ [Next]_vars
        => AckedIsDurable'
  <2> SUFFICES ASSUME TypeOK, TransactionsExclude, TablesOnGrid, AckedIsDurable,
                      [Next]_vars, NEW t \in Threads, Acknowledged(reply'[t])
               PROVE  InLedger(reply'[t], ledger')
    BY DEF AckedIsDurable
  <2>1. ASSUME NEW a, InLedger(a, ledger)
        PROVE  InLedger(a, ledger')
    <3>1. PICK i \in 1..Len(ledger) :
               /\ ledger[i].idempotency_key = a.ledger_entry_id
               /\ ledger[i].position_id = a.position_id
               /\ ledger[i].submitted_ticker = a.submitted_ticker
               /\ ledger[i].quantity_delta = ToColumn(a.quantity_delta)
               /\ a.status = "recorded" => ledger[i].position_id[1] = a.portfolio
      BY <2>1
    <3>2. i \in 1..Len(ledger') /\ ledger'[i] = ledger[i]
      BY LedgerGrows
    <3> QED
      BY <3>1, <3>2
  <2>2. CASE reply'[t] = reply[t]
    <3>1. InLedger(reply[t], ledger)
      BY <2>2 DEF AckedIsDurable
    <3> QED
      BY <2>1, <2>2, <3>1
  <2>3. CASE reply'[t] \in {Pending, Rejected, Error}
    BY <2>3 DEF Acknowledged, Pending, Rejected, Error
  <2>4. CASE Commits(t) /\ reply'[t] = Recorded(req[t], pos[t])
    <3> DEFINE e == LedgerEntry(req[t], pos[t])
    <3>1. /\ Post(t) /\ req[t].event_type \in ALLOWED_EVENT_TYPES
          /\ req[t] \in LedgerImportParams /\ pos[t] \in PositionIds
      BY <2>4, CommitIsPost
    <3>2. /\ Len(ledger) \in Nat /\ Len(ledger') = Len(ledger) + 1
          /\ ledger'[Len(ledger) + 1] = e
      BY <3>1, PostEffect DEF TypeOK
    <3>3. /\ e.idempotency_key = reply'[t].ledger_entry_id
          /\ e.position_id = reply'[t].position_id
          /\ e.submitted_ticker = reply'[t].submitted_ticker
          /\ e.quantity_delta = ToColumn(reply'[t].quantity_delta)
      BY <2>4, <3>1, LedgerEntryType DEF Recorded
    <3>4. Len(ledger) + 1 \in 1..Len(ledger')
      BY <3>2
    <3>5. e.position_id[1] = reply'[t].portfolio
      <4>1. pc[t] = "commit" /\ e.position_id = pos[t] /\ reply'[t].portfolio = req[t].portfolio
        BY <2>4 DEF Commits, Commit, CommitUnacknowledged, LedgerEntry, Recorded
      <4>2. pos[t][1] = req[t].portfolio
        BY <4>1 DEF TransactionsExclude, PositionResolved, Matching, OwnPosition
      <4> QED
        BY <4>1, <4>2
    <3> HIDE DEF e
    <3> QED
      BY <3>2, <3>3, <3>4, <3>5
  <2>5. ASSUME NEW i \in 1..Len(ledger), reply'[t] = Duplicate(req[t], ledger[i])
        PROVE  InLedger(reply'[t], ledger')
    <3>1. ledger[i].quantity_delta = ToColumn(ledger[i].quantity_delta)
      BY DEF TablesOnGrid, ToColumn
    <3>2. InLedger(reply'[t], ledger)
      BY <2>5, <3>1 DEF Duplicate
    <3> QED
      BY <3>2, <2>1
  <2> QED
    BY <2>2, <2>3, <2>4, <2>5, NewReplies
<1> QED
  BY <1>1, <1>2, TypeCorrect, Exclusion, Grid, PTL DEF Spec
-----------------------------------------------------------------------------
(* A position and its entries come and go together.                        *)

(* A step leaves a position and the sum of its entries alone, or enters an *)
(* entry of it.                                                            *)
LEMMA PositionChangesByEntry ==
  ASSUME TypeOK, TransactionsExclude, [Next]_vars, NEW p \in PositionIds
  PROVE  \/ positions'[p] = positions[p] /\ ledgerSum'[p] = ledgerSum[p]
         \/ /\ Len(ledger') = Len(ledger) + 1
            /\ ledger'[Len(ledger) + 1].position_id = p
            /\ Exists(positions', p)
<1>1. CASE UNCHANGED <<positions, ledger, ledgerSum>>
  BY <1>1
<1>2. ASSUME NEW t \in Threads, Commits(t)
      PROVE  \/ positions'[p] = positions[p] /\ ledgerSum'[p] = ledgerSum[p]
             \/ /\ Len(ledger') = Len(ledger) + 1
                /\ ledger'[Len(ledger) + 1].position_id = p
                /\ Exists(positions', p)
  <2>1. /\ Post(t) /\ pos[t] \in PositionIds
        /\ req[t].event_type \in ALLOWED_EVENT_TYPES
        /\ req[t] \in LedgerImportParams
    BY <1>2, CommitIsPost
  <2>2. CASE pos[t] = p
    <3>1. LedgerEntry(req[t], pos[t]).position_id = p
      BY <2>1, <2>2, LedgerEntryType
    <3> QED
      BY <2>1, <2>2, <3>1, PostEffect
  <2>3. CASE pos[t] # p
    BY <2>1, <2>3 DEF Post, TypeOK
  <2> QED
    BY <2>2, <2>3
<1> QED
  BY <1>1, <1>2, OnlyCommitsWrite

(* There is no entry of a position that is not there.                      *)
NothingBooked(p) ==
  /\ positions[p].quantity = 0
  /\ ledgerSum[p] = 0
  /\ \A i \in 1..Len(ledger) : ledger[i].position_id # p

EmptyUntilBooked == \A p \in PositionIds : ~Exists(positions, p) => NothingBooked(p)

LEMMA StaysEmpty == Spec => []EmptyUntilBooked
<1>1. Init => EmptyUntilBooked
  BY DEF Init, EmptyUntilBooked, NothingBooked, NoRow
<1>2. TypeOK /\ TransactionsExclude /\ EmptyUntilBooked /\ [Next]_vars => EmptyUntilBooked'
  <2> SUFFICES ASSUME TypeOK, TransactionsExclude, EmptyUntilBooked, [Next]_vars,
                      NEW p \in PositionIds, ~Exists(positions', p)
               PROVE  NothingBooked(p)'
    BY DEF EmptyUntilBooked
  <2>1. CASE UNCHANGED <<positions, ledger, ledgerSum>>
    BY <2>1 DEF EmptyUntilBooked, NothingBooked, Exists
  <2>2. ASSUME NEW t \in Threads, Commits(t)
        PROVE  NothingBooked(p)'
    <3>1. /\ Post(t) /\ pos[t] \in PositionIds
          /\ req[t].event_type \in ALLOWED_EVENT_TYPES
          /\ req[t] \in LedgerImportParams
      BY <2>2, CommitIsPost
    <3>2. ~Exists(positions, p) /\ p # pos[t]
      BY <3>1, PostEffect
    <3>3. positions'[p] = positions[p] /\ ledgerSum'[p] = ledgerSum[p]
      BY <3>1, <3>2 DEF Post, TypeOK
    <3>4. /\ Len(ledger) \in Nat /\ Len(ledger') = Len(ledger) + 1
          /\ \A i \in 1..Len(ledger) : ledger'[i] = ledger[i]
          /\ ledger'[Len(ledger) + 1].position_id = pos[t]
      BY <3>1, PostEffect, LedgerEntryType DEF TypeOK
    <3>5. \A i \in 1..Len(ledger') : ledger'[i].position_id # p
      BY <3>2, <3>4 DEF EmptyUntilBooked, NothingBooked
    <3> QED
      BY <3>2, <3>3, <3>5 DEF EmptyUntilBooked, NothingBooked
  <2> QED
    BY <2>1, <2>2, OnlyCommitsWrite
<1> QED
  BY <1>1, <1>2, TypeCorrect, Exclusion, PTL DEF Spec
=============================================================================
