----------------------------- MODULE LedgerReads -----------------------------
(***************************************************************************)
(* The reads beside the imports: a client that pages through a list by     *)
(* OFFSET (list_positions, list_ledger_entries), and the lookup of a       *)
(* position by its ticker (get_position_by_ticker).                        *)
(*                                                                         *)
(* A page is one SELECT in a transaction of its own.  Both lists break     *)
(* ties by a serial id, which is given out by the INSERT, not by the       *)
(* commit: the ids are modelled by the order of the INSERTs.               *)
(***************************************************************************)
EXTENDS LedgerProperties, FiniteSets

CONSTANTS Unset,        \* a filter that is not given
          Queries,      \* the lists a client may page through
          Limit,        \* the rows of a page
          OccurredAt,   \* occurred_at of the entry of a key
          TickerPlace   \* the place of a spelling's ticker in the database's collation

ASSUME ReadsAssumption ==
  /\ Limit \in Nat \ {0}
  /\ OccurredAt \in [Keys -> Nat]
  /\ TickerPlace \in [Tickers -> Nat]
  /\ Unset \notin Queries
  /\ \A q \in Queries : q.of \in {"entries", "positions"}

VARIABLES
  entryIds,      \* <<k, l>>: the entry of k has been inserted before the one of l
  positionIds,   \* the same of positions
  query,         \* what the client pages through, Unset when it does not
  offset,        \* the offset of its next page
  shown,         \* the rows it has been shown
  received,      \* how many rows its pages had, all told
  start,         \* the rows that matched when it asked for its first page
  left,          \* how many times a row has left the list since
  came           \* how many times a row has joined it since

inserted == <<entryIds, positionIds>>
reader   == <<query, offset, shown, received, start, left, came>>

Items(q) == IF q.of = "entries" THEN Keys ELSE PositionIds

(* Paging comes to an end when no more rows join the list. *)
ReadsTypeOK ==
  /\ entryIds \subseteq Keys \X Keys
  /\ positionIds \subseteq PositionIds \X PositionIds
  /\ query \in Queries \cup {Unset}
  /\ query # Unset => shown \subseteq Items(query) /\ start \subseteq Items(query)
  /\ left \in Nat /\ came \in Nat
  /\ received \in 0..(Cardinality(start) + came)
  /\ offset \in received..(received + Limit)

NotReading ==
  /\ query = Unset /\ offset = 0 /\ shown = {} /\ received = 0
  /\ start = {} /\ left = 0 /\ came = 0

InitReads == Init /\ entryIds = {} /\ positionIds = {} /\ NotReading

-----------------------------------------------------------------------------
(* The rows that have their id, committed or not.                            *)
HasEntryId(k) == KeyUsed(ledger, k) \/ \E t \in Threads : HoldsKey(t, k)

HasPositionId(p) == Exists(positions, p) \/ \E t \in Threads : InsertsPosition(t, p)

(* The order of the ids when the rows S had one and T have one now: a new    *)
(* row gets the highest, a rollback takes its row along.                     *)
Ordered(ids, S, T) ==
  { x \in ids : x[1] \in T /\ x[2] \in T } \cup ((S \cap T) \X (T \ S))

IdsGoOn ==
  /\ entryIds' = Ordered(entryIds, {k \in Keys : HasEntryId(k)}, {k \in Keys : HasEntryId(k)'})
  /\ positionIds' = Ordered(positionIds, {p \in PositionIds : HasPositionId(p)},
                                         {p \in PositionIds : HasPositionId(p)'})

-----------------------------------------------------------------------------
(* WHERE: _build_ledger_where, _build_list_where.                            *)
Allows(filter, value) == filter = Unset \/ filter = value

EntryMatches(q, e) ==
  /\ Allows(q.portfolio, e.position_id[1])
  /\ q.ticker # Unset => Lower[e.submitted_ticker] = StripLower[q.ticker]
  /\ Allows(q.event_type, e.event_type)

PositionMatches(q, p) ==
  /\ Exists(positions, p)
  /\ Allows(q.portfolio, p[1])
  /\ q.ticker # Unset => Lower[p[2]] = StripLower[q.ticker]
  /\ Allows(q.status, positions[p].status)

Selected(q) ==
  IF q.of = "entries"
    THEN { ledger[i].idempotency_key : i \in {j \in DOMAIN ledger : EntryMatches(q, ledger[j])} }
    ELSE { p \in PositionIds : PositionMatches(q, p) }

(* ORDER BY occurred_at DESC, id DESC                                        *)
EntryBefore(k, l) ==
  \/ OccurredAt[k] > OccurredAt[l]
  \/ OccurredAt[k] = OccurredAt[l] /\ <<l, k>> \in entryIds

(* ORDER BY submitted_ticker ASC, id ASC                                     *)
PositionBefore(p, r) ==
  \/ TickerPlace[p[2]] < TickerPlace[r[2]]
  \/ TickerPlace[p[2]] = TickerPlace[r[2]] /\ <<p, r>> \in positionIds

Before(q, x, y) == IF q.of = "entries" THEN EntryBefore(x, y) ELSE PositionBefore(x, y)

(* How many rows of the list come before row x.                              *)
Rank(q, x) == Cardinality({ y \in Selected(q) : Before(q, y, x) })

(* Mutants: the offset is taken for the number of the first row; the first   *)
(* page for page 0; OFFSET is left out.                                      *)
PageFromRow(q, o) ==
  LET from == IF o = 0 THEN 0 ELSE o - 1
  IN  { x \in Selected(q) : Rank(q, x) \in from..(from + Limit - 1) }

PageTooFar(q, o) ==
  LET from == IF o = 0 THEN 0 ELSE o + Limit
  IN  { x \in Selected(q) : Rank(q, x) \in from..(from + Limit - 1) }

PageFromStart(q, o) == { x \in Selected(q) : Rank(q, x) < Limit }

(* LIMIT Limit OFFSET o                                                      *)
Page(q, o) == { x \in Selected(q) : Rank(q, x) \in o..(o + Limit - 1) }

-----------------------------------------------------------------------------
(* A client asks for the first page of a list, then for the next ones as     *)
(* long as they are full.                                                    *)
FirstPage(q) ==
  /\ query = Unset
  /\ query' = q
  /\ offset' = Limit
  /\ shown' = Page(q, 0)
  /\ received' = Cardinality(Page(q, 0))
  /\ start' = Selected(q)
  /\ left' = 0 /\ came' = 0
  /\ UNCHANGED <<vars, inserted>>

More == query # Unset /\ received = offset

NextPage ==
  /\ More
  /\ offset' = offset + Limit
  /\ shown' = shown \cup Page(query, offset)
  /\ received' = received + Cardinality(Page(query, offset))
  /\ UNCHANGED <<vars, inserted, query, start, left, came>>

(* It is done with the list.                                                 *)
Leave ==
  /\ query # Unset /\ ~More
  /\ query' = Unset /\ offset' = 0 /\ shown' = {} /\ received' = 0
  /\ start' = {} /\ left' = 0 /\ came' = 0
  /\ UNCHANGED <<vars, inserted>>

(* A step of an import, and what it does to the list.                        *)
ImportGoesOn ==
  /\ Next
  /\ IdsGoOn
  /\ UNCHANGED <<query, offset, shown, received, start>>
  /\ IF query = Unset THEN UNCHANGED <<left, came>>
     ELSE /\ left' = left + Cardinality(Selected(query) \ Selected(query)')
          /\ came' = came + Cardinality(Selected(query)' \ Selected(query))

NextReads ==
  \/ ImportGoesOn
  \/ \E q \in Queries : FirstPage(q)
  \/ NextPage
  \/ Leave

readsVars == <<vars, inserted, reader>>

ReadsSpec == InitReads /\ [][NextReads]_readsVars

-----------------------------------------------------------------------------
(* get_position_by_ticker: ORDER BY status ASC, id DESC LIMIT 1.             *)
(* Mutant: the stored spelling is not lowered.                               *)
OfStoredSpelling(portfolio, ticker) ==
  { p \in PositionIds : /\ Exists(positions, p)
                        /\ p[1] = portfolio
                        /\ p[2] = StripLower[ticker] }

OfTicker(portfolio, ticker) ==
  { p \in PositionIds : /\ Exists(positions, p)
                        /\ p[1] = portfolio
                        /\ Lower[p[2]] = StripLower[ticker] }

(* 'closed' < 'open'                                                         *)
ShownBefore(p, r) ==
  \/ positions[p].status = "closed" /\ positions[r].status = "open"
  \/ positions[p].status = positions[r].status
       /\ <<r, p>> \in positionIds

Shown(portfolio, ticker) ==
  CHOOSE p \in OfTicker(portfolio, ticker) :
    \A r \in OfTicker(portfolio, ticker) \ {p} : ShownBefore(p, r)
=============================================================================
