----------------------------- MODULE LedgerBook -----------------------------
(***************************************************************************)
(* What an import promises about the tables: it is one indivisible step.   *)
(* The position of the request's symbol is found, or created when the      *)
(* symbol has none; the accounting rules are applied to the row as it is   *)
(* at that moment; and the entry is appended under a key never used before.*)
(***************************************************************************)
EXTENDS PositionStore

VARIABLES portfolios, positions, ledger

bookVars == <<portfolios, positions, ledger>>

BookInit ==
  /\ portfolios = {}
  /\ positions = [p \in PositionIds |-> NoRow]
  /\ ledger = << >>

Open(name) ==
  /\ portfolios' = portfolios \cup {name}
  /\ UNCHANGED <<positions, ledger>>

(* The positions a request may be booked to: none, when its symbol has no  *)
(* position and its very spelling has one nevertheless.                    *)
Targets(r) ==
  IF Matching(positions, r) = {} THEN { p \in {OwnPosition(r)} : ~Exists(positions, p) }
                                 ELSE Matching(positions, r)

(* The row the accounting rules start from: a new position starts empty.   *)
Current(p) == IF Exists(positions, p) THEN positions[p] ELSE NewRow

Book(r, p) ==
  /\ Supported(r)
  /\ r.portfolio \in portfolios
  /\ ~KeyUsed(ledger, r.idempotency_key)
  /\ p \in Targets(r)
  /\ RowFits(Updated(Current(p), r)) /\ EntryFits(LedgerEntry(r, p))
  /\ positions' = [positions EXCEPT ![p] = Updated(Current(p), r)]
  /\ ledger' = Append(ledger, LedgerEntry(r, p))
  /\ UNCHANGED portfolios

BookNext ==
  \/ \E name \in Portfolios : Open(name)
  \/ \E r \in Requests, p \in PositionIds : Book(r, p)

BookSpec == BookInit /\ [][BookNext]_bookVars
=============================================================================
