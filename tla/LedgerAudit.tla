---------------------------- MODULE LedgerAudit ----------------------------
(***************************************************************************)
(* Audits of a position's history: what its row must be, given all of its  *)
(* ledger entries.                                                         *)
(***************************************************************************)
EXTENDS LedgerProperties

(* f[1] + ... + f[n], as a recursive function, which can be proved about.  *)
Total(f, n) ==
  LET sum[i \in 0..n] == IF i = 0 THEN 0 ELSE sum[i - 1] + f[i]
  IN  sum[n]

(* The sum of f[i] over the numbers i of S up to n. *)
SumOver(S, f, n) == Total([i \in 1..n |-> IF i \in S THEN f[i] ELSE 0], n)

EntriesOf(p) == { i \in 1..Len(ledger) : ledger[i].position_id = p }

LastOf(p) == CHOOSE i \in EntriesOf(p) : \A j \in EntriesOf(p) : j <= i

(* The quantity the entries numbered in S add up to. *)
Deltas == [i \in 1..Len(ledger) |-> ledger[i].quantity_delta]

DeltaOf(S) == SumOver(S, Deltas, Len(ledger))

(* The quantity of p after its entry i. *)
QuantityAfter(p, i) == DeltaOf({ j \in EntriesOf(p) : j <= i })

(***************************************************************************)
(* Concurrent imports of one position may lose updates, and do no worse:   *)
(* its quantity is what some of its own entries add up to, the last one    *)
(* committed among them (ledger.py:152-180); and ledgerSum is the sum the  *)
(* worker's query computes (reconciliation.py:81-88).                      *)
(***************************************************************************)
QuantityFromOwnEntries ==
  \A p \in PositionIds :
    /\ ledgerSum[p] = DeltaOf(EntriesOf(p))
    /\ Exists(positions, p) =>
         \E S \in SUBSET EntriesOf(p) :
           S # {} /\ LastOf(p) \in S /\ positions[p].quantity = DeltaOf(S)

(* A position that was never short. *)
NeverShort(p) == \A i \in EntriesOf(p) : QuantityAfter(p, i) >= 0

(***************************************************************************)
(* Money is conserved (accounting.py:64-114): in a history that was never  *)
(* short and has a price on every trade, realized_pnl is the cash the      *)
(* entries brought in, less the fees, plus what is still held at average   *)
(* cost; up to half a column step for each rounding of the average cost    *)
(* and of the realized_pnl column.                                         *)
(***************************************************************************)
Priced(e) == e.quantity_delta = 0 \/ e.price # NoPrice

Cash(e) == -(e.quantity_delta * e.price) - e.fees * One

Cashes == [i \in 1..Len(ledger) |-> Cash(ledger[i])]

CashOf(p) == SumOver(EntriesOf(p), Cashes, Len(ledger))

(* The two roundings of an entry: of realized_pnl, and of the average cost *)
(* of what is held after it.                                               *)
Roundings(p) == [i \in 1..Len(ledger) |-> One + QuantityAfter(p, i)]

RoundingOf(p) == Ulp * SumOver(EntriesOf(p), Roundings(p), Len(ledger))

MoneyIsConserved ==
  \A p \in PositionIds :
    /\ NeverShort(p)
    /\ \A i \in EntriesOf(p) : Priced(ledger[i])
    => 2 * Magnitude(positions[p].realized_pnl * One - CashOf(p)
                       - positions[p].quantity * positions[p].average_cost)
         <= RoundingOf(p)

(***************************************************************************)
(* The average cost of a long position that was never short lies between   *)
(* the lowest and the highest price it was bought at since it was last     *)
(* flat; a buy without a price was for 0 (accounting.py:71-79).            *)
(***************************************************************************)
PaidFor(p) ==
  { IF ledger[i].price = NoPrice THEN 0 ELSE ledger[i].price :
      i \in { j \in EntriesOf(p) :
                /\ ledger[j].quantity_delta > 0
                /\ \A k \in EntriesOf(p) : k >= j => QuantityAfter(p, k) > 0 } }

AverageWithinPricesPaid ==
  \A p \in PositionIds :
    NeverShort(p) /\ positions[p].quantity > 0
    => /\ \E x \in PaidFor(p) : x <= positions[p].average_cost
       /\ \E x \in PaidFor(p) : x >= positions[p].average_cost
=============================================================================
