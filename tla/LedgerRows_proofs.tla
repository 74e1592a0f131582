------------------------- MODULE LedgerRows_proofs -------------------------
(***************************************************************************)
(* What the rows of a position are after any history of imports. With any  *)
(* number of threads, lost updates included, cost and status follow the    *)
(* quantity, and a quantity is some of the position's own entries. With one*)
(* thread a normalized symbol has one position, its average stays within   *)
(* the prices it paid and the money of its entries is all in its row, to   *)
(* the rounding of each step.                                              *)
(***************************************************************************)
EXTENDS LedgerRefinement_proofs, LedgerAudit, WellFoundedInduction

-----------------------------------------------------------------------------
(* Cost and status.                                                        *)

(* Only a long position has a cost. *)
CostOK(quantity, average_cost) ==
  average_cost >= 0 /\ (average_cost > 0 => quantity > 0)

LEMMA HalfUpNat ==
  ASSUME NEW n \in Nat, NEW m \in Int, m > 0
  PROVE  HalfUp(n, m) >= 0
<1>1. HalfUp(n, m) = (2 * n + m) \div (2 * m)
  BY DEF HalfUp
<1> DEFINE a == 2 * n + m
           b == 2 * m
<1>2. a \in Int /\ a >= 0 /\ b \in Int /\ b > 0
  OBVIOUS
<1> HIDE DEF a, b
<1>3. a \div b >= 0
  BY <1>2
<1> QED
  BY <1>1, <1>3 DEF a, b

LEMMA QuantizeNat ==
  ASSUME NEW n \in Nat, NEW m \in Int, m > 0
  PROVE  Quantize(n, m) >= 0
<1>1. m * Ulp \in Int /\ m * Ulp > 0
  BY ScaleAssumption
<1>2. HalfUp(n, m * Ulp) \in Int /\ HalfUp(n, m * Ulp) >= 0
  BY <1>1, HalfUpNat, HalfUpInt
<1> QED
  BY <1>2, ScaleAssumption DEF Quantize

(* Products are kept apart from the rest, which is linear. *)
LEMMA ProductNat ==
  ASSUME NEW x \in Int, NEW y \in Int, x >= 0, y >= 0
  PROVE  x * y \in Nat
OBVIOUS

LEMMA ApplyKeepsCost ==
  ASSUME NEW q \in Int, NEW a \in Int, NEW d \in Int,
         NEW price \in Nat \cup {NoPrice}, NEW f \in Nat, CostOK(q, a)
  PROVE  LET u == ApplyLedgerEvent(q, a, d, price, f)
         IN  CostOK(u.new_quantity, u.new_average_cost)
<1> DEFINE event_price == IF price = NoPrice THEN 0 ELSE price
           total == q * a + Magnitude(d) * event_price
<1>1. /\ Magnitude(d) \in Int /\ Magnitude(d) >= 0
      /\ event_price \in Int /\ event_price >= 0
  BY DEF Magnitude, NoPrice
<1>2. total \in Nat
  <2>1. q * a \in Nat
    <3>1. CASE a = 0
      BY <3>1
    <3>2. CASE a > 0
      BY <3>2, ProductNat DEF CostOK
    <3> QED
      BY <3>1, <3>2 DEF CostOK
  <2>2. Magnitude(d) * event_price \in Nat
    BY <1>1, ProductNat
  <2> QED
    BY <2>1, <2>2
<1> HIDE DEF total
<1>3. q + d > 0 => Quantize(total, q + d) \in Int /\ Quantize(total, q + d) >= 0
  BY <1>2, QuantizeInt, QuantizeNat
<1>4. CASE d > 0
  <2>1. ApplyLedgerEvent(q, a, d, price, f) =
          [ new_quantity       |-> q + d,
            new_average_cost   |-> IF q + d > 0 THEN Quantize(total, q + d) ELSE 0,
            realized_pnl_delta |-> -(f * One) ]
    BY <1>4 DEF ApplyLedgerEvent, ApplyIncrease, total
  <2> QED
    BY <2>1, <1>3 DEF CostOK
<1>5. CASE d < 0
  <2>1. /\ ApplyLedgerEvent(q, a, d, price, f).new_quantity = q + d
        /\ ApplyLedgerEvent(q, a, d, price, f).new_average_cost = IF q + d > 0 THEN a ELSE 0
    BY <1>5 DEF ApplyLedgerEvent, ApplyDecrease
  <2> QED
    BY <2>1 DEF CostOK
<1>6. CASE d = 0
  <2>1. /\ ApplyLedgerEvent(q, a, d, price, f).new_quantity = q
        /\ ApplyLedgerEvent(q, a, d, price, f).new_average_cost = a
    BY <1>6 DEF ApplyLedgerEvent
  <2> QED
    BY <2>1
<1> QED
  BY <1>4, <1>5, <1>6

(* The UPDATE keeps cost and status in step with the quantity when the     *)
(* column holds the quantity as it is.                                     *)
LEMMA UpdatedKeepsCost ==
  ASSUME NEW old \in Rows, NEW r \in LedgerImportParams,
         old.quantity % Ulp = 0, r.quantity_delta % Ulp = 0,
         CostOK(old.quantity, old.average_cost)
  PROVE  LET new == Updated(old, r)
         IN  /\ CostOK(new.quantity, new.average_cost)
             /\ new.status = "closed" <=> new.quantity = 0
<1> DEFINE u == ApplyLedgerEvent(old.quantity, old.average_cost,
                                 r.quantity_delta, r.price, r.fees)
<1>1. /\ old.quantity \in Int /\ old.average_cost \in Int
      /\ r.quantity_delta \in Int /\ r.price \in Nat \cup {NoPrice} /\ r.fees \in Nat
  BY DEF Rows, LedgerImportParams
<1>2. /\ u.new_quantity = old.quantity + r.quantity_delta
      /\ CostOK(u.new_quantity, u.new_average_cost)
  <2>1. /\ u.new_quantity = old.quantity + r.quantity_delta
        /\ u.new_average_cost \in Int
        /\ u.realized_pnl_delta \in Int
    BY <1>1, ApplyType, Zenon
  <2>2. CostOK(u.new_quantity, u.new_average_cost)
    BY <1>1, ApplyKeepsCost, Zenon
  <2> QED
    BY <2>1, <2>2
<1>3. ToColumn(u.new_quantity) = u.new_quantity
  BY <1>1, <1>2, GridSum DEF ToColumn
<1> HIDE DEF u
<1>4. /\ Updated(old, r).quantity = u.new_quantity
      /\ Updated(old, r).average_cost = u.new_average_cost
      /\ Updated(old, r).status = IF u.new_quantity # 0 THEN "open" ELSE "closed"
  BY <1>3 DEF Updated, u
<1> QED
  BY <1>2, <1>4

(* The invariant that carries FlatIsClosedAndFree: what the threads have   *)
(* read is as sound as what is stored.                                     *)
RowsSound ==
  /\ \A p \in PositionIds : CostOK(positions[p].quantity, positions[p].average_cost)
  /\ \A t \in Threads : CostOK(row[t].quantity, row[t].average_cost)
  /\ FlatIsClosedAndFree

LEMMA RowsStaySound ==
  ASSUME WholeSteps, TypeOK, TransactionsExclude, TablesOnGrid, RowsSound, [Next]_vars
  PROVE  RowsSound'
<1>1. \A t \in Threads : CostOK(row'[t].quantity, row'[t].average_cost)
  BY LocalRows DEF RowsSound, CostOK, NoRow, NewRow
<1>2. CASE UNCHANGED <<positions, ledger>>
  BY <1>1, <1>2 DEF RowsSound, FlatIsClosedAndFree, Exists
<1>3. ASSUME NEW t \in Threads, Commits(t)
      PROVE  RowsSound'
  <2>1. /\ Post(t) /\ req[t].event_type \in ALLOWED_EVENT_TYPES /\ req[t] \in Requests
        /\ req[t] \in LedgerImportParams /\ pos[t] \in PositionIds /\ row[t] \in Rows
    BY <1>3, CommitIsPost
  <2> DEFINE new == Updated(row[t], req[t])
  <2>2. /\ CostOK(new.quantity, new.average_cost)
        /\ new.status = "closed" <=> new.quantity = 0
    BY <2>1, UpdatedKeepsCost DEF WholeSteps, TablesOnGrid, RowsSound
  <2> HIDE DEF new
  <2>3. \A p \in PositionIds : positions'[p] = IF p = pos[t] THEN new ELSE positions[p]
    BY <2>1 DEF Post, TypeOK, new
  <2>4. \A p \in PositionIds : CostOK(positions'[p].quantity, positions'[p].average_cost)
    BY <2>2, <2>3 DEF RowsSound
  <2>5. FlatIsClosedAndFree'
    <3> SUFFICES ASSUME NEW p \in PositionIds, Exists(positions', p)
                 PROVE  /\ positions'[p].status = "closed" <=> positions'[p].quantity = 0
                        /\ positions'[p].average_cost > 0 => positions'[p].quantity > 0
                        /\ positions'[p].average_cost >= 0
      BY DEF FlatIsClosedAndFree
    <3>1. CASE p = pos[t]
      BY <2>2, <2>3, <3>1 DEF CostOK
    <3>2. CASE p # pos[t]
      <4>1. positions'[p] = positions[p] /\ Exists(positions, p)
        BY <2>3, <3>2 DEF Exists
      <4> QED
        BY <4>1 DEF RowsSound, FlatIsClosedAndFree
    <3> QED
      BY <3>1, <3>2
  <2> QED
    BY <1>1, <2>4, <2>5 DEF RowsSound
<1> QED
  BY <1>2, <1>3, OnlyCommitsWrite

LEMMA SoundRows ==
  ASSUME WholeSteps
  PROVE  Spec => []RowsSound
<1>1. Init => RowsSound
  BY DEF Init, RowsSound, CostOK, FlatIsClosedAndFree, NoRow, Exists
<1>2. TypeOK /\ TransactionsExclude /\ TablesOnGrid /\ RowsSound /\ [Next]_vars => RowsSound'
  BY RowsStaySound
<1> QED
  BY <1>1, <1>2, TypeCorrect, Exclusion, Grid, PTL DEF Spec

(***************************************************************************)
(* For quantities a column holds exactly, a position is closed exactly     *)
(* when it is flat and only a long one has a cost, whatever overlaps: a    *)
(* lost update replaces a sound row by a sound row (accounting.py:76-81,   *)
(* 107; ledger.py:160).                                                    *)
(***************************************************************************)
THEOREM CostFollowsQuantity ==
  ASSUME WholeSteps
  PROVE  Spec => []FlatIsClosedAndFree
<1>1. RowsSound => FlatIsClosedAndFree
  BY DEF RowsSound
<1> QED
  BY <1>1, SoundRows, PTL

-----------------------------------------------------------------------------
(* One position per symbol.                                                *)

(* A position that is not stored yet: no findable one has its symbol.      *)
LEMMA NewSymbolIsNew ==
  ASSUME TypeOK, TransactionsExclude, ReadIsCurrent,
         NEW t \in Threads, Commits(t), ~Exists(positions, pos[t]),
         NEW p \in PositionIds, Exists(positions, p), Findable(p), p[1] = pos[t][1]
  PROVE  StripLower[p[2]] # StripLower[pos[t][2]]
<1>1. pc[t] = "commit" /\ pos[t] \in PositionIds
  BY CommitIsPost
<1>2. Matching(positions, req[t]) = {}
  BY <1>1 DEF ReadIsCurrent
<1>3. pos[t][1] = req[t].portfolio /\ pos[t][2] = req[t].ticker
  BY <1>1 DEF TransactionsExclude, PositionResolved, OwnPosition
<1> QED
  BY <1>2, <1>3 DEF Matching, Findable

(***************************************************************************)
(* With one thread no import creates a second position that the lookup can *)
(* find for a normalized symbol, under any spelling, blanks included       *)
(* (ledger.py:108-144).                                                    *)
(***************************************************************************)
THEOREM SerialSymbols ==
  ASSUME OneThread
  PROVE  Spec => []FindablePositionsAreUnique
<1>1. Init => FindablePositionsAreUnique
  BY DEF Init, FindablePositionsAreUnique, NoRow, Exists
<1>2. /\ TypeOK /\ TransactionsExclude /\ ReadIsCurrent
      /\ FindablePositionsAreUnique /\ [Next]_vars
      => FindablePositionsAreUnique'
  <2> SUFFICES ASSUME TypeOK, TransactionsExclude, ReadIsCurrent,
                      FindablePositionsAreUnique, [Next]_vars
               PROVE  FindablePositionsAreUnique'
    OBVIOUS
  <2>1. CASE UNCHANGED positions
    BY <2>1 DEF FindablePositionsAreUnique, Exists
  <2>2. ASSUME NEW t \in Threads, Commits(t)
        PROVE  FindablePositionsAreUnique'
    <3>1. \A p \in PositionIds : Exists(positions', p) <=> Exists(positions, p) \/ p = pos[t]
      BY <2>2, CommitIsPost, PostEffect
    <3>2. CASE Exists(positions, pos[t])
      <4>1. \A p \in PositionIds : Exists(positions', p) <=> Exists(positions, p)
        BY <3>1, <3>2
      <4> QED
        BY <4>1 DEF FindablePositionsAreUnique
    <3>3. CASE ~Exists(positions, pos[t])
      BY <2>2, <3>1, <3>3, NewSymbolIsNew DEF FindablePositionsAreUnique
    <3> QED
      BY <3>2, <3>3
  <2> QED
    BY <2>1, <2>2, OnlyCommitsWrite
<1> QED
  BY <1>1, <1>2, TypeCorrect, Exclusion, SerialReads, PTL DEF Spec

-----------------------------------------------------------------------------
(* Sums.  What holds of 0 and of a number when it holds of the one before  *)
(* holds of all: there is no least exception.                              *)

Below == { ss \in Nat \X Nat : ss[1] < ss[2] }

LEMMA BelowWF == IsWellFoundedOn(Below, Nat)
<1>1. Below = OpToRel(<, Nat)
  BY Zenon DEF Below, OpToRel
<1> QED
  BY <1>1, NatLessThanWellFounded

LEMMA LeastNat ==
  ASSUME NEW T \in SUBSET Nat, T # {}
  PROVE  \E x \in T : \A y \in T : x <= y
<1>1. PICK x \in T : \A y \in T : ~(<<y, x>> \in Below)
  BY BelowWF, WFMin, Zenon
<1>2. ASSUME NEW y \in T PROVE x <= y
  <2>1. ~(y < x)
    BY <1>1, <1>2 DEF Below
  <2> QED BY <2>1
<1> QED BY <1>2

LEMMA AllNat ==
  ASSUME NEW G \in SUBSET Nat, 0 \in G, \A n \in Nat \ {0} : n - 1 \in G => n \in G
  PROVE  G = Nat
<1>1. SUFFICES ASSUME Nat \ G # {} PROVE FALSE
  OBVIOUS
<1>2. PICK x \in Nat \ G : \A y \in Nat \ G : x <= y
  BY <1>1, LeastNat
<1>3. x \in Nat \ {0} /\ x - 1 \in Nat
  BY <1>2
<1>4. x - 1 \in G
  BY <1>2, <1>3
<1> QED
  BY <1>2, <1>3, <1>4

(* s is the function of partial sums of f up to n. *)
Sums(s, f, n) == s = [i \in 0..n |-> IF i = 0 THEN 0 ELSE s[i - 1] + f[i]]

LEMMA SumsExist ==
  ASSUME NEW f, NEW n \in Nat
  PROVE  \E s : Sums(s, f, n)
<1> DEFINE G == { m \in Nat : \E s : Sums(s, f, m) }
<1>1. 0 \in G
  <2> DEFINE s == [i \in 0..0 |-> 0]
  <2>1. Sums(s, f, 0)
    BY DEF Sums
  <2> HIDE DEF s
  <2> QED
    BY <2>1
<1>2. ASSUME NEW m \in Nat \ {0}, m - 1 \in G
      PROVE  m \in G
  <2>1. PICK s : Sums(s, f, m - 1)
    BY <1>2
  <2> DEFINE g == [i \in 0..m |-> IF i < m THEN s[i] ELSE s[m - 1] + f[m]]
  <2>2. ASSUME NEW i \in 0..m
        PROVE  g[i] = IF i = 0 THEN 0 ELSE g[i - 1] + f[i]
    <3>1. CASE i < m
      <4>1. i \in 0..(m - 1) /\ g[i] = s[i]
        BY <1>2, <3>1
      <4>2. s[i] = IF i = 0 THEN 0 ELSE s[i - 1] + f[i]
        BY <2>1, <4>1 DEF Sums
      <4>3. i # 0 => i - 1 \in 0..m /\ i - 1 < m
        BY <1>2
      <4> QED
        BY <4>1, <4>2, <4>3
    <3>2. CASE i = m
      BY <1>2, <3>2
    <3> QED
      BY <3>1, <3>2
  <2>3. g = [i \in 0..m |-> g[i]]
    OBVIOUS
  <2>4. Sums(g, f, m)
    <3> HIDE DEF g
    <3> QED
      BY <2>2, <2>3 DEF Sums
  <2> HIDE DEF g
  <2> QED
    BY <2>4
<1>3. G = Nat
  <2> HIDE DEF G
  <2>1. G \in SUBSET Nat
    BY DEF G
  <2> QED
    BY <1>1, <1>2, <2>1, AllNat
<1> QED
  BY <1>3

LEMMA TotalBySums ==
  ASSUME NEW f, NEW n \in Nat
  PROVE  \E s : Sums(s, f, n) /\ Total(f, n) = s[n]
BY SumsExist DEF Sums, Total

LEMMA SumsAgree ==
  ASSUME NEW f, NEW g, NEW s, NEW u, NEW n \in Nat, NEW m \in Nat, m <= n,
         Sums(s, f, n), Sums(u, g, m), \A i \in 1..m : f[i] = g[i]
  PROVE  s[m] = u[m]
<1> DEFINE G == { k \in Nat : k <= m => s[k] = u[k] }
<1>1. 0 \in G
  BY DEF Sums
<1>2. ASSUME NEW k \in Nat \ {0}, k - 1 \in G
      PROVE  k \in G
  <2> SUFFICES ASSUME k <= m PROVE s[k] = u[k]
    OBVIOUS
  <2>1. s[k - 1] = u[k - 1] /\ f[k] = g[k]
    BY <1>2
  <2>2. s[k] = s[k - 1] + f[k] /\ u[k] = u[k - 1] + g[k]
    BY <1>2 DEF Sums
  <2> QED
    BY <2>1, <2>2
<1>3. G = Nat
  <2> HIDE DEF G
  <2>1. G \in SUBSET Nat
    BY DEF G
  <2> QED
    BY <1>1, <1>2, <2>1, AllNat
<1> QED
  BY <1>3

LEMMA TotalOfNone ==
  ASSUME NEW f
  PROVE  Total(f, 0) = 0
BY TotalBySums DEF Sums

LEMMA TotalOfSame ==
  ASSUME NEW f, NEW g, NEW n \in Nat, \A i \in 1..n : f[i] = g[i]
  PROVE  Total(f, n) = Total(g, n)
BY TotalBySums, SumsAgree

LEMMA TotalOfNext ==
  ASSUME NEW f, NEW g, NEW n \in Nat, \A i \in 1..n : f[i] = g[i]
  PROVE  Total(g, n + 1) = Total(f, n) + g[n + 1]
<1>1. PICK s : Sums(s, f, n) /\ Total(f, n) = s[n]
  BY TotalBySums
<1>2. PICK u : Sums(u, g, n + 1) /\ Total(g, n + 1) = u[n + 1]
  BY TotalBySums
<1>3. u[n + 1] = u[n] + g[n + 1]
  BY <1>2 DEF Sums
<1>4. u[n] = s[n]
  BY <1>1, <1>2, SumsAgree
<1> QED
  BY <1>1, <1>2, <1>3, <1>4

LEMMA TotalInt ==
  ASSUME NEW f, NEW n \in Nat, \A i \in 1..n : f[i] \in Int
  PROVE  Total(f, n) \in Int
<1> DEFINE G == { k \in Nat : k <= n => Total(f, k) \in Int }
<1>1. 0 \in G
  BY TotalOfNone
<1>2. ASSUME NEW k \in Nat \ {0}, k - 1 \in G
      PROVE  k \in G
  <2>1. k - 1 \in Nat /\ (k - 1) + 1 = k
    BY <1>2
  <2>2. Total(f, (k - 1) + 1) = Total(f, k - 1) + f[(k - 1) + 1]
    BY <2>1, TotalOfNext
  <2> QED
    BY <1>2, <2>1, <2>2
<1>3. G = Nat
  <2> HIDE DEF G
  <2>1. G \in SUBSET Nat
    BY DEF G
  <2> QED
    BY <1>1, <1>2, <2>1, AllNat
<1> QED
  BY <1>3

LEMMA SumInt ==
  ASSUME NEW n \in Nat, NEW S, NEW f, \A i \in 1..n : i \in S => f[i] \in Int
  PROVE  SumOver(S, f, n) \in Int
BY TotalInt DEF SumOver

(* A number that is not in S adds nothing.                                 *)
LEMMA SumPasses ==
  ASSUME NEW n \in Nat, NEW S, n + 1 \notin S, NEW f, NEW g,
         \A i \in 1..n : i \in S => f[i] \in Int /\ g[i] = f[i]
  PROVE  SumOver(S, g, n + 1) = SumOver(S, f, n)
<1> DEFINE a == [i \in 1..n |-> IF i \in S THEN f[i] ELSE 0]
           b == [i \in 1..(n + 1) |-> IF i \in S THEN g[i] ELSE 0]
<1>1. (\A i \in 1..n : a[i] \in Int /\ a[i] = b[i]) /\ b[n + 1] = 0
  OBVIOUS
<1>2. SumOver(S, f, n) = Total(a, n) /\ SumOver(S, g, n + 1) = Total(b, n + 1)
  BY DEF SumOver
<1> HIDE DEF a, b
<1>3. Total(b, n + 1) = Total(a, n) + b[n + 1] /\ Total(a, n) \in Int
  BY <1>1, TotalOfNext, TotalInt
<1> QED
  BY <1>1, <1>2, <1>3

(* A number that joins S adds its value.                                   *)
LEMMA SumTakes ==
  ASSUME NEW n \in Nat, NEW S, NEW f, NEW g, \A i \in 1..n : i \in S => g[i] = f[i]
  PROVE  SumOver(S \cup {n + 1}, g, n + 1) = SumOver(S, f, n) + g[n + 1]
<1> DEFINE a == [i \in 1..n |-> IF i \in S THEN f[i] ELSE 0]
           b == [i \in 1..(n + 1) |-> IF i \in S \cup {n + 1} THEN g[i] ELSE 0]
<1>1. (\A i \in 1..n : a[i] = b[i]) /\ b[n + 1] = g[n + 1]
  OBVIOUS
<1>2. SumOver(S, f, n) = Total(a, n) /\ SumOver(S \cup {n + 1}, g, n + 1) = Total(b, n + 1)
  BY DEF SumOver
<1> HIDE DEF a, b
<1>3. Total(b, n + 1) = Total(a, n) + b[n + 1]
  BY <1>1, TotalOfNext
<1> QED
  BY <1>1, <1>2, <1>3

LEMMA SumOfNone ==
  ASSUME NEW n \in Nat, NEW f, NEW S, S \cap 1..n = {}
  PROVE  SumOver(S, f, n) = 0
<1> DEFINE a == [i \in 1..n |-> IF i \in S THEN f[i] ELSE 0]
           G == { k \in Nat : k <= n => Total(a, k) = 0 }
<1>1. \A i \in 1..n : a[i] = 0
  OBVIOUS
<1>2. SumOver(S, f, n) = Total(a, n)
  BY DEF SumOver
<1> HIDE DEF a
<1>3. 0 \in G
  BY TotalOfNone
<1>4. ASSUME NEW k \in Nat \ {0}, k - 1 \in G
      PROVE  k \in G
  <2>1. k - 1 \in Nat /\ (k - 1) + 1 = k
    BY <1>4
  <2>2. Total(a, (k - 1) + 1) = Total(a, k - 1) + a[(k - 1) + 1]
    BY <2>1, TotalOfNext
  <2> QED
    BY <1>1, <1>4, <2>1, <2>2
<1>5. G = Nat
  <2> HIDE DEF G
  <2>1. G \in SUBSET Nat
    BY DEF G
  <2> QED
    BY <1>3, <1>4, <2>1, AllNat
<1> QED
  BY <1>2, <1>5
-----------------------------------------------------------------------------
(* Quantities and the entries they come from.                              *)

LEMMA EntriesNumbered ==
  ASSUME TypeOK, NEW p \in PositionIds
  PROVE  /\ Len(ledger) \in Nat
         /\ EntriesOf(p) \subseteq 1..Len(ledger)
         /\ \A i \in 1..Len(ledger) : ledger[i] \in Entries
BY DEF TypeOK, EntriesOf

(* A commit enters one entry, of its position.                             *)
LEMMA CommitAppends ==
  ASSUME TypeOK, TransactionsExclude, NEW t \in Threads, Commits(t)
  PROVE  /\ Len(ledger) \in Nat /\ Len(ledger') = Len(ledger) + 1
         /\ \A i \in 1..Len(ledger) : ledger[i] \in Entries /\ ledger'[i] = ledger[i]
         /\ ledger'[Len(ledger) + 1] = LedgerEntry(req[t], pos[t])
         /\ \A p \in PositionIds :
              /\ EntriesOf(p) \subseteq 1..Len(ledger)
              /\ EntriesOf(p)' = IF p = pos[t] THEN EntriesOf(p) \cup {Len(ledger) + 1}
                                               ELSE EntriesOf(p)
<1>1. /\ Post(t) /\ pos[t] \in PositionIds
      /\ req[t].event_type \in ALLOWED_EVENT_TYPES
      /\ req[t] \in LedgerImportParams
  BY CommitIsPost
<1>2. /\ Len(ledger) \in Nat /\ Len(ledger') = Len(ledger) + 1
      /\ \A i \in 1..Len(ledger) : ledger[i] \in Entries /\ ledger'[i] = ledger[i]
      /\ ledger'[Len(ledger) + 1] = LedgerEntry(req[t], pos[t])
  BY <1>1, PostEffect DEF TypeOK
<1>3. ledger'[Len(ledger) + 1].position_id = pos[t]
  BY <1>1, <1>2, LedgerEntryType
<1>4. ASSUME NEW p \in PositionIds
      PROVE  /\ EntriesOf(p) \subseteq 1..Len(ledger)
             /\ EntriesOf(p)' = IF p = pos[t] THEN EntriesOf(p) \cup {Len(ledger) + 1}
                                              ELSE EntriesOf(p)
  <2>1. 1..(Len(ledger) + 1) = 1..Len(ledger) \cup {Len(ledger) + 1}
    BY <1>2
  <2>2. /\ EntriesOf(p) = { i \in 1..Len(ledger) : ledger[i].position_id = p }
        /\ EntriesOf(p)' = { i \in 1..(Len(ledger) + 1) : ledger'[i].position_id = p }
    BY <1>2 DEF EntriesOf
  <2> QED
    BY <1>2, <1>3, <2>1, <2>2
<1> QED
  BY <1>2, <1>4

(* The sums of old entries stay, and the new one adds its quantity.        *)
LEMMA DeltaMoves ==
  ASSUME TypeOK, TransactionsExclude, NEW t \in Threads, Commits(t),
         NEW S \in SUBSET (1..Len(ledger))
  PROVE  /\ DeltaOf(S) \in Int
         /\ SumOver(S, Deltas', Len(ledger')) = DeltaOf(S)
         /\ SumOver(S \cup {Len(ledger) + 1}, Deltas', Len(ledger')) =
              DeltaOf(S) + LedgerEntry(req[t], pos[t]).quantity_delta
<1>1. /\ Len(ledger) \in Nat /\ Len(ledger') = Len(ledger) + 1
      /\ \A i \in 1..Len(ledger) : ledger[i] \in Entries /\ ledger'[i] = ledger[i]
      /\ ledger'[Len(ledger) + 1] = LedgerEntry(req[t], pos[t])
  BY CommitAppends
<1>2. /\ \A i \in 1..Len(ledger) : Deltas[i] \in Int /\ Deltas'[i] = Deltas[i]
      /\ Deltas'[Len(ledger) + 1] = LedgerEntry(req[t], pos[t]).quantity_delta
  BY <1>1 DEF Deltas, Entries
<1>3. Len(ledger) + 1 \notin S
  BY <1>1
<1>4. DeltaOf(S) = SumOver(S, Deltas, Len(ledger))
  BY DEF DeltaOf
<1>5. DeltaOf(S) \in Int
  BY <1>1, <1>2, <1>4, SumInt
<1>6. SumOver(S, Deltas', Len(ledger) + 1) = SumOver(S, Deltas, Len(ledger))
  BY <1>1, <1>2, <1>3, SumPasses
<1>7. SumOver(S \cup {Len(ledger) + 1}, Deltas', Len(ledger) + 1)
        = SumOver(S, Deltas, Len(ledger)) + Deltas'[Len(ledger) + 1]
  BY <1>1, <1>2, SumTakes
<1> QED
  BY <1>1, <1>2, <1>4, <1>5, <1>6, <1>7

(* What carries QuantityFromOwnEntries: a row a thread has read is made of *)
(* entries of its position too.                                            *)
OwnEntriesOnly ==
  /\ QuantityFromOwnEntries
  /\ \A t \in Threads : pc[t] \in {"update", "ledger", "commit"} =>
       \E S \in SUBSET EntriesOf(pos[t]) : row[t].quantity = DeltaOf(S)

(* What a commit makes of the quantity and of the sum of its position.     *)
LEMMA CommitAdds ==
  ASSUME WholeSteps, TypeOK, TransactionsExclude, TablesOnGrid,
         NEW t \in Threads, Commits(t)
  PROVE  /\ LedgerEntry(req[t], pos[t]).quantity_delta = req[t].quantity_delta
         /\ req[t].quantity_delta \in Int /\ row[t].quantity \in Int
         /\ \A p \in PositionIds :
              /\ positions'[p] = IF p = pos[t] THEN Updated(row[t], req[t]) ELSE positions[p]
              /\ ledgerSum'[p] = ledgerSum[p] + IF p = pos[t] THEN req[t].quantity_delta ELSE 0
         /\ Updated(row[t], req[t]).quantity = row[t].quantity + req[t].quantity_delta
<1> DEFINE d == req[t].quantity_delta
           e == LedgerEntry(req[t], pos[t])
<1>1. /\ pc[t] = "commit" /\ Post(t) /\ req[t] \in Requests
      /\ req[t] \in LedgerImportParams /\ req[t].event_type \in ALLOWED_EVENT_TYPES
      /\ pos[t] \in PositionIds /\ row[t] \in Rows
  BY CommitIsPost
<1>2. d \in Int /\ d % Ulp = 0 /\ row[t].quantity \in Int /\ row[t].quantity % Ulp = 0
  BY <1>1 DEF WholeSteps, LedgerImportParams, Rows, TablesOnGrid
<1>3. Updated(row[t], req[t]).quantity = row[t].quantity + d
  <2>1. Updated(row[t], req[t]).quantity = ToColumn(row[t].quantity + d)
    BY <1>1, UpdatedType
  <2>2. (row[t].quantity + d) % Ulp = 0
    BY <1>2, GridSum
  <2> QED
    BY <2>1, <2>2 DEF ToColumn
<1>4. e.quantity_delta = d
  <2>1. e.quantity_delta = ToColumn(d)
    BY <1>1, LedgerEntryType
  <2> QED
    BY <1>2, <2>1 DEF ToColumn
<1> HIDE DEF d, e
<1>5. /\ positions' = [positions EXCEPT ![pos[t]] = Updated(row[t], req[t])]
      /\ ledgerSum' = [ledgerSum EXCEPT ![pos[t]] = @ + e.quantity_delta]
  BY <1>1 DEF Post, e
<1>6. \A p \in PositionIds :
        /\ positions'[p] = IF p = pos[t] THEN Updated(row[t], req[t]) ELSE positions[p]
        /\ ledgerSum'[p] = ledgerSum[p] + IF p = pos[t] THEN d ELSE 0
  BY <1>1, <1>4, <1>5 DEF TypeOK
<1> QED
  BY <1>2, <1>3, <1>4, <1>6 DEF d, e
LEMMA CommitKeepsOwn ==
  ASSUME WholeSteps, TypeOK, TransactionsExclude, TablesOnGrid, OwnEntriesOnly,
         NEW t \in Threads, Commits(t)
  PROVE  QuantityFromOwnEntries'
<1>1. pc[t] = "commit" /\ pos[t] \in PositionIds
  BY CommitIsPost
<1> DEFINE d == req[t].quantity_delta
           new == Len(ledger) + 1
<1>2. /\ d \in Int
      /\ positions'[pos[t]].quantity = row[t].quantity + d
      /\ ledgerSum'[pos[t]] = ledgerSum[pos[t]] + d
      /\ \A p \in PositionIds \ {pos[t]} :
           positions'[p] = positions[p] /\ ledgerSum'[p] = ledgerSum[p]
  BY <1>1, CommitAdds DEF TypeOK
<1>3. \A S \in SUBSET (1..Len(ledger)) :
        /\ DeltaOf(S) \in Int
        /\ SumOver(S, Deltas', Len(ledger')) = DeltaOf(S)
        /\ SumOver(S \cup {new}, Deltas', Len(ledger')) = DeltaOf(S) + d
  BY DeltaMoves, CommitAdds
<1>4. SUFFICES ASSUME NEW p \in PositionIds
               PROVE  /\ ledgerSum'[p] = SumOver(EntriesOf(p)', Deltas', Len(ledger'))
                      /\ Exists(positions', p) =>
                           \E S \in SUBSET EntriesOf(p)' :
                             /\ S # {} /\ LastOf(p)' \in S
                             /\ positions'[p].quantity = SumOver(S, Deltas', Len(ledger'))
  BY DEF QuantityFromOwnEntries, DeltaOf
<1>5. EntriesOf(p) \in SUBSET (1..Len(ledger)) /\ Len(ledger) \in Nat
  BY CommitAppends
<1>6. ledgerSum[p] = DeltaOf(EntriesOf(p))
  BY DEF OwnEntriesOnly, QuantityFromOwnEntries
<1>7. CASE p = pos[t]
  <2>1. EntriesOf(p)' = EntriesOf(p) \cup {new}
    BY <1>7, CommitAppends
  <2>2. ledgerSum'[p] = SumOver(EntriesOf(p)', Deltas', Len(ledger'))
    BY <1>2, <1>3, <1>5, <1>6, <1>7, <2>1
  <2>3. PICK S \in SUBSET EntriesOf(p) : row[t].quantity = DeltaOf(S)
    BY <1>1, <1>7 DEF OwnEntriesOnly
  <2>4. /\ S \in SUBSET (1..Len(ledger))
        /\ S \cup {new} \in SUBSET EntriesOf(p)'
        /\ S \cup {new} # {}
    BY <1>5, <2>1
  <2>5. positions'[p].quantity = SumOver(S \cup {new}, Deltas', Len(ledger'))
    BY <1>2, <1>3, <1>7, <2>3, <2>4
  <2>6. LastOf(p)' = new
    <3>1. /\ new \in EntriesOf(p)' /\ \A j \in EntriesOf(p)' : j <= new
          /\ \A i \in EntriesOf(p)' : new <= i => i = new
      BY <1>5, <2>1
    <3>2. LastOf(p)' = CHOOSE i \in EntriesOf(p)' : \A j \in EntriesOf(p)' : j <= i
      BY DEF LastOf
    <3> QED
      BY <3>1, <3>2
  <2> QED
    BY <2>2, <2>4, <2>5, <2>6
<1>8. CASE p # pos[t]
  <2>1. EntriesOf(p)' = EntriesOf(p)
    BY <1>8, CommitAppends
  <2>2. LastOf(p)' = LastOf(p)
    BY <2>1 DEF LastOf
  <2>3. positions'[p] = positions[p] /\ ledgerSum'[p] = ledgerSum[p]
    BY <1>2, <1>8
  <2>4. ASSUME Exists(positions', p)
        PROVE  \E S \in SUBSET EntriesOf(p)' :
                 /\ S # {} /\ LastOf(p)' \in S
                 /\ positions'[p].quantity = SumOver(S, Deltas', Len(ledger'))
    <3>1. Exists(positions, p)
      BY <2>3, <2>4 DEF Exists
    <3>2. PICK S \in SUBSET EntriesOf(p) :
            S # {} /\ LastOf(p) \in S /\ positions[p].quantity = DeltaOf(S)
      BY <3>1 DEF OwnEntriesOnly, QuantityFromOwnEntries
    <3> QED
      BY <1>3, <1>5, <2>1, <2>2, <2>3, <3>2
  <2> QED
    BY <1>3, <1>5, <1>6, <2>1, <2>3, <2>4
<1> QED
  BY <1>7, <1>8
(* Where the row of a thread that has a position comes from.               *)
HasRow(t) == pc[t] \in {"update", "ledger", "commit"}

LEMMA RowsAreRead ==
  ASSUME TypeOK, [Next]_vars, NEW t \in Threads, HasRow(t)'
  PROVE  \/ HasRow(t) /\ row'[t] = row[t] /\ pos'[t] = pos[t]
         \/ row'[t] = NewRow
         \/ /\ Exists(positions, pos'[t]) /\ row'[t] = positions[pos'[t]]
            /\ pos'[t] \in PositionIds
<1> USE DEF HasRow
<1>1. CASE pc'[t] = pc[t] /\ row'[t] = row[t] /\ pos'[t] = pos[t]
  BY <1>1
<1>2. ASSUME NEW u \in Threads, u # t,
             \/ \E r \in Requests : Receive(u, r) \/ RejectEventType(u, r)
             \/ Step(u) \/ Abort(u)
      PROVE  pc'[t] = pc[t] /\ row'[t] = row[t] /\ pos'[t] = pos[t]
  BY <1>2 DEF Step, Receive, RejectEventType, ResolvePortfolio, RejectPortfolio,
              PassIdempotency, ReplyDuplicate, FindPosition, FindNoPosition, InsertPosition,
              InsertPositionFails, UpdatePosition, UpdatePositionOverflows, InsertLedger,
              InsertLedgerFails, Commit, CommitUnacknowledged, Abort, End, Answer, GoTo, TypeOK
<1>3. CASE \E r \in Requests : Receive(t, r) \/ RejectEventType(t, r)
  BY <1>3 DEF Receive, RejectEventType, End, Answer, GoTo, TypeOK
<1>4. CASE FindPosition(t)
  BY <1>4 DEF FindPosition, Matching, TypeOK
<1>5. CASE InsertPosition(t)
  BY <1>5 DEF InsertPosition, TypeOK
<1>6. CASE \/ ResolvePortfolio(t) \/ PassIdempotency(t) \/ FindNoPosition(t)
           \/ UpdatePosition(t) \/ InsertLedger(t)
  BY <1>6 DEF ResolvePortfolio, PassIdempotency, FindNoPosition, UpdatePosition,
              InsertLedger, GoTo, TypeOK
<1>7. CASE \/ RejectPortfolio(t) \/ ReplyDuplicate(t) \/ InsertPositionFails(t)
           \/ UpdatePositionOverflows(t) \/ InsertLedgerFails(t)
           \/ Commit(t) \/ CommitUnacknowledged(t) \/ Abort(t)
  BY <1>7 DEF RejectPortfolio, ReplyDuplicate, InsertPositionFails, UpdatePositionOverflows,
              InsertLedgerFails, Commit, CommitUnacknowledged, Abort, End, Answer, GoTo, TypeOK
<1>8. CASE UNCHANGED vars \/ \E name \in Portfolios : CreatePortfolio(name)
  BY <1>1, <1>8 DEF vars, CreatePortfolio, locals
<1> QED
  BY <1>1, <1>2, <1>3, <1>4, <1>5, <1>6, <1>7, <1>8 DEF Next, Step

LEMMA NoneAddsNothing ==
  ASSUME TypeOK
  PROVE  DeltaOf({}) = 0
BY SumOfNone DEF DeltaOf, TypeOK

LEMMA OwnStep ==
  ASSUME WholeSteps, TypeOK, TypeOK', TransactionsExclude, TablesOnGrid, OwnEntriesOnly,
         [Next]_vars
  PROVE  OwnEntriesOnly'
(* The sums of old entries stay. *)
<1>1. /\ \A S \in SUBSET (1..Len(ledger)) :
           SumOver(S, Deltas', Len(ledger')) = DeltaOf(S)
      /\ \A p \in PositionIds : EntriesOf(p) \subseteq EntriesOf(p)'
      /\ QuantityFromOwnEntries'
  <2>1. CASE UNCHANGED <<positions, ledger, ledgerSum>>
    <3>1. \A p \in PositionIds : EntriesOf(p)' = EntriesOf(p) /\ LastOf(p)' = LastOf(p)
      BY <2>1 DEF EntriesOf, LastOf
    <3>2. Deltas' = Deltas
      BY <2>1 DEF Deltas
    <3> QED
      BY <2>1, <3>1, <3>2 DEF OwnEntriesOnly, QuantityFromOwnEntries, DeltaOf, Exists
  <2>2. ASSUME NEW t \in Threads, Commits(t)
        PROVE  /\ \A S \in SUBSET (1..Len(ledger)) :
                    SumOver(S, Deltas', Len(ledger')) = DeltaOf(S)
               /\ \A p \in PositionIds : EntriesOf(p) \subseteq EntriesOf(p)'
               /\ QuantityFromOwnEntries'
    BY <2>2, CommitAppends, DeltaMoves, CommitKeepsOwn
  <2> QED
    BY <2>1, <2>2, OnlyCommitsWrite
<1>2. ASSUME NEW t \in Threads, HasRow(t)'
      PROVE  \E S \in SUBSET (EntriesOf(pos[t])') :
               row'[t].quantity = SumOver(S, Deltas', Len(ledger'))
  <2>1. PICK q \in PositionIds : pos'[t] = q
    BY DEF TypeOK
  <2>2. \E S \in SUBSET EntriesOf(q) : row'[t].quantity = DeltaOf(S)
    <3>1. CASE HasRow(t) /\ row'[t] = row[t] /\ pos'[t] = pos[t]
      BY <2>1, <3>1 DEF OwnEntriesOnly, HasRow
    <3>2. CASE row'[t] = NewRow
      BY <3>2, NoneAddsNothing DEF NewRow
    <3>3. CASE Exists(positions, q) /\ row'[t] = positions[q]
      BY <2>1, <3>3 DEF OwnEntriesOnly, QuantityFromOwnEntries
    <3> QED
      BY <1>2, <2>1, <3>1, <3>2, <3>3, RowsAreRead
  <2>3. EntriesOf(pos[t])' = EntriesOf(q)'
    BY <2>1 DEF EntriesOf
  <2> QED
    BY <1>1, <2>2, <2>3, EntriesNumbered
<1> QED
  BY <1>1, <1>2 DEF OwnEntriesOnly, DeltaOf, HasRow

LEMMA OwnEntries ==
  ASSUME WholeSteps
  PROVE  Spec => []OwnEntriesOnly
<1>1. Init => OwnEntriesOnly
  <2>1. ASSUME Init, NEW p \in PositionIds
        PROVE  DeltaOf(EntriesOf(p)) = 0
    <3>1. Len(ledger) = 0 /\ EntriesOf(p) \cap 1..0 = {}
      BY <2>1 DEF Init
    <3> QED
      BY <3>1, SumOfNone DEF DeltaOf
  <2> QED
    BY <2>1 DEF Init, OwnEntriesOnly, QuantityFromOwnEntries, NoRow, Exists
<1>2. /\ TypeOK /\ TypeOK' /\ TransactionsExclude /\ TablesOnGrid /\ OwnEntriesOnly
      /\ [Next]_vars
      => OwnEntriesOnly'
  BY OwnStep
<1> QED
  BY <1>1, <1>2, TypeCorrect, Exclusion, Grid, PTL DEF Spec

(***************************************************************************)
(* Whatever imports of one position overlap, and whatever they lose, its   *)
(* quantity is what some of its own entries add up to, the last one among  *)
(* them; and ledgerSum is what all of them add up to (ledger.py:152-180).  *)
(* For quantities a column holds exactly.                                  *)
(***************************************************************************)
THEOREM LossesAreOwnEntries ==
  ASSUME WholeSteps
  PROVE  Spec => []QuantityFromOwnEntries
<1>1. OwnEntriesOnly => QuantityFromOwnEntries
  BY DEF OwnEntriesOnly
<1> QED
  BY <1>1, OwnEntries, PTL
-----------------------------------------------------------------------------
(* One thread: the history of a position.                                  *)

SerialBooks ==
  /\ TypeOK /\ TransactionsExclude /\ TablesOnGrid
  /\ ReadIsCurrent /\ QuantityMatchesLedger
  /\ OwnEntriesOnly /\ RowsSound

LEMMA BooksKept ==
  ASSUME OneThread, WholeSteps
  PROVE  Spec => []SerialBooks
BY TypeCorrect, Exclusion, Grid, SerialReads, SerialQuantities, OwnEntries, SoundRows, PTL
   DEF SerialBooks

(* The average cost is on the grid of its column, there is nothing in a    *)
(* row that is not there, and a history that never was short is not now.   *)
HistorySound(p) ==
  /\ positions[p].average_cost % Ulp = 0
  /\ ~Exists(positions, p) => positions[p] = NoRow
  /\ NeverShort(p) => positions[p].quantity >= 0

HistoriesSound == \A p \in PositionIds : HistorySound(p)

(* The update an import of r makes of the row of p. *)
Event(p, r) ==
  ApplyLedgerEvent(positions[p].quantity, positions[p].average_cost,
                   r.quantity_delta, r.price, r.fees)

LEMMA SerialCommit ==
  ASSUME WholeSteps, SerialBooks, HistoriesSound, NEW t \in Threads, Commits(t)
  PROVE  LET p == pos[t]
             r == req[t]
         IN  /\ p \in PositionIds /\ r \in LedgerImportParams
             /\ positions[p] \in Rows /\ positions'[p] \in Rows
             /\ positions'[p].quantity = positions[p].quantity + r.quantity_delta
             /\ positions'[p].average_cost = Event(p, r).new_average_cost
             /\ positions'[p].realized_pnl =
                  Quantize(positions[p].realized_pnl * One + Event(p, r).realized_pnl_delta, One)
             /\ Exists(positions', p)
<1> USE DEF SerialBooks
<1>1. /\ pos[t] \in PositionIds /\ req[t] \in LedgerImportParams /\ row[t] \in Rows
      /\ pc[t] = "commit" /\ req[t].event_type \in ALLOWED_EVENT_TYPES /\ Post(t)
  BY CommitIsPost
<1>2. /\ row[t].quantity = positions[pos[t]].quantity
      /\ row[t].average_cost = positions[pos[t]].average_cost
      /\ row[t].realized_pnl = positions[pos[t]].realized_pnl
  <2>1. CASE Exists(positions, pos[t])
    BY <1>1, <2>1 DEF ReadIsCurrent
  <2>2. CASE ~Exists(positions, pos[t])
    <3>1. row[t] = NewRow /\ positions[pos[t]] = NoRow
      BY <1>1, <2>2 DEF TransactionsExclude, PositionResolved, HistoriesSound, HistorySound
    <3> QED
      BY <3>1 DEF NewRow, NoRow
  <2> QED
    BY <2>1, <2>2
<1>3. /\ positions'[pos[t]] = Updated(row[t], req[t])
      /\ Updated(row[t], req[t]).quantity = row[t].quantity + req[t].quantity_delta
  BY <1>1, CommitAdds
<1>4. /\ Updated(row[t], req[t]).average_cost = Event(pos[t], req[t]).new_average_cost
      /\ Updated(row[t], req[t]).realized_pnl =
           Quantize(row[t].realized_pnl * One + Event(pos[t], req[t]).realized_pnl_delta, One)
  BY <1>2 DEF Updated, Event
<1>5. positions[pos[t]] \in Rows /\ positions'[pos[t]] \in Rows /\ Exists(positions', pos[t])
  BY <1>1, <1>3, UpdatedType DEF TypeOK, Exists
<1> QED
  BY <1>1, <1>2, <1>3, <1>4, <1>5

(* A commit continues the history of its position, and no other.           *)
LEMMA HistoryContinues ==
  ASSUME WholeSteps, SerialBooks, HistoriesSound, NEW t \in Threads, Commits(t),
         NEW p \in PositionIds
  PROVE  LET new == Len(ledger) + 1
         IN  /\ Len(ledger) \in Nat /\ EntriesOf(p) \subseteq 1..Len(ledger)
             /\ EntriesOf(p)' = IF p = pos[t] THEN EntriesOf(p) \cup {new} ELSE EntriesOf(p)
             /\ \A i \in EntriesOf(p) :
                  /\ ledger'[i] = ledger[i] /\ ledger[i] \in Entries
                  /\ QuantityAfter(p, i)' = QuantityAfter(p, i)
                  /\ QuantityAfter(p, i) \in Int
             /\ \A i \in Nat : i = new /\ p = pos[t] =>
                  QuantityAfter(p, i)' = positions'[p].quantity
             /\ p # pos[t] => positions'[p] = positions[p]
             /\ NeverShort(p)' => NeverShort(p)
<1> USE DEF SerialBooks
<1> DEFINE new == Len(ledger) + 1
<1>1. /\ Len(ledger) \in Nat /\ EntriesOf(p) \subseteq 1..Len(ledger)
      /\ \A i \in 1..Len(ledger) : ledger[i] \in Entries /\ ledger'[i] = ledger[i]
      /\ EntriesOf(p)' = IF p = pos[t] THEN EntriesOf(p) \cup {new} ELSE EntriesOf(p)
  BY CommitAppends
<1>2. ASSUME NEW i \in EntriesOf(p)
      PROVE  QuantityAfter(p, i)' = QuantityAfter(p, i) /\ QuantityAfter(p, i) \in Int
  <2> DEFINE S == { j \in EntriesOf(p) : j <= i }
  <2>1. S \in SUBSET (1..Len(ledger)) /\ { j \in EntriesOf(p)' : j <= i } = S
    BY <1>1
  <2>2. QuantityAfter(p, i)' = SumOver(S, Deltas', Len(ledger'))
    BY <2>1 DEF QuantityAfter, DeltaOf
  <2>3. QuantityAfter(p, i) = DeltaOf(S)
    BY DEF QuantityAfter
  <2> HIDE DEF S
  <2> QED
    BY <2>1, <2>2, <2>3, DeltaMoves
<1>3. ASSUME NEW i \in Nat, i = new, p = pos[t]
      PROVE  QuantityAfter(p, i)' = positions'[p].quantity
  <2>1. { j \in EntriesOf(p)' : j <= i } = EntriesOf(p) \cup {new}
    BY <1>1, <1>3
  <2>2. QuantityAfter(p, i)' = SumOver({ j \in EntriesOf(p)' : j <= i }, Deltas', Len(ledger'))
    BY DEF QuantityAfter, DeltaOf
  <2>3. SumOver(EntriesOf(p) \cup {new}, Deltas', Len(ledger'))
          = DeltaOf(EntriesOf(p)) + req[t].quantity_delta
    BY <1>1, <1>3, DeltaMoves, CommitAdds
  <2>4. DeltaOf(EntriesOf(p)) = positions[p].quantity
    BY DEF OwnEntriesOnly, QuantityFromOwnEntries, QuantityMatchesLedger
  <2> QED
    BY <1>3, <2>1, <2>2, <2>3, <2>4, SerialCommit
<1>4. p # pos[t] => positions'[p] = positions[p]
  BY CommitAdds
<1>5. NeverShort(p)' => NeverShort(p)
  BY <1>1, <1>2 DEF NeverShort
<1> QED
  BY <1>1, <1>2, <1>3, <1>4, <1>5
LEMMA HistoriesKept ==
  ASSUME OneThread, WholeSteps
  PROVE  Spec => []HistoriesSound
<1>1. Init => HistoriesSound
  BY ZeroOnGrid DEF Init, HistoriesSound, HistorySound, NoRow, Exists
<1>2. SerialBooks /\ HistoriesSound /\ [Next]_vars => HistoriesSound'
  <2> SUFFICES ASSUME SerialBooks, HistoriesSound, [Next]_vars, NEW p \in PositionIds
               PROVE  HistorySound(p)'
    BY DEF HistoriesSound
  <2>1. CASE UNCHANGED <<positions, ledger, ledgerSum>>
    <3>1. EntriesOf(p)' = EntriesOf(p) /\ Deltas' = Deltas
      BY <2>1 DEF EntriesOf, Deltas
    <3>2. NeverShort(p)' = NeverShort(p)
      BY <2>1, <3>1 DEF NeverShort, QuantityAfter, DeltaOf
    <3> QED
      BY <2>1, <3>2 DEF HistoriesSound, HistorySound, Exists
  <2>2. ASSUME NEW t \in Threads, Commits(t)
        PROVE  HistorySound(p)'
    <3>1. CASE p # pos[t]
      <4>1. positions'[p] = positions[p] /\ (NeverShort(p)' => NeverShort(p))
        BY <2>2, <3>1, HistoryContinues
      <4> QED
        BY <4>1 DEF HistoriesSound, HistorySound, Exists
    <3>2. CASE p = pos[t]
      <4> DEFINE r == req[t]
      <4>1. /\ positions[p].quantity \in Int /\ positions[p].average_cost \in Int
            /\ r.quantity_delta \in Int /\ r.price \in Nat \cup {NoPrice} /\ r.fees \in Nat
            /\ positions'[p].average_cost = Event(p, r).new_average_cost
            /\ Exists(positions', p)
        BY <2>2, <3>2, SerialCommit DEF Rows, LedgerImportParams
      <4>2. positions'[p].average_cost % Ulp = 0
        BY <4>1, AverageOnGrid DEF Event, HistoriesSound, HistorySound
      <4>3. PICK new \in Nat : new = Len(ledger) + 1
        BY <2>2, HistoryContinues
      <4>4. new \in EntriesOf(p)' /\ QuantityAfter(p, new)' = positions'[p].quantity
        BY <2>2, <3>2, <4>3, HistoryContinues
      <4>5. NeverShort(p)' => positions'[p].quantity >= 0
        BY <4>4 DEF NeverShort
      <4> QED
        BY <4>1, <4>2, <4>5 DEF HistorySound
    <3> QED
      BY <3>1, <3>2
  <2> QED
    BY <2>1, <2>2, OnlyCommitsWrite DEF SerialBooks
<1> QED
  BY <1>1, <1>2, BooksKept, PTL DEF Spec
-----------------------------------------------------------------------------
(* One thread: the average cost and the prices paid.                       *)

PricePaid(i) == EventPrice(ledger[i].price)

(* The entries whose prices make up the average cost of p.                 *)
Bought(p, i) ==
  /\ i \in EntriesOf(p)
  /\ ledger[i].quantity_delta > 0
  /\ \A k \in EntriesOf(p) : k >= i => QuantityAfter(p, k) > 0

LEMMA PaidForBought ==
  ASSUME NEW p \in PositionIds
  PROVE  \A x : x \in PaidFor(p) <=> \E i \in EntriesOf(p) : Bought(p, i) /\ x = PricePaid(i)
BY DEF PaidFor, Bought, PricePaid, EventPrice

LEMMA PaidIsNumber ==
  ASSUME TypeOK, NEW p \in PositionIds, NEW x \in PaidFor(p)
  PROVE  x \in Int
BY EntriesNumbered, PaidForBought DEF PricePaid, EventPrice, Entries

LEMMA PaidStays ==
  ASSUME WholeSteps, SerialBooks, HistoriesSound, NEW t \in Threads, Commits(t),
         NEW p \in PositionIds, p = pos[t] => positions'[p].quantity > 0,
         NEW x \in PaidFor(p)
  PROVE  x \in PaidFor(p)'
<1>1. PICK i \in EntriesOf(p) : Bought(p, i) /\ x = PricePaid(i)
  BY PaidForBought
<1>2. i \in EntriesOf(p)' /\ ledger'[i] = ledger[i]
  BY HistoryContinues
<1>3. ASSUME NEW k \in EntriesOf(p)', k >= i
      PROVE  QuantityAfter(p, k)' > 0
  <2>1. CASE k \in EntriesOf(p)
    BY <1>1, <1>3, <2>1, HistoryContinues DEF Bought
  <2>2. CASE k \notin EntriesOf(p)
    <3>1. p = pos[t] /\ k \in Nat /\ k = Len(ledger) + 1
      BY <1>3, <2>2, HistoryContinues
    <3> QED
      BY <3>1, HistoryContinues
  <2> QED
    BY <2>1, <2>2
<1>4. Bought(p, i)' /\ x = PricePaid(i)'
  BY <1>1, <1>2, <1>3 DEF Bought, PricePaid
<1> QED
  BY <1>2, <1>4, PaidForBought DEF PaidFor, Bought, PricePaid, EventPrice

(* The price of a buy is one of those paid. *)
LEMMA BuyIsPaidFor ==
  ASSUME WholeSteps, SerialBooks, HistoriesSound, NEW t \in Threads, Commits(t),
         positions'[pos[t]].quantity > 0, req[t].quantity_delta > 0,
         NEW p, p = pos[t]
  PROVE  ToColumn(EventPrice(req[t].price)) \in PaidFor(p)'
<1>1. /\ p \in PositionIds /\ req[t] \in LedgerImportParams
      /\ req[t].event_type \in ALLOWED_EVENT_TYPES
  BY CommitIsPost DEF SerialBooks
<1>2. PICK new \in Nat : new = Len(ledger) + 1
  BY <1>1, HistoryContinues
<1>3. /\ new \in EntriesOf(p)' /\ QuantityAfter(p, new)' > 0
      /\ \A k \in EntriesOf(p)' : k >= new => k = new
  BY <1>1, <1>2, HistoryContinues
<1>4. ledger'[new] = LedgerEntry(req[t], pos[t])
  BY <1>2, CommitAppends DEF SerialBooks
<1>5. /\ ledger'[new].quantity_delta = req[t].quantity_delta
      /\ ledger'[new].price = IF req[t].price = NoPrice THEN NoPrice ELSE ToColumn(req[t].price)
  BY <1>4, CommitAdds DEF SerialBooks, LedgerEntry
<1>6. EventPrice(ledger'[new].price) = ToColumn(EventPrice(req[t].price))
  <2>1. CASE req[t].price = NoPrice
    BY <1>5, <2>1, ZeroOnGrid DEF EventPrice, ToColumn
  <2>2. CASE req[t].price # NoPrice
    <3>1. req[t].price \in Nat
      BY <1>1, <2>2 DEF LedgerImportParams
    <3>2. ToColumn(req[t].price) \in Nat
      BY <3>1, ToColumnNear
    <3> QED
      BY <1>5, <2>2, <3>2 DEF EventPrice, NoPrice
  <2> QED
    BY <2>1, <2>2
<1>7. Bought(p, new)' /\ PricePaid(new)' = ToColumn(EventPrice(req[t].price))
  BY <1>3, <1>5, <1>6 DEF Bought, PricePaid
<1> QED
  BY <1>3, <1>7 DEF PaidFor, Bought, PricePaid, EventPrice

AverageWithin(p) ==
  NeverShort(p) /\ positions[p].quantity > 0
  => /\ \E x \in PaidFor(p) : x <= positions[p].average_cost
     /\ \E x \in PaidFor(p) : x >= positions[p].average_cost

(* The average cost an import leaves is between the one it found and the   *)
(* price it came with.                                                     *)
LEMMA AverageStep ==
  ASSUME WholeSteps, SerialBooks, HistoriesSound, AverageWithinPricesPaid,
         NEW t \in Threads, Commits(t), NEW p \in PositionIds, p = pos[t],
         NeverShort(p)', positions'[p].quantity > 0
  PROVE  /\ \E x \in PaidFor(p)' : x <= positions'[p].average_cost
         /\ \E x \in PaidFor(p)' : x >= positions'[p].average_cost
<1> DEFINE q == positions[p].quantity
           a == positions[p].average_cost
           d == req[t].quantity_delta
           x == EventPrice(req[t].price)
           c == ToColumn(x)
           b == positions'[p].average_cost
<1>1. /\ q \in Int /\ a \in Int /\ d \in Int /\ b \in Int
      /\ req[t].price \in Nat \cup {NoPrice}
      /\ positions'[p].quantity = q + d
      /\ b = ApplyLedgerEvent(q, a, d, req[t].price, req[t].fees).new_average_cost
  BY SerialCommit DEF Event, Rows, LedgerImportParams
<1>2. x \in Nat /\ c \in Nat /\ c % Ulp = 0
  <2>1. x \in Nat
    BY <1>1, EventPriceNat
  <2> HIDE DEF x
  <2> QED
    BY <2>1, ToColumnNear, ToColumnOnGrid
<1>3. q >= 0 /\ a >= 0 /\ a % Ulp = 0 /\ NeverShort(p)
  BY HistoryContinues DEF HistoriesSound, HistorySound, SerialBooks, RowsSound, CostOK
<1>4. b = IF d > 0 THEN Quantize(q * a + d * x, q + d) ELSE a
  BY <1>1, AverageAfter
<1>5. q > 0 => /\ \E y \in PaidFor(p) : y <= a
               /\ \E y \in PaidFor(p) : y >= a
  BY <1>3 DEF AverageWithinPricesPaid
<1>6. \A y \in PaidFor(p) : y \in PaidFor(p)' /\ y \in Int
  BY PaidStays, PaidIsNumber DEF SerialBooks
<1>7. d > 0 => c \in PaidFor(p)'
  BY BuyIsPaidFor
<1> HIDE DEF q, a, d, x, c, b
<1>8. CASE d > 0
  <2>1. d \in Nat /\ q \in Nat /\ a \in Nat /\ x \in Nat
    BY <1>1, <1>2, <1>3, <1>8
  <2> DEFINE high == IF q > 0 /\ a > c THEN a ELSE c
             low  == IF q > 0 /\ a < c THEN a ELSE c
  <2>2. /\ high \in Int /\ high % Ulp = 0 /\ c <= high /\ (q = 0 \/ a <= high)
        /\ low \in Int /\ low % Ulp = 0 /\ c >= low /\ (q = 0 \/ a >= low)
    BY <1>2, <1>3, <2>1
  <2>3. b <= high
    <3> HIDE DEF high, low
    <3>1. ToColumn(x) <= high
      BY <2>2 DEF c
    <3>2. Quantize(q * a + d * x, q + d) <= high
      BY <1>8, <2>1, <2>2, <3>1, AverageBelow
    <3> QED
      BY <1>4, <1>8, <3>2
  <2>4. b >= low
    <3> HIDE DEF high, low
    <3>1. ToColumn(x) >= low
      BY <2>2 DEF c
    <3>2. Quantize(q * a + d * x, q + d) >= low
      BY <1>8, <2>1, <2>2, <3>1, AverageAbove
    <3> QED
      BY <1>4, <1>8, <3>2
  <2>5. \E y \in PaidFor(p)' : y \in Int /\ y >= high
    BY <1>1, <1>2, <1>5, <1>6, <1>7, <1>8
  <2>6. \E y \in PaidFor(p)' : y \in Int /\ y <= low
    BY <1>1, <1>2, <1>5, <1>6, <1>7, <1>8
  <2> HIDE DEF high, low
  <2> QED
    BY <1>1, <2>2, <2>3, <2>4, <2>5, <2>6 DEF b
<1>9. CASE ~(d > 0)
  <2>1. q > 0 /\ b = a
    BY <1>1, <1>4, <1>9
  <2> QED
    BY <1>5, <1>6, <2>1 DEF b
<1> QED
  BY <1>8, <1>9

(***************************************************************************)
(* With one thread, and quantities a column holds exactly, the average     *)
(* cost of a long position that was never short lies between the lowest    *)
(* and the highest price paid since it was last flat, rounding included    *)
(* (accounting.py:71-79).                                                  *)
(***************************************************************************)
THEOREM AverageIsWithin ==
  ASSUME OneThread, WholeSteps
  PROVE  Spec => []AverageWithinPricesPaid
<1>1. Init => AverageWithinPricesPaid
  BY DEF Init, AverageWithinPricesPaid, NoRow
<1>2. SerialBooks /\ HistoriesSound /\ AverageWithinPricesPaid /\ [Next]_vars
        => AverageWithinPricesPaid'
  <2> SUFFICES ASSUME SerialBooks, HistoriesSound, AverageWithinPricesPaid, [Next]_vars,
                      NEW p \in PositionIds
               PROVE  AverageWithin(p)'
    BY DEF AverageWithinPricesPaid, AverageWithin
  <2>1. CASE UNCHANGED <<positions, ledger, ledgerSum>>
    <3>1. EntriesOf(p)' = EntriesOf(p) /\ Deltas' = Deltas
      BY <2>1 DEF EntriesOf, Deltas
    <3>2. \A k : QuantityAfter(p, k)' = QuantityAfter(p, k)
      BY <2>1, <3>1 DEF QuantityAfter, DeltaOf
    <3>3. (NeverShort(p)' <=> NeverShort(p)) /\ PaidFor(p)' = PaidFor(p)
      BY <2>1, <3>1, <3>2 DEF NeverShort, PaidFor
    <3> QED
      BY <2>1, <3>3 DEF AverageWithinPricesPaid, AverageWithin
  <2>2. ASSUME NEW t \in Threads, Commits(t)
        PROVE  AverageWithin(p)'
    <3>1. CASE p = pos[t]
      BY <2>2, <3>1, AverageStep DEF AverageWithin
    <3>2. CASE p # pos[t]
      <4>1. positions'[p] = positions[p] /\ (NeverShort(p)' => NeverShort(p))
        BY <2>2, <3>2, HistoryContinues
      <4>2. \A y \in PaidFor(p) : y \in PaidFor(p)'
        BY <2>2, <3>2, PaidStays
      <4> QED
        BY <4>1, <4>2 DEF AverageWithinPricesPaid, AverageWithin
    <3> QED
      BY <3>1, <3>2
  <2> QED
    BY <2>1, <2>2, OnlyCommitsWrite DEF SerialBooks
<1> QED
  BY <1>1, <1>2, BooksKept, HistoriesKept, PTL DEF Spec
-----------------------------------------------------------------------------
(* One thread: money.                                                      *)

(* What a column holds exactly: quantities, prices and fees. *)
WholeAmounts ==
  \A r \in Requests : /\ r.quantity_delta % Ulp = 0
                      /\ r.price = NoPrice \/ r.price % Ulp = 0
                      /\ r.fees % Ulp = 0

(* A history that MoneyIsConserved speaks of. *)
Accountable(p) ==
  NeverShort(p) /\ \A i \in EntriesOf(p) : Priced(ledger[i])

(* What the realized_pnl of p has that its entries do not account for. *)
Imbalance(p) ==
  positions[p].realized_pnl * One - CashOf(p)
    - positions[p].quantity * positions[p].average_cost

LEMMA CashInt ==
  ASSUME NEW e \in Entries
  PROVE  Cash(e) \in Int
<1>1. /\ e.quantity_delta \in Int /\ e.price \in Int /\ e.fees \in Int /\ One \in Int
  BY ScaleAssumption DEF Entries
<1>2. e.quantity_delta * e.price \in Int /\ e.fees * One \in Int
  BY <1>1
<1> QED
  BY <1>2 DEF Cash

(* The sums of a position move with its entries. *)
LEMMA MoneyMoves ==
  ASSUME WholeSteps, SerialBooks, HistoriesSound, NEW t \in Threads, Commits(t),
         NEW p \in PositionIds
  PROVE  /\ CashOf(p) \in Int
         /\ CashOf(p)' = CashOf(p) + IF p = pos[t] THEN Cash(LedgerEntry(req[t], pos[t])) ELSE 0
         /\ SumOver(EntriesOf(p), Roundings(p), Len(ledger)) \in Int
         /\ SumOver(EntriesOf(p), Roundings(p), Len(ledger))' =
              SumOver(EntriesOf(p), Roundings(p), Len(ledger))
                + IF p = pos[t] THEN One + positions'[p].quantity ELSE 0
<1> DEFINE n == Len(ledger)
           E == EntriesOf(p)
<1>1. /\ n \in Nat /\ Len(ledger') = n + 1 /\ E \subseteq 1..n
      /\ \A i \in 1..n : ledger[i] \in Entries /\ ledger'[i] = ledger[i]
      /\ ledger'[n + 1] = LedgerEntry(req[t], pos[t])
      /\ EntriesOf(p)' = IF p = pos[t] THEN E \cup {n + 1} ELSE E
  BY CommitAppends DEF SerialBooks
<1>2. /\ \A i \in 1..n : Cashes[i] \in Int /\ Cashes'[i] = Cashes[i]
      /\ Cashes'[n + 1] = Cash(LedgerEntry(req[t], pos[t]))
  BY <1>1, CashInt DEF Cashes
<1>3. /\ \A i \in 1..n : i \in E => Roundings(p)[i] \in Int /\ Roundings(p)'[i] = Roundings(p)[i]
      /\ p = pos[t] => Roundings(p)'[n + 1] = One + positions'[p].quantity
  <2>1. ASSUME NEW i \in 1..n, i \in E
        PROVE  Roundings(p)[i] \in Int /\ Roundings(p)'[i] = Roundings(p)[i]
    <3>1. QuantityAfter(p, i) \in Int /\ QuantityAfter(p, i)' = QuantityAfter(p, i)
      BY <2>1, HistoryContinues
    <3>2. i \in 1..(n + 1)
      BY <1>1, <2>1
    <3> QED
      BY <1>1, <2>1, <3>1, <3>2, ScaleAssumption DEF Roundings
  <2>2. ASSUME p = pos[t]
        PROVE  Roundings(p)'[n + 1] = One + positions'[p].quantity
    <3>1. PICK i \in Nat : i = n + 1
      BY <1>1
    <3>2. QuantityAfter(p, i)' = positions'[p].quantity
      BY <2>2, <3>1, HistoryContinues
    <3>3. i \in 1..Len(ledger')
      BY <1>1, <3>1
    <3>4. Roundings(p)'[i] = One + QuantityAfter(p, i)'
      BY <3>3 DEF Roundings
    <3> QED
      BY <3>1, <3>2, <3>4
  <2> QED
    BY <2>1, <2>2
<1>4. /\ CashOf(p) = SumOver(E, Cashes, n)
      /\ CashOf(p)' = SumOver(EntriesOf(p)', Cashes', Len(ledger'))
  BY DEF CashOf
<1> HIDE DEF n, E
<1>5. /\ SumOver(E, Cashes, n) \in Int
      /\ SumOver(E, Roundings(p), n) \in Int
  BY <1>1, <1>2, <1>3, SumInt
<1>6. CASE p = pos[t]
  <2>1. SumOver(E \cup {n + 1}, Cashes', n + 1) = SumOver(E, Cashes, n) + Cashes'[n + 1]
    BY <1>1, <1>2, SumTakes
  <2>2. SumOver(E \cup {n + 1}, Roundings(p)', n + 1)
          = SumOver(E, Roundings(p), n) + Roundings(p)'[n + 1]
    BY <1>1, <1>3, SumTakes
  <2> QED
    BY <1>1, <1>2, <1>3, <1>4, <1>5, <1>6, <2>1, <2>2 DEF n, E
<1>7. CASE p # pos[t]
  <2>1. n + 1 \notin E
    BY <1>1
  <2>2. /\ SumOver(E, Cashes', n + 1) = SumOver(E, Cashes, n)
        /\ SumOver(E, Roundings(p)', n + 1) = SumOver(E, Roundings(p), n)
    BY <1>1, <1>2, <1>3, <2>1, SumPasses
  <2> QED
    BY <1>1, <1>4, <1>5, <1>7, <2>2 DEF n, E
<1> QED
  BY <1>6, <1>7
(* Half a step for each rounding of the history. *)
Conserved(p) ==
  Accountable(p) => 2 * Imbalance(p) <= RoundingOf(p) /\ -RoundingOf(p) <= 2 * Imbalance(p)

LEMMA MoneyTypes ==
  ASSUME WholeSteps, SerialBooks, NEW p \in PositionIds, CashOf(p) \in Int,
         SumOver(EntriesOf(p), Roundings(p), Len(ledger)) \in Int
  PROVE  Imbalance(p) \in Int /\ RoundingOf(p) \in Int
<1>1. /\ positions[p].realized_pnl \in Int /\ positions[p].quantity \in Int
      /\ positions[p].average_cost \in Int /\ One \in Int /\ Ulp \in Int
  BY ScaleAssumption DEF SerialBooks, TypeOK, Rows
<1>2. /\ positions[p].realized_pnl * One \in Int
      /\ positions[p].quantity * positions[p].average_cost \in Int
      /\ Ulp * SumOver(EntriesOf(p), Roundings(p), Len(ledger)) \in Int
  BY <1>1
<1> QED
  BY <1>2 DEF Imbalance, RoundingOf

(* MoneyStep, on the ledger. *)
LEMMA ConservedStep ==
  ASSUME WholeAmounts, WholeSteps, SerialBooks, HistoriesSound,
         NEW t \in Threads, Commits(t), NEW p \in PositionIds, p = pos[t],
         Conserved(p), Accountable(p)'
  PROVE  /\ 2 * Imbalance(p)' <= RoundingOf(p)'
         /\ -(RoundingOf(p)') <= 2 * Imbalance(p)'
<1> DEFINE q == positions[p].quantity
           a == positions[p].average_cost
           pnl == positions[p].realized_pnl
           r == req[t]
           q2 == positions'[p].quantity
           a2 == positions'[p].average_cost
           pnl2 == positions'[p].realized_pnl
           gain == Event(p, r).realized_pnl_delta
           e == LedgerEntry(r, p)
           sum == SumOver(EntriesOf(p), Roundings(p), Len(ledger))
           cash == -(r.quantity_delta * r.price) - r.fees * One
<1>1. /\ q \in Int /\ a \in Int /\ pnl \in Int
      /\ r.quantity_delta \in Int /\ r.price \in Nat \cup {NoPrice} /\ r.fees \in Nat
      /\ q2 = q + r.quantity_delta
      /\ a2 = Event(p, r).new_average_cost
      /\ pnl2 = Quantize(pnl * One + gain, One)
  BY SerialCommit DEF Rows, LedgerImportParams
<1>2. PICK new \in Nat : new = Len(ledger) + 1
  BY HistoryContinues
<1>3. /\ new \in EntriesOf(p)' /\ ledger'[new] = e
      /\ QuantityAfter(p, new)' = q2
      /\ \A i \in EntriesOf(p) : i \in EntriesOf(p)' /\ ledger'[i] = ledger[i]
  <2>1. ledger'[new] = e
    BY <1>2, CommitAppends DEF SerialBooks
  <2> QED
    BY <1>2, <2>1, HistoryContinues
<1>4. NeverShort(p) /\ Accountable(p)
  <2>1. NeverShort(p)
    BY HistoryContinues DEF Accountable
  <2> QED
    BY <1>3, <2>1 DEF Accountable
<1>5. q >= 0 /\ q2 >= 0
  BY <1>3, <1>4 DEF HistoriesSound, HistorySound, Accountable, NeverShort
<1>6. /\ e.quantity_delta = r.quantity_delta
      /\ e.price = r.price
      /\ e.fees = r.fees
  <2>1. r \in Requests
    BY CommitIsPost DEF SerialBooks
  <2> QED
    BY <1>1, <2>1 DEF LedgerEntry, ToColumn, WholeAmounts
<1>7. r.quantity_delta = 0 \/ r.price # NoPrice
  BY <1>3, <1>6 DEF Accountable, Priced
<1>8. /\ CashOf(p) \in Int /\ CashOf(p)' = CashOf(p) + cash
      /\ sum \in Int /\ RoundingOf(p) = Ulp * sum
      /\ RoundingOf(p)' = Ulp * (sum + (One + q2))
  <2>1. CashOf(p) \in Int /\ CashOf(p)' = CashOf(p) + Cash(e)
    BY MoneyMoves
  <2>2. Cash(e) = cash
    BY <1>6 DEF Cash
  <2>3. sum \in Int /\ sum' = sum + (One + q2)
    BY MoneyMoves
  <2>4. RoundingOf(p) = Ulp * sum /\ RoundingOf(p)' = Ulp * sum'
    BY DEF RoundingOf
  <2> HIDE DEF sum, cash, e
  <2> QED
    BY <2>1, <2>2, <2>3, <2>4
<1> DEFINE before == pnl * One - q * a
           after  == pnl2 * One - q2 * a2
           bound  == Ulp * (One + q2)
<1>9. /\ before \in Int /\ after \in Int /\ cash \in Int
      /\ 2 * (after - before - cash) <= bound
      /\ -bound <= 2 * (after - before - cash)
  <2>1. /\ a2 = ApplyLedgerEvent(q, a, r.quantity_delta, r.price, r.fees).new_average_cost
        /\ gain = ApplyLedgerEvent(q, a, r.quantity_delta, r.price, r.fees).realized_pnl_delta
    BY <1>1 DEF Event
  <2>2. q \in Nat /\ q + r.quantity_delta >= 0
    BY <1>1, <1>5
  <2> HIDE DEF q, a, pnl, q2, a2, pnl2, gain, r
  <2> DEFINE d == r.quantity_delta
             x == r.price
             f == r.fees
  <2>3. /\ d \in Int /\ x \in Nat \cup {NoPrice} /\ f \in Nat
        /\ a \in Int /\ pnl \in Int
        /\ d = 0 \/ x # NoPrice
    BY <1>1, <1>7
  <2> HIDE DEF d, x, f
  <2>4. /\ a2 = ApplyLedgerEvent(q, a, d, x, f).new_average_cost
        /\ gain = ApplyLedgerEvent(q, a, d, x, f).realized_pnl_delta
        /\ q + d >= 0
        /\ pnl2 = Quantize(pnl * One + gain, One)
    BY <1>1, <2>1, <2>2 DEF d, x, f
  <2>5. /\ pnl * One - q * a \in Int
        /\ pnl2 * One - (q + d) * a2 \in Int
        /\ -(d * x) - f * One \in Int
        /\ 2 * ((pnl2 * One - (q + d) * a2) - (pnl * One - q * a) - (-(d * x) - f * One))
              <= Ulp * (One + (q + d))
        /\ -(Ulp * (One + (q + d))) <=
              2 * ((pnl2 * One - (q + d) * a2) - (pnl * One - q * a) - (-(d * x) - f * One))
    BY <2>2, <2>3, <2>4, MoneyStep, SMTT(60)
  <2> QED
    BY <1>1, <2>5, Zenon DEF d, x, f
<1>10. /\ 2 * Imbalance(p) <= RoundingOf(p) /\ -RoundingOf(p) <= 2 * Imbalance(p)
  BY <1>4 DEF Conserved
<1>11. /\ Imbalance(p) = before - CashOf(p)
       /\ Imbalance(p)' = after - CashOf(p)'
       /\ bound \in Int /\ Ulp * sum \in Int /\ RoundingOf(p)' = Ulp * sum + bound
  <2>1. /\ One \in Int /\ Ulp \in Int /\ q2 \in Int /\ a2 \in Int /\ pnl2 \in Int
    BY SerialCommit, ScaleAssumption DEF Rows
  <2>2. /\ pnl * One \in Int /\ q * a \in Int /\ pnl2 * One \in Int /\ q2 * a2 \in Int
    BY <1>1, <2>1
  <2>3. /\ Imbalance(p) = pnl * One - CashOf(p) - q * a
        /\ Imbalance(p)' = pnl2 * One - CashOf(p)' - q2 * a2
    BY DEF Imbalance
  <2> HIDE DEF q, a, pnl, q2, a2, pnl2, cash, sum
  <2>4. bound \in Int /\ Ulp * sum \in Int /\ Ulp * (sum + (One + q2)) = Ulp * sum + bound
    BY <1>8, <2>1
  <2> QED
    BY <1>8, <1>9, <2>2, <2>3, <2>4
<1> HIDE DEF before, after, cash, bound, sum
<1>12. Imbalance(p)' = Imbalance(p) + (after - before - cash)
  BY <1>8, <1>9, <1>11
<1>13. Imbalance(p) \in Int
  BY <1>8, <1>9, <1>11
<1> QED
  BY <1>8, <1>9, <1>10, <1>11, <1>12, <1>13
(***************************************************************************)
(* With one thread, and amounts a column holds exactly, money is           *)
(* conserved: in a history that was never short and has a price on every   *)
(* trade, realized_pnl is the cash the entries brought in, less the fees,  *)
(* plus what is still held at average cost, up to the roundings of the two *)
(* columns (accounting.py:64-114).                                         *)
(***************************************************************************)
THEOREM Conservation ==
  ASSUME OneThread, WholeAmounts
  PROVE  Spec => []MoneyIsConserved
<1> DEFINE Kept == \A p \in PositionIds :
                     /\ CashOf(p) \in Int
                     /\ SumOver(EntriesOf(p), Roundings(p), Len(ledger)) \in Int
                     /\ Conserved(p)
<1>1. WholeSteps
  BY DEF WholeAmounts, WholeSteps
<1>2. Init => Kept
  <2> SUFFICES ASSUME Init, NEW p \in PositionIds
               PROVE  /\ CashOf(p) \in Int
                      /\ SumOver(EntriesOf(p), Roundings(p), Len(ledger)) \in Int
                      /\ Conserved(p)
    OBVIOUS
  <2>1. Len(ledger) = 0 /\ EntriesOf(p) \cap 1..0 = {}
    BY DEF Init
  <2>2. CashOf(p) = 0 /\ SumOver(EntriesOf(p), Roundings(p), Len(ledger)) = 0
    BY <2>1, SumOfNone DEF CashOf
  <2>3. positions[p] = NoRow
    BY DEF Init
  <2>4. Imbalance(p) = 0 /\ RoundingOf(p) = 0
    BY <2>2, <2>3, ScaleAssumption DEF Imbalance, RoundingOf, NoRow
  <2> QED
    BY <2>2, <2>4 DEF Conserved
<1>3. SerialBooks /\ HistoriesSound /\ Kept /\ [Next]_vars => Kept'
  <2> SUFFICES ASSUME SerialBooks, HistoriesSound, Kept, [Next]_vars, NEW p \in PositionIds
               PROVE  /\ CashOf(p)' \in Int
                      /\ SumOver(EntriesOf(p), Roundings(p), Len(ledger))' \in Int
                      /\ Conserved(p)'
    OBVIOUS
  <2>1. CASE UNCHANGED <<positions, ledger, ledgerSum>>
    <3>1. EntriesOf(p)' = EntriesOf(p) /\ Deltas' = Deltas /\ Cashes' = Cashes
      BY <2>1 DEF EntriesOf, Deltas, Cashes
    <3>2. \A k : QuantityAfter(p, k)' = QuantityAfter(p, k)
      BY <2>1, <3>1 DEF QuantityAfter, DeltaOf
    <3>3. /\ Accountable(p)' <=> Accountable(p)
          /\ Roundings(p)' = Roundings(p)
      BY <2>1, <3>1, <3>2 DEF Accountable, NeverShort, Roundings
    <3>4. /\ CashOf(p)' = CashOf(p) /\ RoundingOf(p)' = RoundingOf(p)
          /\ SumOver(EntriesOf(p), Roundings(p), Len(ledger))'
               = SumOver(EntriesOf(p), Roundings(p), Len(ledger))
      BY <2>1, <3>1, <3>3 DEF CashOf, RoundingOf
    <3>5. Imbalance(p)' = Imbalance(p)
      BY <2>1, <3>4 DEF Imbalance
    <3> QED
      BY <3>3, <3>4, <3>5 DEF Conserved
  <2>2. ASSUME NEW t \in Threads, Commits(t)
        PROVE  /\ CashOf(p)' \in Int
               /\ SumOver(EntriesOf(p), Roundings(p), Len(ledger))' \in Int
               /\ Conserved(p)'
    <3>1. positions'[p].quantity \in Int /\ Cash(LedgerEntry(req[t], pos[t])) \in Int
      <4>1. pos[t] \in PositionIds /\ LedgerEntry(req[t], pos[t]) \in Entries
        BY <2>2, CommitIsPost DEF SerialBooks
      <4>2. positions'[p] \in Rows
        BY <1>1, <2>2, SerialCommit, HistoryContinues DEF SerialBooks, TypeOK
      <4> QED
        BY <4>1, <4>2, CashInt DEF Rows
    <3>2. /\ CashOf(p)' \in Int
          /\ SumOver(EntriesOf(p), Roundings(p), Len(ledger))' \in Int
      BY <1>1, <2>2, <3>1, MoneyMoves, ScaleAssumption
    <3>3. CASE p = pos[t]
      BY <1>1, <2>2, <3>2, <3>3, ConservedStep DEF Conserved
    <3>4. CASE p # pos[t]
      <4>1. positions'[p] = positions[p] /\ (Accountable(p)' => Accountable(p))
        BY <1>1, <2>2, <3>4, HistoryContinues DEF Accountable
      <4>2. CashOf(p)' = CashOf(p) /\ RoundingOf(p)' = RoundingOf(p)
        BY <1>1, <2>2, <3>4, MoneyMoves DEF RoundingOf
      <4>3. Imbalance(p)' = Imbalance(p)
        BY <4>1, <4>2 DEF Imbalance
      <4> QED
        BY <3>2, <4>1, <4>2, <4>3 DEF Conserved
    <3> QED
      BY <3>2, <3>3, <3>4
  <2> QED
    BY <2>1, <2>2, OnlyCommitsWrite DEF SerialBooks
<1>4. SerialBooks /\ Kept => MoneyIsConserved
  <2> SUFFICES ASSUME SerialBooks, Kept, NEW p \in PositionIds, Accountable(p)
               PROVE  2 * Magnitude(Imbalance(p)) <= RoundingOf(p)
    BY DEF MoneyIsConserved, Accountable, Imbalance
  <2>1. Imbalance(p) \in Int /\ RoundingOf(p) \in Int
    BY <1>1, MoneyTypes
  <2> QED
    BY <2>1 DEF Conserved, Magnitude
<1> HIDE DEF Kept
<1> QED
  BY <1>1, <1>2, <1>3, <1>4, BooksKept, HistoriesKept, PTL DEF Spec
=============================================================================
