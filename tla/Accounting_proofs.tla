------------------------- MODULE Accounting_proofs -------------------------
(***************************************************************************)
(* What the decimal arithmetic and the accounting rules return, at every   *)
(* scale: integers of the model, on the grid of a NUMERIC(20, 8) column    *)
(* once a column holds them, how far a rounding moves a number, where a    *)
(* purchase puts the average and what a step does to the money.            *)
(***************************************************************************)
EXTENDS Accounting, TLAPS

LEMMA HalfUpInt ==
  ASSUME NEW n \in Int, NEW m \in Int, m > 0
  PROVE  HalfUp(n, m) \in Int
BY DEF HalfUp

LEMMA QuantizeInt ==
  ASSUME NEW n \in Int, NEW m \in Int, m > 0
  PROVE  Quantize(n, m) \in Int
<1>1. m * Ulp \in Int /\ m * Ulp > 0
  BY ScaleAssumption
<1>2. HalfUp(n, m * Ulp) \in Int
  BY <1>1, HalfUpInt
<1> QED
  BY <1>2, ScaleAssumption DEF Quantize

LEMMA ToColumnInt ==
  ASSUME NEW x \in Int
  PROVE  ToColumn(x) \in Int
BY QuantizeInt DEF ToColumn

LEMMA ApplyType ==
  ASSUME NEW q \in Int, NEW a \in Int, NEW d \in Int,
         NEW price \in Nat \cup {NoPrice}, NEW f \in Nat
  PROVE  LET u == ApplyLedgerEvent(q, a, d, price, f)
         IN  /\ u.new_quantity = q + d
             /\ u.new_average_cost \in Int
             /\ u.realized_pnl_delta \in Int
<1> DEFINE event_price == IF price = NoPrice THEN 0 ELSE price
           total == q * a + Magnitude(d) * event_price
           gain  == IF price = NoPrice THEN 0 ELSE Magnitude(d) * (price - a)
<1>1. Magnitude(d) \in Int /\ price \in Int /\ event_price \in Int
  BY DEF Magnitude, NoPrice
<1>2. total \in Int /\ gain \in Int /\ f * One \in Int
  BY <1>1, ScaleAssumption
<1>3. q + d > 0 => Quantize(total, q + d) \in Int
  BY <1>2, QuantizeInt
<1>4. CASE d > 0
  <2>1. ApplyLedgerEvent(q, a, d, price, f) = ApplyIncrease(q, a, d, price, f)
    BY <1>4 DEF ApplyLedgerEvent
  <2> HIDE DEF total
  <2>2. ApplyIncrease(q, a, d, price, f) =
          [ new_quantity       |-> q + d,
            new_average_cost   |-> IF q + d > 0 THEN Quantize(total, q + d) ELSE 0,
            realized_pnl_delta |-> -(f * One) ]
    BY DEF ApplyIncrease, total
  <2> QED
    BY <2>1, <2>2, <1>2, <1>3
<1>5. CASE d < 0
  <2>1. ApplyLedgerEvent(q, a, d, price, f) = ApplyDecrease(q, a, d, price, f)
    BY <1>5 DEF ApplyLedgerEvent
  <2> HIDE DEF gain
  <2>2. ApplyDecrease(q, a, d, price, f) =
          [ new_quantity       |-> q + d,
            new_average_cost   |-> IF q + d > 0 THEN a ELSE 0,
            realized_pnl_delta |-> gain - f * One ]
    BY DEF ApplyDecrease, gain
  <2> QED
    BY <2>1, <2>2, <1>2
<1>6. CASE d = 0
  <2>1. ApplyLedgerEvent(q, a, d, price, f) =
          [ new_quantity |-> q, new_average_cost |-> a, realized_pnl_delta |-> -(f * One) ]
    BY <1>6 DEF ApplyLedgerEvent
  <2> QED
    BY <2>1, <1>2, <1>6
<1> QED
  BY <1>4, <1>5, <1>6

-----------------------------------------------------------------------------
(* The grid of a column.                                                   *)

LEMMA MultipleIsOnGrid ==
  ASSUME NEW k \in Int
  PROVE  (Ulp * k) % Ulp = 0
<1> DEFINE x == Ulp * k
           j == x \div Ulp
           r == x % Ulp
<1>1. x \in Int /\ Ulp \in Int /\ Ulp > 0
  BY ScaleAssumption
<1>2. j \in Int /\ r \in 0..(Ulp - 1) /\ x = Ulp * j + r
  BY <1>1
<1>3. r = Ulp * (k - j)
  BY <1>1, <1>2
<1> HIDE DEF x, j, r
<1>4. k - j \in Int
  BY <1>2
<1>5. ~(k - j >= 1)
  <2>1. SUFFICES ASSUME k - j >= 1 PROVE FALSE
    OBVIOUS
  <2>2. Ulp * (k - j) >= Ulp
    BY <2>1, <1>1, <1>4
  <2> QED
    BY <2>2, <1>1, <1>2, <1>3
<1>6. ~(k - j <= -1)
  <2>1. SUFFICES ASSUME k - j <= -1 PROVE FALSE
    OBVIOUS
  <2>2. Ulp * (k - j) < 0
    BY <2>1, <1>1, <1>4
  <2> QED
    BY <2>2, <1>1, <1>2, <1>3
<1>7. k - j = 0
  BY <1>4, <1>5, <1>6
<1>8. r = 0
  BY <1>3, <1>7, <1>1
<1> QED
  BY <1>8 DEF r, x

LEMMA DivisionIsExact ==
  ASSUME NEW x \in Int, NEW u \in Int, u > 0, x % u = 0
  PROVE  x \div u \in Int /\ x = u * (x \div u)
OBVIOUS

LEMMA OnGridIsMultiple ==
  ASSUME NEW x \in Int, x % Ulp = 0
  PROVE  \E k \in Int : x = Ulp * k
<1>1. Ulp \in Int /\ Ulp > 0
  BY ScaleAssumption
<1>2. x \div Ulp \in Int /\ x = Ulp * (x \div Ulp)
  BY <1>1, DivisionIsExact
<1> QED
  BY <1>2, Zenon

LEMMA GridSum ==
  ASSUME NEW x \in Int, NEW y \in Int, x % Ulp = 0, y % Ulp = 0
  PROVE  (x + y) % Ulp = 0
<1>1. PICK k \in Int : x = Ulp * k
  BY OnGridIsMultiple
<1>2. PICK l \in Int : y = Ulp * l
  BY OnGridIsMultiple
<1>3. x + y = Ulp * (k + l)
  BY <1>1, <1>2, ScaleAssumption
<1> QED
  BY <1>3, MultipleIsOnGrid

LEMMA ToColumnOnGrid ==
  ASSUME NEW x \in Int
  PROVE  ToColumn(x) % Ulp = 0
<1>1. CASE x % Ulp = 0
  BY <1>1 DEF ToColumn
<1>2. CASE x % Ulp # 0
  <2>1. HalfUp(x, 1 * Ulp) \in Int
    BY HalfUpInt, ScaleAssumption
  <2>2. ToColumn(x) = Ulp * HalfUp(x, 1 * Ulp)
    BY <1>2 DEF ToColumn, Quantize
  <2> QED
    BY <2>1, <2>2, MultipleIsOnGrid
<1> QED
  BY <1>1, <1>2
-----------------------------------------------------------------------------
(* Rounding.                                                               *)

(* Products are kept apart from the rest, which is linear.                 *)
LEMMA ProductGrows ==
  ASSUME NEW m \in Int, m >= 0, NEW x \in Int, NEW y \in Int, x <= y
  PROVE  m * x \in Int /\ m * y \in Int /\ m * x <= m * y
OBVIOUS

(* Half a step away at most; never a whole half below a positive number.   *)
LEMMA HalfUpNear ==
  ASSUME NEW n \in Int, NEW m \in Int, m > 0
  PROVE  /\ HalfUp(n, m) \in Int
         /\ 2 * (m * HalfUp(n, m)) - 2 * n <= m
         /\ 2 * n - 2 * (m * HalfUp(n, m)) <= m
         /\ n >= 0 => 2 * n - 2 * (m * HalfUp(n, m)) < m
<1> DEFINE x == IF n >= 0 THEN n ELSE -n
           a == 2 * x + m
           b == 2 * m
           h == a \div b
           r == a % b
<1>1. x \in Int /\ a \in Int /\ b \in Int /\ b > 0
  OBVIOUS
<1>2. h \in Int /\ r \in 0..(b - 1) /\ a = b * h + r
  <2> HIDE DEF a, b
  <2> QED
    BY <1>1
<1>3. HalfUp(n, m) = IF n >= 0 THEN h ELSE -h
  BY DEF HalfUp
<1> HIDE DEF h, r
<1>4. m * h \in Int /\ b * h = 2 * (m * h) /\ m * (-h) = -(m * h)
  BY <1>2
<1>5. 2 * (m * h) - 2 * x <= m /\ 2 * x - 2 * (m * h) < m
  BY <1>2, <1>4
<1> HIDE DEF a, b
<1>6. CASE n >= 0
  BY <1>2, <1>3, <1>5, <1>6
<1>7. CASE n < 0
  <2>1. x = -n /\ HalfUp(n, m) = -h
    BY <1>3, <1>7
  <2>2. m * HalfUp(n, m) = -(m * h)
    BY <1>4, <2>1
  <2> HIDE DEF x
  <2> QED
    BY <1>2, <1>4, <1>5, <1>7, <2>1, <2>2
<1> QED
  BY <1>6, <1>7

LEMMA QuantizeNear ==
  ASSUME NEW n \in Int, NEW m \in Int, m > 0
  PROVE  /\ Quantize(n, m) \in Int /\ m * Quantize(n, m) \in Int /\ m * Ulp \in Int
         /\ 2 * (m * Quantize(n, m)) - 2 * n <= m * Ulp
         /\ 2 * n - 2 * (m * Quantize(n, m)) <= m * Ulp
         /\ n >= 0 => 2 * n - 2 * (m * Quantize(n, m)) < m * Ulp
         /\ Quantize(n, m) % Ulp = 0
<1> DEFINE M == m * Ulp
           h == HalfUp(n, M)
<1>1. M \in Int /\ M > 0 /\ Ulp \in Int
  BY ScaleAssumption
<1>2. /\ h \in Int
      /\ 2 * (M * h) - 2 * n <= M
      /\ 2 * n - 2 * (M * h) <= M
      /\ n >= 0 => 2 * n - 2 * (M * h) < M
  <2> HIDE DEF M
  <2> QED
    BY <1>1, HalfUpNear
<1>3. Quantize(n, m) = Ulp * h
  BY DEF Quantize
<1>4. M * h = m * (Ulp * h)
  BY <1>1, <1>2
<1>5. (Ulp * h) % Ulp = 0
  BY <1>2, MultipleIsOnGrid
<1> HIDE DEF h
<1>6. Ulp * h \in Int /\ m * (Ulp * h) \in Int
  BY <1>1, <1>2
<1> QED
  BY <1>1, <1>2, <1>3, <1>4, <1>5, <1>6

LEMMA ToColumnNear ==
  ASSUME NEW x \in Nat
  PROVE  /\ ToColumn(x) \in Nat
         /\ 2 * ToColumn(x) - 2 * x <= Ulp
         /\ 2 * x - 2 * ToColumn(x) < Ulp
<1>1. CASE x % Ulp = 0
  BY <1>1, ScaleAssumption DEF ToColumn
<1>2. CASE x % Ulp # 0
  <2>1. ToColumn(x) = Quantize(x, 1)
    BY <1>2 DEF ToColumn
  <2>2. /\ Quantize(x, 1) \in Int
        /\ 2 * (1 * Quantize(x, 1)) - 2 * x <= 1 * Ulp
        /\ 2 * x - 2 * (1 * Quantize(x, 1)) < 1 * Ulp
    BY QuantizeNear
  <2>3. Quantize(x, 1) % Ulp = 0
    BY QuantizeNear
  <2>4. PICK k \in Int : Quantize(x, 1) = Ulp * k
    BY <2>2, <2>3, OnGridIsMultiple
  <2>5. Quantize(x, 1) >= 0
    <3>1. ASSUME k <= -1 PROVE FALSE
      <4>1. Ulp * k <= Ulp * (-1)
        BY <3>1, ProductGrows, ScaleAssumption
      <4> QED
        BY <2>2, <2>4, <4>1, ScaleAssumption
    <3>2. Ulp * 0 <= Ulp * k
      BY <3>1, ProductGrows, ScaleAssumption
    <3> QED
      BY <2>4, <3>2, ScaleAssumption
  <2> QED
    BY <2>1, <2>2, <2>5, ScaleAssumption
<1> QED
  BY <1>1, <1>2

(* Two numbers of the grid are a step apart, or the same.                  *)
LEMMA GridStep ==
  ASSUME NEW x \in Int, NEW y \in Int, x % Ulp = 0, y % Ulp = 0, x < y
  PROVE  x + Ulp <= y
<1>1. PICK k \in Int : x = Ulp * k
  BY OnGridIsMultiple
<1>2. PICK l \in Int : y = Ulp * l
  BY OnGridIsMultiple
<1>3. ASSUME l <= k PROVE FALSE
  BY <1>1, <1>2, <1>3, ProductGrows, ScaleAssumption
<1>4. k + 1 <= l
  BY <1>3
<1>5. Ulp * (k + 1) <= Ulp * l
  BY <1>4, ProductGrows, ScaleAssumption
<1>6. Ulp * (k + 1) = x + Ulp
  BY <1>1, ScaleAssumption
<1> QED
  BY <1>2, <1>5, <1>6

-----------------------------------------------------------------------------
(* The average cost of an increase lies between the cost before it and the *)
(* price of the event, both as the columns hold them.                      *)

LEMMA AverageBelow ==
  ASSUME NEW q \in Nat, NEW d \in Nat, d > 0, NEW a \in Nat, NEW x \in Nat,
         NEW u \in Int, u % Ulp = 0, ToColumn(x) <= u, q = 0 \/ a <= u
  PROVE  Quantize(q * a + d * x, q + d) <= u
<1> DEFINE n == q * a + d * x
           m == q + d
           avg == Quantize(n, m)
<1>1. n \in Int /\ m \in Int /\ m > 0 /\ Ulp \in Int /\ Ulp > 0
  BY ScaleAssumption
<1>2. /\ avg \in Int /\ m * avg \in Int /\ m * Ulp \in Int
      /\ 2 * (m * avg) - 2 * n <= m * Ulp
      /\ avg % Ulp = 0
  <2> HIDE DEF n, m
  <2> QED
    BY <1>1, QuantizeNear
<1>3. q * a <= q * u /\ q * a \in Int /\ q * u \in Int
  <2>1. CASE q = 0
    BY <2>1
  <2>2. CASE a <= u
    BY <2>2, ProductGrows
  <2> QED
    BY <2>1, <2>2
<1>4. 2 * x + 1 <= 2 * u + Ulp
  BY ToColumnNear, <1>1
<1>5. d * (2 * x + 1) <= d * (2 * u + Ulp)
  BY <1>1, <1>4, ProductGrows
<1>6. 2 * n < 2 * (m * u) + d * Ulp
  <2>1. /\ d * (2 * x + 1) = 2 * (d * x) + d
        /\ d * (2 * u + Ulp) = 2 * (d * u) + d * Ulp
        /\ m * u = q * u + d * u
        /\ d * x \in Int /\ d * u \in Int /\ d * Ulp \in Int
    BY <1>1
  <2> QED
    BY <1>3, <1>5, <2>1
<1>7. ASSUME u < avg PROVE FALSE
  <2>1. u + Ulp <= avg
    BY <1>2, <1>7, GridStep
  <2>2. m * (u + Ulp) <= m * avg
    BY <1>1, <1>2, <2>1, ProductGrows
  <2>3. m * (u + Ulp) = m * u + m * Ulp /\ m * u \in Int
    BY <1>1
  <2>4. d * Ulp <= m * Ulp /\ d * Ulp \in Int
    BY <1>1
  <2> HIDE DEF n, m, avg
  <2> QED
    BY <1>1, <1>2, <1>6, <2>2, <2>3, <2>4
<1> QED
  BY <1>2, <1>7

LEMMA AverageAbove ==
  ASSUME NEW q \in Nat, NEW d \in Nat, d > 0, NEW a \in Nat, NEW x \in Nat,
         NEW u \in Int, u % Ulp = 0, ToColumn(x) >= u, q = 0 \/ a >= u
  PROVE  Quantize(q * a + d * x, q + d) >= u
<1> DEFINE n == q * a + d * x
           m == q + d
           avg == Quantize(n, m)
<1>1. n \in Nat /\ m \in Int /\ m > 0 /\ Ulp \in Int /\ Ulp > 0
  <2>1. q * a \in Nat /\ d * x \in Nat
    OBVIOUS
  <2> QED
    BY <2>1, ScaleAssumption
<1>2. /\ avg \in Int /\ m * avg \in Int /\ m * Ulp \in Int
      /\ 2 * n - 2 * (m * avg) < m * Ulp
      /\ avg % Ulp = 0
  <2> HIDE DEF n, m
  <2> QED
    BY <1>1, QuantizeNear
<1>3. q * u <= q * a /\ q * a \in Int /\ q * u \in Int
  <2>1. CASE q = 0
    BY <2>1
  <2>2. CASE a >= u
    BY <2>2, ProductGrows
  <2> QED
    BY <2>1, <2>2
<1>4. 2 * u - Ulp <= 2 * x
  BY ToColumnNear, <1>1
<1>5. d * (2 * u - Ulp) <= d * (2 * x)
  BY <1>1, <1>4, ProductGrows
<1>6. 2 * (m * u) - d * Ulp <= 2 * n
  <2>1. /\ d * (2 * x) = 2 * (d * x)
        /\ d * (2 * u - Ulp) = 2 * (d * u) - d * Ulp
        /\ m * u = q * u + d * u
        /\ d * x \in Int /\ d * u \in Int /\ d * Ulp \in Int
    BY <1>1
  <2> QED
    BY <1>3, <1>5, <2>1
<1>7. ASSUME avg < u PROVE FALSE
  <2>1. avg + Ulp <= u
    BY <1>2, <1>7, GridStep
  <2>2. m * (avg + Ulp) <= m * u
    BY <1>1, <1>2, <2>1, ProductGrows
  <2>3. m * (avg + Ulp) = m * avg + m * Ulp /\ m * u \in Int
    BY <1>1, <1>2
  <2>4. d * Ulp <= m * Ulp /\ d * Ulp \in Int
    BY <1>1
  <2> HIDE DEF n, m, avg
  <2> QED
    BY <1>1, <1>2, <1>6, <2>2, <2>3, <2>4
<1> QED
  BY <1>2, <1>7
-----------------------------------------------------------------------------
(* What an event makes of a long position that stays long, or gets flat.   *)

EventPrice(price) == IF price = NoPrice THEN 0 ELSE price

LEMMA AverageAfter ==
  ASSUME NEW q \in Int, NEW a \in Int, NEW d \in Int, NEW price, NEW f, q + d > 0
  PROVE  ApplyLedgerEvent(q, a, d, price, f).new_average_cost
           = IF d > 0 THEN Quantize(q * a + d * EventPrice(price), q + d) ELSE a
<1>1. CASE d > 0
  <2>1. Magnitude(d) = d
    BY <1>1 DEF Magnitude
  <2> QED
    BY <1>1, <2>1 DEF ApplyLedgerEvent, ApplyIncrease, EventPrice
<1>2. CASE d < 0
  BY <1>2 DEF ApplyLedgerEvent, ApplyDecrease
<1>3. CASE d = 0
  BY <1>3 DEF ApplyLedgerEvent
<1> QED
  BY <1>1, <1>2, <1>3

LEMMA EventPriceNat ==
  ASSUME NEW price \in Nat \cup {NoPrice}
  PROVE  EventPrice(price) \in Nat /\ (price # NoPrice => EventPrice(price) = price)
BY DEF EventPrice

(* Average costs are on the grid of their column. *)
LEMMA AverageOnGrid ==
  ASSUME NEW q \in Int, NEW a \in Int, a % Ulp = 0, NEW d \in Int,
         NEW price \in Nat \cup {NoPrice}, NEW f \in Nat
  PROVE  ApplyLedgerEvent(q, a, d, price, f).new_average_cost % Ulp = 0
<1>1. 0 % Ulp = 0
  BY MultipleIsOnGrid, ScaleAssumption
<1>2. CASE q + d > 0
  <2>1. q * a + d * EventPrice(price) \in Int /\ q + d \in Int
    BY EventPriceNat
  <2> DEFINE n == q * a + d * EventPrice(price)
  <2>2. Quantize(n, q + d) % Ulp = 0
    <3> HIDE DEF n
    <3> QED
      BY <1>2, <2>1, QuantizeNear DEF n
  <2> QED
    BY <1>2, <2>2, AverageAfter
<1>3. CASE ~(q + d > 0)
  <2>1. CASE d > 0
    BY <1>1, <1>3, <2>1 DEF ApplyLedgerEvent, ApplyIncrease
  <2>2. CASE d < 0
    BY <1>1, <1>3, <2>2 DEF ApplyLedgerEvent, ApplyDecrease
  <2>3. CASE d = 0
    BY <2>3 DEF ApplyLedgerEvent
  <2> QED
    BY <2>1, <2>2, <2>3
<1> QED
  BY <1>2, <1>3
LEMMA RealizedBy ==
  ASSUME NEW q \in Int, NEW a \in Int, NEW d \in Int, NEW price, NEW f,
         d = 0 \/ price # NoPrice
  PROVE  ApplyLedgerEvent(q, a, d, price, f).realized_pnl_delta
           = IF d < 0 THEN (-d) * (price - a) - f * One ELSE -(f * One)
<1>1. CASE d > 0
  BY <1>1 DEF ApplyLedgerEvent, ApplyIncrease
<1>2. CASE d < 0
  <2>1. Magnitude(d) = -d
    BY <1>2 DEF Magnitude
  <2> QED
    BY <1>2, <2>1 DEF ApplyLedgerEvent, ApplyDecrease
<1>3. CASE d = 0
  BY <1>3 DEF ApplyLedgerEvent
<1> QED
  BY <1>1, <1>2, <1>3

(* No event makes or loses money, except for half a step of the realized   *)
(* column, and half a step of the average cost for each unit then held:    *)
(* what is realized, less what is held at cost, grows by the cash received.*)
LEMMA MoneyStep ==
  ASSUME NEW q \in Nat, NEW a \in Int, NEW pnl \in Int, NEW d \in Int,
         NEW price \in Nat \cup {NoPrice}, NEW f \in Nat,
         q + d >= 0, d = 0 \/ price # NoPrice,
         NEW a2, a2 = ApplyLedgerEvent(q, a, d, price, f).new_average_cost,
         NEW gain, gain = ApplyLedgerEvent(q, a, d, price, f).realized_pnl_delta,
         NEW pnl2, pnl2 = Quantize(pnl * One + gain, One)
  PROVE  LET before == pnl * One - q * a
             after  == pnl2 * One - (q + d) * a2
             cash   == -(d * price) - f * One
         IN  /\ before \in Int /\ after \in Int /\ cash \in Int
             /\ 2 * (after - before - cash) <= Ulp * (One + (q + d))
             /\ -(Ulp * (One + (q + d))) <= 2 * (after - before - cash)
<1>1. /\ One \in Int /\ One > 0 /\ Ulp \in Int /\ Ulp > 0 /\ price \in Int
  BY ScaleAssumption DEF NoPrice
<1>2. gain = IF d < 0 THEN (-d) * (price - a) - f * One ELSE -(f * One)
  BY RealizedBy
<1>3. /\ pnl * One \in Int /\ q * a \in Int /\ d * price \in Int /\ f * One \in Int
      /\ d * a \in Int
      /\ (-d) * (price - a) = d * a - d * price
  BY <1>1
<1>4. gain \in Int
  BY <1>2, <1>3
<1>5. /\ pnl2 \in Int /\ pnl2 * One \in Int /\ One * Ulp \in Int
      /\ 2 * (pnl2 * One) - 2 * (pnl * One + gain) <= One * Ulp
      /\ 2 * (pnl * One + gain) - 2 * (pnl2 * One) <= One * Ulp
  <2> DEFINE n == pnl * One + gain
  <2>1. n \in Int
    BY <1>3, <1>4
  <2> HIDE DEF n
  <2>2. /\ Quantize(n, One) \in Int /\ One * Quantize(n, One) \in Int /\ One * Ulp \in Int
        /\ 2 * (One * Quantize(n, One)) - 2 * n <= One * Ulp
        /\ 2 * n - 2 * (One * Quantize(n, One)) <= One * Ulp
    BY <1>1, <2>1, QuantizeNear
  <2>3. pnl2 = Quantize(n, One)
    BY DEF n
  <2>4. One * Quantize(n, One) = pnl2 * One
    BY <1>1, <2>2, <2>3
  <2> QED
    BY <2>2, <2>3, <2>4 DEF n
<1>6. /\ a2 \in Int /\ (q + d) * a2 \in Int /\ (q + d) * Ulp \in Int /\ (q + d) * Ulp >= 0
      /\ d <= 0 => (q + d) * a2 = q * a + d * a
      /\ d > 0 => /\ 2 * ((q + d) * a2) - 2 * (q * a + d * price) <= (q + d) * Ulp
                  /\ 2 * (q * a + d * price) - 2 * ((q + d) * a2) <= (q + d) * Ulp
  <2>1. (q + d) * Ulp \in Int /\ (q + d) * Ulp >= 0
    <3>1. (q + d) * 0 <= (q + d) * Ulp
      BY <1>1, ProductGrows
    <3> QED
      BY <1>1, <3>1
  <2>2. CASE d > 0
    <3> DEFINE n == q * a + d * price
    <3>1. q + d > 0 /\ a2 = Quantize(n, q + d)
      BY <2>2, AverageAfter, EventPriceNat
    <3>2. n \in Int
      BY <1>3
    <3> HIDE DEF n
    <3>3. /\ Quantize(n, q + d) \in Int /\ (q + d) * Quantize(n, q + d) \in Int
          /\ 2 * ((q + d) * Quantize(n, q + d)) - 2 * n <= (q + d) * Ulp
          /\ 2 * n - 2 * ((q + d) * Quantize(n, q + d)) <= (q + d) * Ulp
      BY <3>1, <3>2, QuantizeNear
    <3> QED
      BY <2>1, <2>2, <3>1, <3>3 DEF n
  <2>3. CASE d <= 0 /\ q + d > 0
    <3>1. a2 = a
      BY <2>3, AverageAfter
    <3> QED
      BY <1>1, <2>1, <2>3, <3>1
  <2>4. CASE d <= 0 /\ q + d = 0
    <3>1. a2 \in Int
      <4>1. q \in Int
        OBVIOUS
      <4> QED
        BY <4>1, ApplyType, Zenon
    <3>2. (q + d) * a2 = 0 /\ (q + d) * a = q * a + d * a /\ (q + d) * a = 0
      BY <2>4, <3>1
    <3> QED
      BY <2>1, <2>4, <3>1, <3>2
  <2> QED
    BY <2>2, <2>3, <2>4
<1>7. Ulp * (One + (q + d)) = One * Ulp + (q + d) * Ulp
  BY <1>1
<1> DEFINE A == pnl * One
           B == q * a
           C == pnl2 * One
           D == (q + d) * a2
           X == d * price
           F == f * One
           Y == d * a
           U == One * Ulp
           V == (q + d) * Ulp
<1>8. /\ A \in Int /\ B \in Int /\ C \in Int /\ D \in Int /\ X \in Int /\ F \in Int
      /\ Y \in Int /\ U \in Int /\ V \in Int /\ V >= 0
      /\ gain = IF d < 0 THEN Y - X - F ELSE -F
      /\ d = 0 => X = 0 /\ Y = 0
      /\ 2 * C - 2 * (A + gain) <= U /\ 2 * (A + gain) - 2 * C <= U
      /\ d <= 0 => D = B + Y
      /\ d > 0 => 2 * D - 2 * (B + X) <= V /\ 2 * (B + X) - 2 * D <= V
  BY <1>1, <1>2, <1>3, <1>5, <1>6
<1> HIDE DEF A, B, C, D, X, F, Y, U, V
<1>9. /\ 2 * ((C - D) - (A - B) - (-X - F)) <= U + V
      /\ -(U + V) <= 2 * ((C - D) - (A - B) - (-X - F))
  <2>1. CASE d > 0
    BY <1>8, <2>1
  <2>2. CASE d = 0
    BY <1>8, <2>2
  <2>3. CASE d < 0
    BY <1>8, <2>3
  <2> QED
    BY <2>1, <2>2, <2>3
<1>10. A - B \in Int /\ C - D \in Int /\ -X - F \in Int
  BY <1>8
<1> QED
  BY <1>7, <1>9, <1>10 DEF A, B, C, D, X, F, U, V
=============================================================================
