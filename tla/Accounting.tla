----------------------------- MODULE Accounting -----------------------------
(***************************************************************************)
(* The weighted-average-cost rules of domain/accounting.py, and what a     *)
(* NUMERIC(20, 8) column makes of the numbers they produce.                *)
(*                                                                         *)
(* A decimal is an integer number of units; One units make 1.0 and Ulp     *)
(* units make one step of a column (0.00000001).  A product of two         *)
(* decimals is therefore counted in units of 1/One^2: realized_pnl_delta   *)
(* is one such number, everything else is in units of 1/One.               *)
(***************************************************************************)
EXTENDS Integers

CONSTANTS One,         \* the units in 1.0
          Ulp,         \* the units in one step of a NUMERIC(20, 8) column
          MaxNumeric   \* the units in 10^12, the first magnitude a column refuses

ASSUME ScaleAssumption ==
  /\ One \in Nat \ {0}
  /\ Ulp \in Nat \ {0}
  /\ MaxNumeric \in Nat

(* The `None` an event without a price carries; a price given is >= 0.     *)
NoPrice == -1

(* n / m rounded to the nearest integer, ties away from zero: decimal's    *)
(* ROUND_HALF_UP and the rounding of a NUMERIC column alike.               *)
HalfUp(n, m) ==
  IF n >= 0 THEN (2 * n + m) \div (2 * m) ELSE -((2 * (-n) + m) \div (2 * m))

(* n / m rounded to a column step. *)
Quantize(n, m) == Ulp * HalfUp(n, m * Ulp)

(* The number a column holds once x has been assigned to it. *)
ToColumn(x) == IF x % Ulp = 0 THEN x ELSE Quantize(x, 1)

(* The column refuses ("numeric field overflow") what it cannot hold. *)
Storable(x) == -MaxNumeric < x /\ x < MaxNumeric

(***************************************************************************)
(* apply_ledger_event                                                      *)
(***************************************************************************)
Magnitude(x) == IF x < 0 THEN -x ELSE x

(* Mutant: the total cost is spread over the quantity bought only.         *)
IncreaseAveragesTheBuy(current_quantity, current_avg_cost, quantity_delta, price, fees) ==
  LET event_price  == IF price = NoPrice THEN 0 ELSE price
      total_cost   == current_quantity * current_avg_cost + quantity_delta * event_price
  IN  [ new_quantity       |-> current_quantity + quantity_delta,
        new_average_cost   |-> Quantize(total_cost, quantity_delta),
        realized_pnl_delta |-> -(fees * One) ]

ApplyIncrease(current_quantity, current_avg_cost, quantity_delta, price, fees) ==
  LET event_price  == IF price = NoPrice THEN 0 ELSE price
      total_cost   == current_quantity * current_avg_cost
                        + Magnitude(quantity_delta) * event_price
      new_quantity == current_quantity + quantity_delta
  IN  [ new_quantity       |-> new_quantity,
        new_average_cost   |-> IF new_quantity > 0
                                 THEN Quantize(total_cost, new_quantity) ELSE 0,
        realized_pnl_delta |-> -(fees * One) ]

(* Mutants: the delta, negative already, is subtracted; the average cost   *)
(* outlives the position; the fees are added.                              *)
DecreaseSubtracts(current_quantity, current_avg_cost, quantity_delta, price, fees) ==
  [ new_quantity       |-> current_quantity - quantity_delta,
    new_average_cost   |-> current_avg_cost,
    realized_pnl_delta |-> -(fees * One) ]

DecreaseKeepsCost(current_quantity, current_avg_cost, quantity_delta, price, fees) ==
  [ new_quantity       |-> current_quantity + quantity_delta,
    new_average_cost   |-> current_avg_cost,
    realized_pnl_delta |-> Magnitude(quantity_delta) * (price - current_avg_cost) - fees * One ]

DecreaseAddsFees(current_quantity, current_avg_cost, quantity_delta, price, fees) ==
  [ new_quantity       |-> current_quantity + quantity_delta,
    new_average_cost   |-> IF current_quantity + quantity_delta > 0 THEN current_avg_cost ELSE 0,
    realized_pnl_delta |-> Magnitude(quantity_delta) * (price - current_avg_cost) + fees * One ]

ApplyDecrease(current_quantity, current_avg_cost, quantity_delta, price, fees) ==
  LET gain         == IF price = NoPrice THEN 0
                        ELSE Magnitude(quantity_delta) * (price - current_avg_cost)
      new_quantity == current_quantity + quantity_delta
  IN  [ new_quantity       |-> new_quantity,
        new_average_cost   |-> IF new_quantity > 0 THEN current_avg_cost ELSE 0,
        realized_pnl_delta |-> gain - fees * One ]

ApplyLedgerEvent(current_quantity, current_avg_cost, quantity_delta, price, fees) ==
  CASE quantity_delta > 0 ->
         ApplyIncrease(current_quantity, current_avg_cost, quantity_delta, price, fees)
    [] quantity_delta < 0 ->
         ApplyDecrease(current_quantity, current_avg_cost, quantity_delta, price, fees)
    [] OTHER ->
         [ new_quantity       |-> current_quantity,
           new_average_cost   |-> current_avg_cost,
           realized_pnl_delta |-> -(fees * One) ]
=============================================================================
