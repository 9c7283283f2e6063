-------------------------------- MODULE Sizing --------------------------------
(***************************************************************************)
(* How many positions an account may open and how large each may be: the   *)
(* live engine's calculation, which EntryRound uses, and the backtest's    *)
(* own, which Backtest uses.                                               *)
(*                                                                         *)
(* Money is in whole units and percentages are integers; the truncations   *)
(* of the code, int(x / y), are computed exactly.                          *)
(***************************************************************************)
EXTENDS Integers

CONSTANTS
  MinBucket,    \* MIN_BUCKET_SIZE
  Floor,        \* MIN_BUCKET_FLOOR
  DeployPct,    \* SETTLED_CASH_DEPLOYMENT_PCT, in percent
  RiskPct,      \* RISK_PER_TRADE_PCT over TRAIL_PCT: largest share of equity
  Cap           \* MAX_POSITIONS_CAP

ASSUME SizesAssumption ==
  /\ {MinBucket, Floor, DeployPct, RiskPct, Cap} \subseteq Nat
  /\ MinBucket > 0 /\ DeployPct <= 100

Least(a, b) == IF a < b THEN a ELSE b
Minus(a, b) == IF a > b THEN a - b ELSE 0    \* max(0, a - b)

\* _calc_max_positions
MaxPositions(e) == IF e < Floor THEN 0 ELSE Least(e \div MinBucket, Cap)

\* _calc_cash_entry_slots, of a hundred times the deployable cash
CashSlots(c) ==
  IF c * DeployPct < 100 * Floor THEN 0
  ELSE IF c * DeployPct < 100 * MinBucket THEN 1
  ELSE (c * DeployPct) \div (100 * MinBucket)

\* Mutant: max(0, ...) is missing.
EntrySlotsUnclamped(e, c, open) == Least(MaxPositions(e) - open, CashSlots(c))

\* Mutant: the positions already open are not deducted.
EntrySlotsOfEmptyBook(e, c, open) == Least(MaxPositions(e), CashSlots(c))

\* _calc_entry_allocation: capacity_slots and cash_slots
EntrySlots(e, c, open) == Least(Minus(MaxPositions(e), open), CashSlots(c))

Allocation(e, c, open) == [ cash |-> c, slots |-> EntrySlots(e, c, open) ]

\* int(bucket_size / limit_price)
BucketQty(a, limit) ==
  IF a.slots = 0 THEN 0 ELSE (a.cash * DeployPct) \div (100 * a.slots * limit)

\* int(equity * risk / trail_dist)
RiskQty(e, limit) == (e * RiskPct) \div (100 * limit)

-----------------------------------------------------------------------------
(* The backtest's copies. *)

\* _calc_dynamic_max_positions: the smallest account is a bucket, not the floor.
BacktestMaxPositions(e) == IF e < MinBucket THEN 0 ELSE Least(e \div MinBucket, Cap)

\* A bucket below the regular size is never offered.
BacktestCashSlots(c) == (c * DeployPct) \div (100 * MinBucket)

BacktestSlots(e, c, open) ==
  Least(Minus(BacktestMaxPositions(e), open), BacktestCashSlots(c))
===============================================================================
