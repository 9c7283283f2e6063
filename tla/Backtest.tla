------------------------------- MODULE Backtest -------------------------------
(***************************************************************************)
(* VelocityBacktest._run_loop: a cash account with T+1 settlement replayed *)
(* over daily bars, with data gaps, stops, strategy exits, regime gates,   *)
(* entries sized from settled cash, and the liquidation after the last     *)
(* day.  Trade.net_pnl is what the report adds up.                         *)
(*                                                                         *)
(* A bar is chosen when its day begins.  Whether a signal, a rating or a   *)
(* time stop asks for something is left open; money is in whole units and  *)
(* slippage is an amount.  The loop over open positions takes them in any  *)
(* order, and so does the list of candidates.                              *)
(***************************************************************************)
EXTENDS Sizing, FiniteSets, FiniteSetsExt

CONSTANTS
  Symbols,      \* the symbols with data
  Bars,         \* bars a day may bring: [open, high, low, close]
  Days,         \* trading days of the period
  GapDays,      \* _DATA_GAP_FORCE_CLOSE_DAYS
  Capital,      \* starting capital
  TrailPct,     \* TRAIL_PCT, in percent
  HardPct,      \* HARD_STOP_PCT, in percent
  HoldBars,     \* time_stop_bars of the profile
  Slippage,     \* _ENTRY_EXIT_SLIPPAGE of a price, as an amount
  Fee,          \* commission of a round trip
  BearRiskPct   \* RiskPct in a bear phase

ASSUME BacktestAssumption ==
  /\ {Days, GapDays, Capital, TrailPct, HardPct, HoldBars, Slippage, Fee,
      BearRiskPct} \subseteq Nat
  /\ IsFiniteSet(Symbols) /\ Days > 0 /\ GapDays > 0 /\ TrailPct <= 100 /\ HardPct <= 100
  /\ Bars \subseteq [ open : Nat \ {0}, high : Nat \ {0}, low : Nat \ {0},
                      close : Nat \ {0} ]
  /\ \A b \in Bars : b.low <= b.open /\ b.low <= b.close
                       /\ b.open <= b.high /\ b.close <= b.high

VARIABLES
  today,     \* number of the day, 0 before the first
  phase,     \* where the loop is
  bar,       \* today's bar of each symbol, or NoBar
  settled,   \* settled_cash
  pending,   \* pending_settlements: proceeds per day
  open,      \* open_positions
  todo,      \* positions still to be looked at
  equity,    \* account_equity of the scan
  risk,      \* regime_risk_pct
  curveEnd,  \* the last point of equity_curve
  realised   \* the sum of net_pnl over the closed trades

vars == << today, phase, bar, settled, pending, open, todo, equity, risk, curveEnd,
           realised >>

Day     == 1 .. Days
NoBar   == [ open |-> 0, high |-> 0, low |-> 0, close |-> 0 ]
Trade   == [ qty : Nat, entry : Nat, peak : Nat, last : Nat,
             gaps : 0 .. GapDays - 1, bars : 0 .. Days ]
NoTrade == [ qty |-> 0, entry |-> 0, peak |-> 0, last |-> 0, gaps |-> 0,
             bars |-> 0 ]
Held    == { s \in Symbols : open[s].qty > 0 }
HasBar(s) == bar[s] # NoBar

TypeOK ==
  /\ today \in 0 .. Days
  /\ phase \in { "morning", "exits", "regime", "scan", "period", "done" }
  /\ bar \in [Symbols -> Bars \cup {NoBar}]
  /\ settled \in Int /\ pending \in [Day -> Int]
  /\ open \in [Symbols -> Trade]
  /\ todo \subseteq Symbols
  /\ equity \in Int /\ risk \in {RiskPct, BearRiskPct}
  /\ curveEnd \in Int /\ realised \in Int

Init ==
  /\ today = 0 /\ phase = "morning"
  /\ bar = [ s \in Symbols |-> NoBar ]
  /\ settled = Capital /\ pending = [ d \in Day |-> 0 ]
  /\ open = [ s \in Symbols |-> NoTrade ]
  /\ todo = {} /\ equity = 0 /\ risk = RiskPct
  /\ curveEnd = 0 /\ realised = 0

-----------------------------------------------------------------------------
(* Settlement and valuation. *)

\* next_trading_session: the last day has none, and stands for its own.
NextSession(d) == IF d < Days THEN d + 1 ELSE d

\* sum(...)
Total(f) == MapThenSumSet(LAMBDA x : f[x], DOMAIN f)

PendingTotal == Total(pending)

\* mark_to_market refreshes _last_close from a bar of today ...
Refreshed == [ s \in Symbols |->
                 IF s \in Held /\ HasBar(s)
                 THEN [ open[s] EXCEPT !.last = bar[s].close ] ELSE open[s] ]

\* ... and values the account with it.
Value == settled + PendingTotal
           + Total([ s \in Symbols |-> Refreshed[s].last * open[s].qty ])

\* The day begins: what is due settles before anything is looked at.  A day is in
\* all_dates because some symbol has a bar on it.
Morning ==
  /\ phase = "morning" /\ today < Days
  /\ today' = today + 1
  /\ settled' = settled + pending[today + 1]
  /\ pending' = [ pending EXCEPT ![today + 1] = 0 ]
  /\ bar' \in [Symbols -> Bars \cup {NoBar}] /\ \E s \in Symbols : bar'[s] # NoBar
  /\ phase' = "exits" /\ todo' = Held
  /\ UNCHANGED << open, equity, risk, curveEnd, realised >>

-----------------------------------------------------------------------------
(* Exits. *)

\* Mutant: the commission is charged to the trade and not to the account.
CloseFeeless(s, price) ==
  /\ pending' = [ pending EXCEPT ![NextSession(today)] = @ + price * open[s].qty ]
  /\ realised' = realised + (price - open[s].entry) * open[s].qty - Fee
  /\ open' = [ open EXCEPT ![s] = NoTrade ]

\* A trade is closed: the proceeds settle on the next session.
Close(s, price) ==
  /\ pending' = [ pending EXCEPT
                     ![NextSession(today)] = @ + price * open[s].qty - Fee ]
  /\ realised' = realised + (price - open[s].entry) * open[s].qty - Fee
  /\ open' = [ open EXCEPT ![s] = NoTrade ]

LookedAt(s) ==
  /\ phase = "exits" /\ s \in todo
  /\ todo' = todo \ {s}
  /\ UNCHANGED << today, phase, bar, settled, equity, risk, curveEnd >>

\* The stop in force when the bar begins.
Stop(t) ==
  LET trail == (t.peak * (100 - TrailPct)) \div 100
      hard  == (t.entry * (100 - HardPct)) \div 100
  IN  IF trail > hard THEN trail ELSE hard

\* _stop_fill_price
StopFill(b, stop) == IF b.open <= stop THEN b.open ELSE Minus(stop, Slippage)

\* Mutant: a gap counts on without an end.
DataGapWaits(s) ==
  /\ LookedAt(s) /\ ~HasBar(s)
  /\ open' = [ open EXCEPT ![s].gaps = @ + 1 ]
  /\ UNCHANGED << pending, realised >>

\* No bar today, for GapDays sessions in a row: closed at the last price known.
DataGap(s) ==
  /\ LookedAt(s) /\ ~HasBar(s)
  /\ IF open[s].gaps + 1 >= GapDays
     THEN Close(s, open[s].last)
     ELSE /\ open' = [ open EXCEPT ![s].gaps = @ + 1 ]
          /\ UNCHANGED << pending, realised >>

StopHit(s) ==
  /\ LookedAt(s) /\ HasBar(s) /\ bar[s].low <= Stop(open[s])
  /\ Close(s, StopFill(bar[s], Stop(open[s])))

\* The trade has had its bars, this one included, and made nothing.
TimeStopDue(s) == open[s].bars + 1 >= HoldBars /\ bar[s].close <= open[s].entry

\* An analyst downgrade, an indicator exit or the time stop; the quality cleanup
\* is off in the only profile there is.
ExitAtClose(s) ==
  /\ LookedAt(s) /\ HasBar(s) /\ bar[s].low > Stop(open[s])
  /\ Close(s, bar[s].close)

\* A survivor's high counts from the next bar on.
Older(t, b) ==
  [ qty  |-> t.qty, entry |-> t.entry, last |-> b.close, gaps |-> 0,
    bars |-> t.bars + 1, peak |-> IF b.high > t.peak THEN b.high ELSE t.peak ]

Survives(s) ==
  /\ LookedAt(s) /\ HasBar(s) /\ bar[s].low > Stop(open[s]) /\ ~TimeStopDue(s)
  /\ open' = [ open EXCEPT ![s] = Older(open[s], bar[s]) ]
  /\ UNCHANGED << pending, realised >>

-----------------------------------------------------------------------------
(* Gates and entries. *)

ExitsDone == phase = "exits" /\ todo = {}

\* SPY bullish, or bearish with bear-phase entries, and VIX at or below its limit.
RegimeAllows ==
  /\ ExitsDone
  /\ equity' = Value /\ open' = Refreshed
  /\ risk' \in {RiskPct, BearRiskPct}
  /\ phase' = "scan"
  /\ UNCHANGED << today, bar, settled, pending, todo, curveEnd, realised >>

RegimeBlocks ==
  /\ ExitsDone
  /\ phase' = "regime"
  /\ UNCHANGED << today, bar, settled, pending, open, todo, equity, risk, curveEnd,
                  realised >>

Price(s) == (IF bar[s].open > bar[s].close THEN bar[s].open ELSE bar[s].close)
              + Slippage

\* Mutant: the bucket of the whole account is given to each candidate.
QtyOfAllCash(s, slots) ==
  Least((equity * risk) \div (100 * Price(s)),
        (Capital * DeployPct) \div (100 * Price(s)))

\* _whole_share_qty, with the bucket of _calc_entry_allocation
Qty(s, slots) ==
  Least((equity * risk) \div (100 * Price(s)),
        (settled * DeployPct) \div (100 * slots * Price(s)))

\* The allocation is computed again for every candidate.
Enter(s) ==
  /\ phase = "scan" /\ s \notin Held /\ HasBar(s)
  /\ LET slots == BacktestSlots(equity, settled, Cardinality(Held))
         qty   == Qty(s, slots)
     IN  /\ slots > 0 /\ qty >= 1
         /\ settled' = settled - Price(s) * qty
         /\ open' = [ open EXCEPT ![s] =
                        [ qty |-> qty, entry |-> Price(s),
                          peak |-> IF bar[s].high > Price(s) THEN bar[s].high
                                   ELSE Price(s),
                          last |-> Price(s), gaps |-> 0, bars |-> 0 ] ]
  /\ UNCHANGED << today, phase, bar, pending, todo, equity, risk, curveEnd,
                  realised >>

\* The day gets its point of the curve; the locals of the day are dead afterwards.
DayEnds ==
  /\ phase \in {"regime", "scan"}
  /\ curveEnd' = (IF today = Days THEN Value ELSE 0) /\ open' = Refreshed
  /\ equity' = 0 /\ risk' = RiskPct
  /\ IF today < Days
     THEN phase' = "morning" /\ todo' = {} /\ bar' = [ s \in Symbols |-> NoBar ]
     ELSE phase' = "period" /\ todo' = Held /\ bar' = bar
  /\ UNCHANGED << today, settled, pending, realised >>

-----------------------------------------------------------------------------
(* After the last day. *)

\* Mutant: the point of the last day is left as it was.
EndOfPeriodKeepsPoint(s) ==
  /\ phase = "period" /\ s \in todo
  /\ todo' = todo \ {s}
  /\ settled' = settled + open[s].last * open[s].qty - Fee
  /\ realised' = realised + (open[s].last - open[s].entry) * open[s].qty - Fee
  /\ open' = [ open EXCEPT ![s] = NoTrade ]
  /\ UNCHANGED << today, phase, bar, pending, equity, risk, curveEnd >>

\* What is still open is sold at its last bar; the point of that day is replaced.
EndOfPeriod(s) ==
  /\ phase = "period" /\ s \in todo
  /\ todo' = todo \ {s}
  /\ settled' = settled + open[s].last * open[s].qty - Fee
  /\ realised' = realised + (open[s].last - open[s].entry) * open[s].qty - Fee
  /\ curveEnd' = IF open[s].gaps = 0 THEN settled' + PendingTotal ELSE curveEnd
  /\ open' = [ open EXCEPT ![s] = NoTrade ]
  /\ UNCHANGED << today, phase, bar, pending, equity, risk >>

Report ==
  /\ phase = "period" /\ todo = {}
  /\ phase' = "done"
  /\ UNCHANGED << today, bar, settled, pending, open, todo, equity, risk, curveEnd,
                  realised >>

Next ==
  \/ Morning \/ RegimeAllows \/ RegimeBlocks \/ DayEnds \/ Report
  \/ \E s \in Symbols : \/ DataGap(s) \/ StopHit(s) \/ ExitAtClose(s) \/ Survives(s)
                        \/ Enter(s) \/ EndOfPeriod(s)

Spec == Init /\ [][Next]_vars

-----------------------------------------------------------------------------
(* Properties. *)

\* What was paid for the open positions.
Invested == Total([ s \in Symbols |-> open[s].entry * open[s].qty ])

\* No cash is made or lost: what is in the account, on its way into it and paid
\* for open positions is the capital and what the closed trades report.
CashConserved == settled + PendingTotal + Invested = Capital + realised

\* Proceeds are never there on the day of the sale, so no entry can spend them.
SettlesLater ==
  \A d \in Day : pending[d] # 0 => d > today \/ d = Days

\* The account never owes cash, whatever the number of entries on a day.
NeverOverdrawn == settled >= 0

\* An entry leaves no more positions than the equity of the scan carries.
EntriesWithinEquity ==
  [][Cardinality(Held') > Cardinality(Held)
       => Cardinality(Held') <= BacktestMaxPositions(equity)]_vars

\* The report's final equity, capital and the sum of net P&L, is where the curve
\* it computes the return from ends, if every symbol has a bar on the last day.
CurveEndsAtFinalEquity ==
  phase = "done" /\ (\A s \in Symbols : HasBar(s)) => curveEnd = Capital + realised
===============================================================================
