---------------------------- MODULE SoftwareExits ----------------------------
(***************************************************************************)
(* manage_position_exits and _update_position_prices for one position and, *)
(* after a re-entry, its successor in the same symbol: hard stop, degraded *)
(* hard stop on a cached price, rating and indicator exits, time stop,     *)
(* stale-loser exit and momentum check, with quotes that may be missing    *)
(* and exits that may be deferred.  Positions are independent here.        *)
(*                                                                         *)
(* Prices are percentages of the entry price.  A cycle is the unit of      *)
(* time; the last cycle of a day is in the end-of-day window.  Ratings,    *)
(* indicators and the closes of the momentum check are left open.  The     *)
(* Friday close and the quality cleanup are off in the only profile.       *)
(* A record made by the sync has no terms of a stop until the audit has    *)
(* found or placed one; the refresh moves the peak only of records with.   *)
(***************************************************************************)
EXTENDS Integers, FiniteSets

CONSTANTS
  Prices,       \* prices the market may show, 100 is the entry price
  HardStop,     \* 100 - HARD_STOP_PCT
  Buffer,       \* HARD_STOP_STALE_BUFFER_PCT
  MaxAge,       \* PRICE_STALE_MAX_AGE_SEC, in cycles
  AlertStreak,  \* POSITION_PRICE_BLACKOUT_STREAK_ALERT
  HoldBars,     \* time_stop_bars of the profile
  LoserBars,    \* STALE_POSITION_MIN_BARS
  LoserBelow,   \* 100 + STALE_POSITION_MAX_LOSS_PCT
  LoserPeak,    \* 100 + STALE_POSITION_MAX_PEAK_PCT
  Lookback,     \* MOMENTUM_HOLD_LOOKBACK_DAYS
  Interval,     \* MOMENTUM_HOLD_CHECK_INTERVAL_DAYS
  Cycles,       \* cycles of a session
  Days,         \* calendar days; the last one does not end
  Sessions,     \* the days the market is open
  MaxFaults,    \* adverse events per behaviour
  Faults        \* which adverse events may happen (see FaultKinds)

FaultKinds ==
  { "noQuote",   \* no fresh price when one is asked for
    "deferred",  \* liquidate cannot confirm its cancels, or its SELL fails
    "reentry" }  \* the symbol is bought again on the day it was sold

ASSUME ExitsAssumption ==
  /\ {HardStop, Buffer, MaxAge, AlertStreak, HoldBars, LoserBars, LoserBelow,
      LoserPeak, Lookback, Interval, Cycles, Days, MaxFaults} \subseteq Nat
  /\ HardStop <= 100 /\ AlertStreak > 0 /\ Cycles > 0
  /\ Prices \subseteq Nat \ {0}
  /\ Sessions \subseteq 1 .. Days /\ 1 \in Sessions
  /\ Faults \subseteq FaultKinds

VARIABLES
  held,     \* does the account hold the position
  price,    \* what the market shows
  rec,      \* its record in self.state
  misses,   \* _exit_price_miss_counts of the symbol
  day,      \* the calendar day
  cycle,    \* the cycle of the day
  pc,       \* where the engine is
  why,      \* the reason liquidate was called with
  faults,   \* adverse events still to come at most
  own,      \* history: passes in a row without a price for this position, today
  alerted,  \* history: the operator was told of them
  inherited, \* history: the passes the symbol's last owner left in the streak
  best,     \* history: the highest price shown by a quote of an exit pass, or of a
            \* refresh once the record had the terms of its stop
  missed    \* history: has any other refresh shown a gain

engine == << rec, misses, why >>
clock  == << day, cycle >>
past   == << own, alerted, inherited, best, missed >>
vars   == << held, price, engine, clock, pc, faults, past >>

Reasons == { "none", "hard_stop", "hard_stop_stale_price", "signal", "time_stop",
             "stale_losing_exit", "momentum_stall" }
Larger(x, y)  == IF x > y THEN x ELSE y
Capped(x, n)  == IF x > n THEN n ELSE x

\* The entry writes the terms of the stop into its record (trail); the sync, which
\* recovers a position from the broker, does not.
NewRecord(d, trail) ==
  [ tracked |-> TRUE, exiting |-> FALSE, cached |-> 0, age |-> 0,
    peak |-> 100, entered |-> d, checked |-> 0, trail |-> trail ]
NoRecord == [ NewRecord(1, FALSE) EXCEPT !.tracked = FALSE ]

\* Counts stop at the bounds past which nothing depends on them.
TypeOK ==
  /\ held \in BOOLEAN /\ price \in Prices
  /\ rec \in [ tracked : BOOLEAN, exiting : BOOLEAN, cached : Prices \cup {0},
               age : 0 .. MaxAge + 1, peak : Prices \cup {100},
               entered : Sessions, checked : Sessions \cup {0}, trail : BOOLEAN ]
  /\ misses \in 0 .. AlertStreak + 1 /\ own \in 0 .. AlertStreak
  /\ inherited \in 0 .. AlertStreak + 1
  /\ day \in Sessions /\ cycle \in 1 .. Cycles
  /\ pc \in {"manage", "liquidate", "refresh", "between"} /\ why \in Reasons
  /\ faults \in 0 .. MaxFaults
  /\ alerted \in BOOLEAN /\ best \in Prices \cup {0} /\ missed \in BOOLEAN

Init ==
  /\ held = TRUE /\ price \in Prices
  /\ rec \in { NewRecord(1, trail) : trail \in BOOLEAN } /\ misses = 0
  /\ day = 1 /\ cycle = 1 /\ pc = "manage" /\ why = "none"
  /\ faults = MaxFaults
  /\ own = 0 /\ alerted = FALSE /\ inherited = 0 /\ best = 0 /\ missed = FALSE

Fault(kind) ==
  /\ kind \in Faults /\ faults > 0
  /\ faults' = faults - 1

-----------------------------------------------------------------------------
(* The audit before it, and one pass of manage_position_exits. *)

\* The audit finds a TRAIL of the position, or places one; it may fail any number of
\* times.
Audited ==
  /\ pc = "manage" /\ rec.tracked /\ ~rec.exiting /\ ~rec.trail
  /\ rec' = [ rec EXCEPT !.trail = TRUE ]
  /\ UNCHANGED << held, price, misses, why, clock, pc, faults, past >>

LookedAt == pc = "manage" /\ rec.tracked /\ ~rec.exiting

\* _count_trading_days
BarsHeld == Cardinality({ d \in Sessions : rec.entered <= d /\ d < day })

Calls(reason) == pc' = "liquidate" /\ why' = reason

\* Mutant: the alert comes one pass late.
UnpricedAlertsLate ==
  /\ LookedAt /\ Fault("noQuote")
  /\ misses' = Capped(misses + 1, AlertStreak + 1)
  /\ own' = Capped(own + 1, AlertStreak)
  /\ alerted' = (alerted \/ misses = AlertStreak)
  /\ pc' = "refresh"
  /\ UNCHANGED << held, price, rec, why, clock, inherited, best, missed >>

\* No quote: the streak is counted, and only a recent cached price deep under the
\* entry still sells.
Unpriced ==
  /\ LookedAt /\ Fault("noQuote")
  /\ misses' = Capped(misses + 1, AlertStreak + 1)
  /\ own' = Capped(own + 1, AlertStreak)
  /\ alerted' = (alerted \/ misses + 1 = AlertStreak)
  /\ IF rec.cached # 0 /\ rec.age <= MaxAge /\ rec.cached <= HardStop - Buffer
     THEN Calls("hard_stop_stale_price")
     ELSE pc' = "refresh" /\ UNCHANGED why
  /\ UNCHANGED << held, price, rec, clock, inherited, best, missed >>

\* A quote ends the streak and is written to the record; the exit rules follow.
Priced ==
  /\ LookedAt
  /\ misses' = 0 /\ own' = 0 /\ alerted' = FALSE /\ inherited' = 0
  /\ best' = Larger(best, price)
  /\ UNCHANGED << held, price, clock, faults, missed >>

Quoted   == [ rec EXCEPT !.cached = price, !.age = 0 ]
WithPeak == [ Quoted EXCEPT !.peak = Larger(@, price) ]

PricedHardStop ==
  /\ Priced /\ price <= HardStop
  /\ rec' = Quoted
  /\ Calls("hard_stop")

AboveHardStop == Priced /\ price > HardStop

\* A bearish rating confirmed by the price, or the exit of the entry's indicator.
SignalExit ==
  /\ AboveHardStop
  /\ rec' = WithPeak
  /\ Calls("signal")

TimeStopDue == BarsHeld >= HoldBars /\ price <= 100

TimeStop ==
  /\ AboveHardStop /\ TimeStopDue
  /\ rec' = WithPeak
  /\ Calls("time_stop")

LoserDue ==
  /\ cycle = Cycles /\ BarsHeld >= LoserBars
  /\ price < LoserBelow /\ WithPeak.peak < LoserPeak

StaleLoser ==
  /\ AboveHardStop /\ ~TimeStopDue /\ LoserDue
  /\ rec' = WithPeak
  /\ Calls("stale_losing_exit")

CheckDue ==
  /\ BarsHeld >= Lookback
  /\ rec.checked = 0 \/ day - rec.checked >= Interval

Unhurried == AboveHardStop /\ ~TimeStopDue /\ ~LoserDue

\* The date is written before the exit is tried.
MomentumStalls ==
  /\ Unhurried /\ CheckDue
  /\ rec' = [ WithPeak EXCEPT !.checked = day ]
  /\ Calls("momentum_stall")

MomentumHolds ==
  /\ Unhurried /\ CheckDue
  /\ rec' = [ WithPeak EXCEPT !.checked = day ]
  /\ pc' = "refresh" /\ UNCHANGED why

\* No check is due, or the daily history for it is not there.
Keeps ==
  /\ Unhurried
  /\ rec' = WithPeak
  /\ pc' = "refresh" /\ UNCHANGED why

\* Mutant: the pass ends without the exit.
SendsNothing ==
  /\ pc = "liquidate"
  /\ pc' = "refresh" /\ why' = "none"
  /\ UNCHANGED << held, price, rec, misses, clock, faults, past >>

\* liquidate: the SELL goes out, or the record keeps the position as it is.
Sends ==
  /\ pc = "liquidate"
  /\ rec' = [ rec EXCEPT !.exiting = TRUE ]
  /\ pc' = "refresh" /\ why' = "none"
  /\ UNCHANGED << held, price, misses, clock, faults, past >>

Defers ==
  /\ pc = "liquidate" /\ Fault("deferred")
  /\ pc' = "refresh" /\ why' = "none"
  /\ UNCHANGED << held, price, rec, misses, clock, past >>

NothingToManage ==
  /\ pc = "manage" /\ (~rec.tracked \/ rec.exiting)
  /\ pc' = "refresh"
  /\ UNCHANGED << held, price, engine, clock, faults, past >>

-----------------------------------------------------------------------------
(* _update_position_prices, and the sync of the next cycle. *)

\* Mutant: the price is refreshed and the peak is not.
RefreshedWithoutPeak ==
  /\ pc = "refresh" /\ rec.tracked
  /\ rec' = Quoted
  /\ IF rec.trail THEN best' = Larger(best, price) /\ UNCHANGED missed
                  ELSE missed' = (missed \/ price >= LoserPeak) /\ UNCHANGED best
  /\ pc' = "between"
  /\ UNCHANGED << held, price, misses, why, clock, faults, own, alerted, inherited >>

\* The cached price moves, and the peak if the record has the terms of its stop; the
\* streak of misses does not end.
Refreshed ==
  /\ pc = "refresh" /\ rec.tracked
  /\ IF rec.trail
     THEN rec' = WithPeak /\ best' = Larger(best, price) /\ UNCHANGED missed
     ELSE rec' = Quoted /\ missed' = (missed \/ price >= LoserPeak) /\ UNCHANGED best
  /\ pc' = "between"
  /\ UNCHANGED << held, price, misses, why, clock, faults, own, alerted, inherited >>

NotRefreshed ==
  /\ pc = "refresh"
  /\ IF rec.tracked THEN Fault("noQuote") ELSE UNCHANGED faults
  /\ pc' = "between"
  /\ UNCHANGED << held, price, engine, clock, past >>

Synced == IF ~held THEN NoRecord ELSE [ rec EXCEPT !.exiting = FALSE ]

NextCycle ==
  /\ pc = "between" /\ cycle < Cycles
  /\ cycle' = cycle + 1
  /\ rec' = [ Synced EXCEPT !.age = Capped(@ + 1, MaxAge + 1) ]
  /\ pc' = "manage"
  /\ UNCHANGED << held, price, misses, why, day, faults, past >>

\* Mutant: weekends are sessions.
NextCalendarDay ==
  /\ pc = "between" /\ cycle = Cycles /\ day < Days
  /\ day' = day + 1 /\ cycle' = 1
  /\ rec' = [ Synced EXCEPT !.age = MaxAge + 1 ]
  /\ misses' = 0 /\ own' = 0 /\ alerted' = FALSE /\ inherited' = 0
  /\ pc' = "manage"
  /\ UNCHANGED << held, price, why, faults, best, missed >>

\* The first cycle of a session forgets the misses of the last one.
NextSession ==
  /\ pc = "between" /\ cycle = Cycles
  /\ \E d \in Sessions :
       /\ d > day /\ \A e \in Sessions : e <= day \/ d <= e
       /\ day' = d
  /\ cycle' = 1
  /\ rec' = [ Synced EXCEPT !.age = MaxAge + 1 ]
  /\ misses' = 0 /\ own' = 0 /\ alerted' = FALSE /\ inherited' = 0
  /\ pc' = "manage"
  /\ UNCHANGED << held, price, why, faults, best, missed >>

\* The calendar of the model ends here: the last cycle is repeated.
LastCycle ==
  /\ pc = "between" /\ cycle = Cycles /\ \A d \in Sessions : d <= day
  /\ rec' = [ Synced EXCEPT !.age = Capped(@ + 1, MaxAge + 1) ]
  /\ pc' = "manage"
  /\ UNCHANGED << held, price, misses, why, clock, faults, past >>

-----------------------------------------------------------------------------
(* The market, the broker, and entries. *)

\* Between the pass and the refresh lie the scan and the entries.
Moves ==
  /\ pc \in {"refresh", "between"} /\ held
  /\ price' \in Prices \ {price}
  /\ UNCHANGED << held, engine, clock, pc, faults, past >>

StopFires ==
  /\ pc = "between" /\ held /\ ~rec.exiting
  /\ held' = FALSE
  /\ UNCHANGED << price, engine, clock, pc, faults, past >>

SellFills ==
  /\ pc = "between" /\ held /\ rec.exiting
  /\ held' = FALSE
  /\ UNCHANGED << price, engine, clock, pc, faults, past >>

\* The entry that buys it sees the fill, or leaves it to the sync to recover.
Reenter ==
  /\ pc = "between" /\ ~held /\ ~rec.tracked /\ Fault("reentry")
  /\ held' = TRUE /\ price' \in Prices
  /\ rec' \in { NewRecord(day, trail) : trail \in BOOLEAN }
  /\ own' = 0 /\ alerted' = FALSE /\ inherited' = misses /\ best' = 0 /\ missed' = FALSE
  /\ UNCHANGED << misses, why, clock, pc >>

Pass ==
  \/ Audited \/ Unpriced \/ PricedHardStop \/ SignalExit \/ TimeStop \/ StaleLoser
  \/ MomentumStalls \/ MomentumHolds \/ Keeps \/ Sends \/ Defers \/ NothingToManage
Between == Refreshed \/ NotRefreshed \/ NextCycle \/ NextSession \/ LastCycle
World   == Moves \/ StopFires \/ SellFills \/ Reenter

Next == Pass \/ Between \/ World

\* The engine keeps cycling and a market SELL fills before the next cycle, or in one
\* of the cycles that try it again.
Fairness == WF_vars(Pass \/ Between) /\ SF_vars(SellFills)

Spec     == Init /\ [][Next]_vars
FairSpec == Spec /\ Fairness

-----------------------------------------------------------------------------
(* Properties. *)

\* Software gets a position out whose price stays at or under the hard stop, or
\* that has had its bars and stays at or under its entry price, although quotes
\* fail, exits are deferred and the stop at the broker never fires.
LosersLeave ==
  []<>(~held \/ ~(price <= HardStop \/ TimeStopDue))

\* A position that showed a gain is not sold as one that never did, whichever part of
\* whichever cycle asked for the quote: the exit passes, and the refreshes once the
\* record has the terms of its stop, which the audit may write late.
NoLoserExitAfterGain == why = "stale_losing_exit" => best < LoserPeak

\* The same of every quote (GainForgotten.cfg).
EveryGainCounts == why = "stale_losing_exit" => best < LoserPeak /\ ~missed

\* The operator has been told of every position without a price for as many
\* management passes in a row as the configuration says, unless the streak had
\* been reported already for an earlier position of the symbol on that day.
BlackoutAlerted == own = AlertStreak /\ inherited < AlertStreak => alerted

\* The same of every position (BlackoutForgotten.cfg).
EveryBlackoutAlerted == own = AlertStreak => alerted
=============================================================================
