# VelocityEngine in TLA+

VelocityEngine is an automatic swing trader for an IBKR *cash* account: it scans for entries, buys, protects every
position with a broker-side TRAIL order, sells on software rules, and has to survive restarts, slow or refused
orders, and an account picture that lags behind the broker. This directory holds TLA+ models of it, the TLC
configurations that check them, and proofs checked by TLAPS. `PROJECT.json` lists the runs, the definitions with
the source lines they stand for, the hazards and the theorems.

    tlc -workers 2 -config StopProtectionGap.cfg MCStopProtection.tla
    tlc -workers 2 -config PositionBooks.cfg MCPositionBooks.tla
    tlapm SupervisorProofs.tla

## 1. The system

One Python thread (`src/src/engine.py`, class `VelocityEngine`, assembled from mixins) talks to IB Gateway through
`ib_async`. There are no other threads: interleaving comes from the points where the engine yields to the event
loop (`ib.sleep`, `loopUntil`, a request). While it waits, orders fill, are cancelled or are rejected, the operator
acts, and `ib_async` updates the trade objects the engine holds *in place*.

| component | source | state it keeps | operations | what makes it correct |
|---|---|---|---|---|
| Run loop | `engine.py` | `_day_start_*`, `_cycle_committed_cash`, blackout streak | `run`, `run_cycle` | protection and exits never wait for entry gates; an exception loses no decision |
| Position sync | `engine_entries.py` 395-577 | `self.state`, `_missing_position_counts` | `_sync_positions_from_ibkr`, `_initialize` | a held position is tracked; a record is dropped only when the broker is flat, and its orders with it |
| Stop audit | `engine_orders.py` | `protection_status`, `stop_order_id`, `_last_audit_*` | `_audit_stop_orders`, gate replacement and restoration, three schedules | every share tracked is covered by one working TRAIL, or the gap is flagged |
| Liquidation | `engine_orders.py` 1047-1236 | `pending_exit` | `liquidate`, cancel and wait, orphan cleanup | never two SELLs for the same shares; a failed exit restores protection; no audit undoes an exit |
| Entries and cash | `engine.py` 172-1000, `engine_entries.py` 282-342, 829-1215 | settled cash, slots, buckets, sectors | scan, rank, size, BUY, Bollinger path | no more positions or money than allowed, in a cycle that buys several times |
| Software exits | `engine_exits.py` | peaks, miss counts, end-of-day flag | `manage_position_exits` | an exit decision is taken once and not lost |
| Market gates | `engine_market.py` | VIX and SPY caches, cooldowns | `_fetch_vix_price`, `_fetch_spy_trend` | no entry on stale or missing data |
| Scanner, prefilter | `engine_scanner.py` | prefilter status, checkpoint file | premarket sieve, cache, resume | a half-finished sieve is never taken for a finished one |
| Ledger | `trade_ledger.py` | `trade_ledger.json` | `open_trade`, `close_trade` | one record per round trip, across restarts |
| Connection, alerts | `engine_base.py`, `ib_gateway.py` | back-off, alert times | `_reconnect`, `_alert` | no cycle runs while disconnected |
| State file | `engine_base.py` 850-889 | `engine_state.json` | `save_state`, `load_state` | what was decided survives a crash |
| Supervisor, lock | `start_trader.sh`, `auto_trader.py` | heartbeat, pid, lock file | watchdog, restart, flock | at most one engine, and one that hangs is restarted |
| Backtest | `backtest/strategy.py` | cash, settlements, positions | day loop, sizing, exits | it spends settled cash only |
| Dashboard, scoring, indicators, ratings, tools | the rest | none that trades | formulas, HTTP, reports | not modelled, see section 8 |

How they interact: `run_cycle` calls, in this order, the connection check, the sync, FORCE_EXIT (liquidate
everything and return), off-hours jobs, the daily audit, the 9:15 and 9:35 checkpoints, and outside the session it
returns there. In the session it reads the account, manages exits (which liquidate), passes the entry gates, scans,
and buys in descending score; each BUY is followed by its own stop, and a BUY that does not fill by a sync and an
audit of *all* positions. The standalone Bollinger entry comes last. Shared state: `self.state` and the broker's
order book; nothing tells the engine that an order was cancelled except the status it looks at.

What is hard here: a snapshot of orders that is acted upon while the orders move; a cancel that lands later than the
code waits for it; a position without a stop between a cancel and its replacement; an exit that is still working
when the next cycle syncs and audits; a record whose flag decides whether the audit looks again today or tomorrow;
a crash between a decision and its effect; account values, a position snapshot or an order id that are stale when
they are used.

## 2. Modules

| module | models |
|---|---|
| `Brokerage` | the broker, the operator and the clock for one symbol: what `cancelOrder` and `placeOrder` do, fills, refusals, cancels, day changes |
| `StopProtection` | the engine's handling of one symbol: startup, sync, audits, gate replacement, entry, liquidation, crash and restart |
| `MCStopProtection` | what the engine may find when it starts, for TLC |
| `Sizing` | how many positions an account carries and how large each is, the live calculation and the backtest's copy |
| `EntryRound`, `MCEntryRound` | the money part of `run_cycle`: account, loss breaker, slots and buckets, candidates, the Bollinger entry; three candidates in two sectors |
| `RoundTrips` | abstract: what a trade ledger promises about the positions an account has had |
| `PositionBooks`, `MCPositionBooks` | record, state file and ledger of several symbols against a positions cache that runs behind; implements `RoundTrips` |
| `SoftwareExits` | `manage_position_exits` and the price refresh for one position over several sessions |
| `MarketGates` | connection, warm-up, VIX, SPY and data blackout, between a cycle and the entries of both paths |
| `Prefilter` | the premarket sieve, its checkpoints and its file, written by two processes |
| `Backtest`, `MCBacktest` | the day loop of the backtest: a cash account with T+1 settlement |
| `Supervisor`, `MCSupervisor` | the shells that run `start_trader.sh`, the engine processes they start, watch and kill, and the instance lock |
| `*Proofs` | theorems about the module of that name, checked by TLAPS (all but `Sizing` and `RoundTrips`, whose facts stand with their users) |

How they compose. `StopProtection` extends `Brokerage`; `EntryRound` and `Backtest` extend `Sizing`; `PositionBooks`
instantiates `RoundTrips` with its own variables. The others meet at choices left open: whether an exit is due is free in `StopProtection`,
`EntryRound` and `PositionBooks` and decided in `SoftwareExits`; whether the gates let an entry through is free in
`EntryRound` and decided in `MarketGates`; which candidates there are is free there and decided in `Prefilter`. A
property of one module therefore holds with whatever the others decide.

### Brokerage and StopProtection

State. `st` is `self.state[sym]` reduced to what the control looks at: tracked or not, quantity,
`protection_status`, whether a stop distance and level are recorded, `stop_order_id`, `pending_exit`. `disk` is the
same record in `engine_state.json`. `miss`, `auditToday`, `auditPhase`, `checked` are `_missing_position_counts`,
`_last_audit_date`, `_last_audit_at` and the two checkpoint dates. `ord` is the broker's order book for the symbol:
type, quantity, status, day of the activation gate (`goodAfterTime`), owner, and whether a TRAIL is in dollars.
`held` is the position, `phase` the time of day (before 9:15, before the gate, after 9:35).

Actions. `pc` names the point at which the engine yields or is about to call the next routine of `run_cycle`; an
action is the code from one such point to the next, with every assignment and save on the way. So the audit is
`AuditScan` (the snapshot), `AuditSweep` (cancel what does not match), then one of `AuditKeep`, `AuditConvert`,
`AuditRegate` or `NoneLeft`, and so on; `liquidate` is `ExitCancel`, the wait, `ExitPlace`, the wait, `ExitSettled` or
one of the failures, each of which audits again. Broker steps may come between any two.

A sync saves once, at its end (`engine_entries.py` 576-577). When it drops another symbol's record it first sleeps while it
cancels that symbol's orders, and the change it made to this one is in memory only (`SyncEnds`, label `syncSave`, `SyncSave`);
a crash there finds the old record. `PersistedAtYields` says what such a crash loses: nothing but what the next sync reads again.

Adverse events (`FaultKinds`) are the failures the code handles or mentions: rejections, preflight refusals, calls that
raise, late cancels, an exit that takes more than 30 s, unsolicited cancels, manual trades, quantity changes, a failed
position request, FORCE_EXIT, and a crash. `Faults` selects them per run and `MaxFaults` bounds how many happen.

Abstractions, each named in the modules: prices are only set or not set; whether an entry or a software exit is due is
a free choice; the time of day moves between two cycles (`Clock`); a market exit that is working in session needs the
event `exitTimeout` to outlast the 30 s; without `slowCancel` a cancel lands within the wait that follows it
(`CancelsLanded`); other symbols appear as the audits and syncs they cause (`OthersNotFilled`, `OthersAudit`).
Outside the session no software exit and no entry runs, as in the code.

### EntryRound

State. `tag` is `self.state[s]['entry_strategy']` of every tracked symbol, `"unknown"` for `unknown_recovered`. `lots`,
`buys`, `cash`, `unsettled` are the broker's books; `unposted` is what has been spent but is still in the
`SettledCash` the broker reports. `equity`, `settled`, `alloc`, `slots`, `placed`, `signals` are the locals of
`run_cycle`, kept at one value where they are dead (`ScanOver`); `committed` is `_cycle_committed_cash`, `dayStart`
`_day_start_equity`. `exposed`, `tripped` and `excused` are history variables the properties read.

Actions. `CycleSync`, `ReadAccount` (with the breaker), `Exit` (`manage_position_exits`, also between candidates),
`Scan`, `Buy` or `Skip`, `Bought` or `NotBought`, `AfterCancel`, `Protected`, `LoopOver`; then `BollingerBuy` through
the same wait. The broker fills a BUY only if settled cash pays for it; a fill while the cancel is under way, a cancel
that raises, one that is not confirmed when the engine goes on, and a crash are the adverse events. The engine sleeps after a
cancel and does not look for its answer (`Sleeps`): it goes on in either case, and a slow cancel is counted as an event. After a crash, `Boot` cancels the BUYs of symbols neither tracked nor
held, and `BootSync` recovers what was filled.

Abstractions. Money is in small whole units; shares times price is exact. Positions are sold at cost. The stop is
confirmed or not (how is StopProtection's). Scores are dropped: any candidate may come next. `Sync` drops a record
whose position is gone at once or later, which covers the two-miss rule. Before the next cycle `SettledCash` has caught
up (`CycleSync`): the code relies on it between cycles, and subtracts `_cycle_committed_cash` within one cycle only. The
broker has room for `MaxFaults + 1` BUYs: the engine waits for one, and any other was left behind by an event. BUYs are filled whole, as `allOrNone` says.

### PositionBooks and RoundTrips

`RoundTrips` has the account (`held`, `trips`: how many positions of a symbol were opened so far) and the closed rows of
the ledger. A row may appear only for a position that has ended, and is either made from that position's own open record
or marked (`closed_without_open_record`, entry 0); only a marked one may repeat a position that has a row. `PositionBooks`
implements it: `RT == INSTANCE RoundTrips WITH ...` maps the account to `held` and `trips` and the rows to `history`, and
`KeepsRoundTrips == RT!Spec`.

State. `rec`, `disk`, `miss` are `self.state`, `engine_state.json` and `_missing_position_counts`; `open` and `history`
are `TradeLedger._open` and `_closed`; `seen` is what `ib.positions()` shows. Positions are numbered per symbol, so
that a row or a record says which one it is of. `pc` stops between two files the code writes, so a crash may come
between the ledger's row and the record's removal (`DropClose`, `DropRecord`), or between the record of an entry and
the ledger's (`RecordEntry`, `LedgerEntry`).

Actions. `SyncCached`, `SyncRechecked` or `SyncSkipped` (every tracked symbol reads as flat: one fresh request, or the
cycle's sync is given up), `Present` in it, `Defer` (first miss), `DropClose` and `DropRecord` (second), `SyncEnds`;
`liquidate` as `ExitDeferred`, `ExitSends`, `ExitFilled`, `ExitRejected`, `ExitUnconfirmed`, and, when its own look at
the cache does not find the symbol, `ExitNoPosition` and `ExitDropsRecord`; entries with a fill in time or late.
Stops, manual sales and market SELLs end positions at any point; `CatchUp` brings the cache up to date and `CacheDrops`
loses symbols from it, but not more than `MaxBehind` syncs in a row find it wrong (`CacheTimely`): with two, the code's
"second confirming snapshot" confirms nothing, which the code accepts. The event `blind` lets `liquidate` and entries
act on a symbol the cache is wrong about (see `SnapshotBelieved.cfg` in section 6).

### SoftwareExits

`rec` is the record with cached price and its age, peak, entry day and day of the last momentum check; `misses` is
`_exit_price_miss_counts`; `own`, `alerted`, `best` and `missed` are histories. Prices are percentages of the entry price and a
cycle is the unit of time; the last cycle of a day is in the end-of-day window. One disjunct per rule, in the order of
the code: `Unpriced` (with the degraded hard stop on a cached price), `PricedHardStop`, `SignalExit`, `TimeStop`,
`StaleLoser`, `MomentumStalls`, `MomentumHolds`, `Keeps`; then `Sends` or `Defers` for `liquidate`, `Refreshed` or
`NotRefreshed` for `_update_position_prices`. `BarsHeld` counts trading days as `_count_trading_days` does, with
weekends and holidays as days that are not in `Sessions`. Whether a rating, an indicator or the momentum window asks
for an exit is open. `rec.trail` says that the record has the terms of its stop (`stop_dist`, `stop_mode`): an entry writes
them, a position the sync recovers has them only after an audit found or placed its TRAIL (`Audited`), and the refresh moves the peak only
of a record that has them. The Friday close and the quality cleanup are off in the only profile and left out.

### MarketGates

`last`, `age`, `fails`, `wait`, `contract` are the VIX reading, its age, the failures in a row, the cool-down and
the qualified contract; `spy` the trend cached for the day; `streak`, `alerted` the data blackout. `gate` and `step`
name the entry path (`swing`, then `boll`) and the gate it has come to. Time passes with cycles, warm-up attempts and
scans. `Forgets` is the line in which `run_cycle`, and only it, sets `_last_vix` to `None` while the time of the
reading stays. The VIX of the model is what the broker shows, be it a price or a close that stands in for one: that a
previous close may be shown is the code's choice and no staleness in the sense of the property.

### Prefilter

`file` is the list on disk with its date, status, candidates and processed symbols, `mem` what the engine remembers,
`lastRun` `_last_premarket_prefilter_date`, `rolled` `_day_start_date`, `run` the sieve the engine or the script is in.
Every symbol has a verdict of the day (fails, fits, reverts). `Screen` is one turn of the loop with its checkpoint and
its look at the clock, `Completes` and `Aborts` are its ends, `DayBegins` the reset of the first cycle of a session and
its reading of the file, `Scan` the reading before a scan. The script runs the same loop in a process of its own, and
nothing keeps the two apart: `ScriptStarts` and the script's deletion of the list (`ScriptForced`) have no guard on clock or
engine, and the engine's `EngineStarts` none on the script. The field `heeds` of a run is `APP_PREFILTER_STOP_AT_ENTRY_START`,
which `--ignore-entry-cutoff` switches off: by default the script stops at ENTRY_START as the engine does, and one that began
after midnight, or goes on beyond it, does not. The field `alone` is history: no other sieve has been on since the run began.
`OffersQualified` and `CompleteIsWhole` hold however the two overlap; `NotScreenedTwice` and `ListOnlyGrows` say what a run that
was alone keeps, since each run writes the whole file from its own lists (section 6, `ListShrinks.cfg`).

### Backtest

`settled`, `pending`, `open`, `equity`, `risk` are the locals of `_run_loop`; `realised` sums `net_pnl`, `curveEnd` is
the last point of the equity curve. `Morning` settles what is due and draws the bars of the day; then every open
position has one of `DataGap`, `StopHit`, `ExitAtClose`, `Survives`; the regime allows or blocks; `Enter` sizes from
what is left of settled cash and slots at that moment; `DayEnds`; after the last day `EndOfPeriod` and `Report`. Stops,
fills and quantities are computed as in the code, in integers; slippage is an amount and a trade's commission one fee.

### Supervisor

State. `sup[s]` is the command a shell is at: `top` (head of the loop), `forked` (between `&` and `child_pid="$!"`),
`watch` (`while child_is_running`), `look`, `term`, `polls`, `nap` (the watchdog), `stop` (`stop_child` waits), `delay`;
`kid`, `left` and `sig` are its process, what is left of a sleep, and a signal whose trap has not run. `proc[p]` follows
`auto_trader.py` from `loading` over the lock to `trading` or `reconnecting`; `hung`, `age` and `quiet` say whether it makes progress,
how old it is and since when it gave no sign of life. `lock` is the `flock`, `lockPid` the text of the file, `beat` the age
of `dashboard_data.json`. `screened` is a history: the time since somebody without the lock wrote that file.

Actions. One per command of the loop (`Forks`, `Records`, `Watches`, `Disables`, `LooksWell` or `LooksStale`, `Terminates`, `PollsOver`,
`Wakes`, `Reaps`, `Restarts`, `Trap`), the engine's `TakesLock`, `FindsLocked`, `WritesPid`, `Beat`, and a clock, `Tick`, that passes
only while every shell sleeps or waits. A trap runs between two commands: a signal during a sleep waits for its end, one
between `&` and the next line finds `child_pid` empty. The heartbeat belongs to the profile and not to the process, so
a new engine is judged by the file of an old one, and any by what `run_premarket_prefilter.py` writes: that script builds an
engine of the same profile, takes no lock, and writes the file when it has connected and at each checkpoint (`Screens`). `Patient` is the named assumption about a well engine: it
starts by `StartMax`, cycles by `CycleMax`, gives up `_reconnect` by `Backoff`.

## 3. Runs

| run | instance | shows |
|---|---|---|
| `stop_gap` | any start, 1 share, 2 events of 8 kinds, fair | `NoSilentGap`: between two cycles a held, tracked position has a working TRAIL for every share or is flagged for an immediate audit; `EventuallyCovered` |
| `stop_exit` | known starts, 1 share, 2 events of 13 kinds, fair | `NoOrphanStop`, `ExitUndisturbed`, `ForceExitLiquidates` |
| `stop_all` | starts with one stop, 2 shares, 1 event of 13 kinds | `TypeOK`, `PersistedAtYields`, `ConfirmedStopKeepsItsPeak` |
| `entry_round` | 3 candidates, 2 sectors, 3 slots, 1 event of 4 kinds | `SpendsSettledCashOnly`, `BuysWithinCapacity`, `BollingerCapped`, `OneBuyPerSymbol` |
| `position_books` | 2 symbols, 2 positions each, 2 events of 5 kinds, fair | `KeepsRoundTrips` (refinement), `HeldStaysTracked`, `EventuallyAccounted`, `EventuallyTracked` |
| `software_exits` | 5 prices, 4 sessions of 2 cycles with a weekend, 4 events of 3 kinds, fair | `NoLoserExitAfterGain`, `BlackoutAlerted`, `LosersLeave` |
| `market_gates` | cache of 5 cycles, cool-down of 5 to 10, 3 warm-up attempts, fair | `EntriesOnFreshVix`, `EntriesInTodaysTape`, `GateReopens` |
| `prefilter` | 2 symbols, a checkpoint every 2, 2 days, 2 events of 3 kinds | `OffersQualified`, `CompleteIsWhole`, `NotScreenedTwice`, `ListOnlyGrows` |
| `backtest` | 2 symbols, 3 bars, 4 days | `CashConserved`, `NeverOverdrawn`, `CurveEndsAtFinalEquity` |
| `supervisor` | 1 shell, 3 processes, 3 events of 10 kinds, fair | `OneEngine`, `KillsOnlyHung`, `HungNotForLong`, `EngineReturns` |
| `peak_lost`, `killed_reconnecting` | violations | see section 6 |

Every module's type invariant is checked in one of its runs. Deadlock is checked everywhere but in `prefilter` and
`backtest`, whose days end.

Bounds and why they are enough. Five order slots: the engine refers to at most the order it works on, its replacement,
the entry's stop and the recorded id, and a finished order nobody refers to frees its slot; `OrderSlots.cfg` checks
`SlotNeverLacking` on the instance of `stop_all`, and it holds on those of the other two, so the bound cuts no behaviour off. Two shares tell a stop for fewer shares from a full one. Two
adverse events reach every recovery path and one failure inside it. Days are unbounded.

In `entry_round` the account starts with 20 units, a bucket is at least 5, a share costs 3, and equity is 20 or 12 at
each reading, so that capacity (3 or 2) and cash bind in turn, a bucket holds one to six shares, the lower reading
trips the breaker, and a cycle can buy twice and then try Bollinger. One symbol pair shares a sector and is symmetric.
After a late fill or a cancel that raised, the engine
does not keep `SpendsSettledCashOnly` and `BuysWithinCapacity` (it charges nothing for such a fill), so these are stated for
behaviours without adverse events but crashes; `BollingerCapped` and `OneBuyPerSymbol` are stated with late fills and crashes, as long as
cancels go out and land before the engine goes on (`CancelsLand`); `TwoBuys.cfg` (section 6) shows what a slow one does.

In `position_books` two symbols tell a miss of one from a miss of all (the fresh request is made only then), and two
positions of a symbol tell a row, an open record or a miss count of the first from one of the second. No symmetry is
used, as there is liveness. In `software_exits` the five prices lie on both sides of every threshold, and the cached
price has time to grow old. `BlackoutAlerted` leaves out a re-entry whose predecessor was reported (section 6, `BlackoutForgotten.cfg`); four
events let a position inherit one pass and lose two of its own. In `market_gates` the cache outlasts a scan, the
cool-down outlasts the cache and stops growing at its second step. In `prefilter` a checkpoint every two of
two symbols leaves the first one to an abort, and to the checkpoint of a stop at ENTRY_START from which a later run resumes; two
days give yesterday's list, and a script that ends after midnight. In `backtest` four days give a sale
on a day with a next session and on the last day, a gap of the length that closes, and a time stop; the bars fall through both stops,
lift the trail and stand still.

In `supervisor` three processes leave one that is started by hand or outlives its shell beside the shell's own. The times
stand to each other as in the code: the grace (900 s) is longer than the heartbeat may be old (600 s), and a start and a cycle
fit into both; `Backoff` does too in this run, as the theorem `OnlyHungKilled` asks, and does not in `killed_reconnecting`, as in
the code (1515 s). Three events let an engine hang, be deaf to SIGTERM and meet a third thing, as a dying shell or the stop
file. The run has liveness and hence no symmetry. Two shells at once need it: `TwoShells.cfg` (950,000 states up to renaming) checks the
safety properties for them and `DisableLeavesNoEngine`, which the theorems state for any number of shells.

Fairness (`Fairness`, `FairSpec`). The engine's loop is weakly fair because `run` catches every exception and loops.
Every requested cancel is acknowledged and every market exit ends, because the broker does so; in `SoftwareExits` the
fill of a market SELL is strongly fair, as the SELL of a cycle may be refused or still work when the next one begins and
is sent again. `PositionBooks` adds that updates of the cache arrive. In `MarketGates` days pass (strongly fair, since
the day changes between two cycles only): the trend of a day on which SPY could not be read is replaced on the next.
In `Supervisor` a shell goes on with its
commands, an engine that is well starts and writes (the scheduler runs both), and time passes; a hung process is assumed
nothing of, and neither is an engine without a shell (`Unwatched`): if it hangs with the lock, nobody kills it.
Nothing is assumed of the clock of a session, of stops triggering, of the operator, or of outages ending; the liveness
property of the gates speaks of behaviours in which they do.

## 4. Proofs

`StopProtectionProofs` proves, for any number of order slots, shares, events and starting states:

* `TypeCorrect`: `Spec => []TypeOK`.
* `Persisted`: `Spec => []PersistedAtYields`: file and memory agree at every yield but in the sleep of a sync, where the file lacks the
  quantity, the withdrawal of `pending_exit`, a position found or one gone (`Reread`), and has the stop's level, id and status.
* `PendingExitIsLeftAlone`: `Spec => ExitUndisturbed`.

They follow from one inductive invariant `Inv` (`SpecInv`), which adds to `TypeOK` and `PersistedAtYields` the facts
that are true inside the routines only: `LocalsOK` (the order a routine works on exists and is of the kind the
routine placed, at the labels where it is used) and `Separate` (an audit that keeps a stop works on a record without
`pending_exit`, and the order an entry cancels is its BUY). Neither `TypeOK` nor `PersistedAtYields` is inductive
alone: `Judge(cur)` needs to know that `cur` is an order. The proof has one step per action; lemmas say what the broker
may change. The assumptions are those the modules state of their constants, which TLC evaluates in every run.

The same module proves what the protection cycle is there for:

* `NoOrphans`: `Spec /\ SafeStart => []NoOrphanStop`, unless a cancel of the cleanup itself raises.
* `NoGap`: `Spec /\ WholeStart => []NoSilentGap`, for the events of `Gentle`.
* `PeakKept`: `Spec /\ LoneStart => ConfirmedStopKeepsItsPeak`, for these without `entryStopReject`.

Each invariant says, label by label, what the engine has on its hands there. `OrphanInv`: a routine that works for a
position has its record (`Positioned`), and without a record no exit order of this engine works (`Dropped`). `GapInv`: a
BUY is open for a flat, unrecorded symbol only (`Buys`); a working SELL is for the whole position, so that a fill ends it
(`WholeBook`); the record has the quantity held, and the miss count has been reset where an audit that would skip the
symbol may begin (`Records`); the position is covered or flagged where the engine is not about to see to it (`Rested`);
and the order in hand, the entry's stop, an audit's snapshot, a replacement, has the terms it was placed with, is done
only if the position is gone, and competes with none (`Working`). `PeakInv`: there is one SELL (`Lone`), no audit begins
with a cancel outstanding (`Landed`), a confirmed order that works is the one the record names, for the quantity it names
(`Kept`), and is in the snapshot of the audit that runs (`Snapped`); what the audit places or the entry's stop leaves
behind does not break that (`Replaced`, `Refused`). The broker only makes orders wane (`Wanes`, `BrokerSells`), which
carries all of this over its steps.

The hypotheses are what the code needs. `Gentle` leaves out the events that do leave a gap, each of them alone in TLC's
counterexample: the timing events of section 6 (`slowCancel`, `exitTimeout`), a `placeOrder` that raises after a fill, an
unfilled BUY whose cancel raises and which fills later beside the next, FORCE_EXIT before the open (its market SELL waits
for the session without a stop), and what the daily audit alone answers (`brokerCancel`, `qtyChange`); and a raising cleanup
(`orphanCancelRaises`), since `GapInv` rests on `OrphanInv`: of that one alone TLC finds no gap. The
start conditions exclude what the engine may find only after someone else acted on the account: `SafeStart`, an untracked
symbol has no exit order working, or is flat without BUYs (`_initialize` then cancels all), or is held with its one
stop; `WholeStart`, no SELL for a part of the position, as one that fills shrinks the position under a record that is
flagged by nobody until the next sync; and of another client a stop for the largest position; `LoneStart`, one open
order, this engine's (beside another client's the entry's stop may be refused, as in `peak_lost`; of two of its own TLC
finds no such case, but the proof is for one).
Before the proofs, TLC checked `GapInv`
from 234 starts (7,600,000 states) and `PeakInv` from 237 (2,500,000), with two shares, five slots and two adverse events.

`EntryRoundProofs` proves, for any finite set of symbols, any prices, equities, limits and number of adverse events:

* `TypeCorrect`: `Spec => []TypeOK`; settled cash is never counted below zero and slots never go negative.
* `OneBuyOnly`: `Spec => []OneBuyPerSymbol`.
* `SettledCashOnly`: `Spec => []SpendsSettledCashOnly`.

The inductive invariant has three layers. `Typed` adds to the types that the engine waits for a BUY exactly at the
points where it waits, and that the cash counted on paid for it when it was sized. `Alone` (as long as no cancel raised and
none was still pending when the engine went on, `CancelsLand`) says that at most one BUY is at the broker, that it is the awaited one or was left by a crash, that one which may still
fill is for a symbol neither held nor tracked, that what is held is tracked between two BUYs, and that no candidate
still to be tried is tracked. `Money` (as long as no BUY filled during its cancel either) compares `settled` with the
broker's cash and `_cycle_committed_cash` with what is not posted yet, up to the cost of the fill that is not counted
yet (`Due`). `EntriesFitCapacity` (`Spec => BuysWithinCapacity`) and `SleeveStaysCapped` (`Spec => []BollingerCapped`) add one
invariant each. `Room` counts: positions and slots still to be used never exceed what the equity read carries, one less
between a fill and the next candidate, and nothing is held untracked while the engine waits for a cancel. `Sleeves`: what
is held for the Bollinger strategy is never tagged as the other's, so `_bollinger_positions` counts it (`Tagged`), and what
is held or bought for it stays within the cap (`Capped`), though a crash may keep the tag from being recorded.
`SpendsSettledCashOnly` alone is not inductive: the Bollinger path is safe because what the broker has not
posted is among what the cycle has committed, which in turn needs that nobody else's BUY can fill. Lemmas state what the
sizing operators return (`EntrySlotsTyped`: slots never exceed the free capacity; `CostTyped`).

`PositionBooksProofs` proves, for any symbols, any number of positions and adverse events, under `Reliable` (no event
`blind`, and a cache wrong in one sync in a row at most):

* `TypeCorrect`; no miss count passes one.
* `Implements`: `Spec => KeepsRoundTrips`, by step simulation: `close_trade` is `Account` or `Repeat` of `RoundTrips`, fills are
  its `Buy` and `Sell`, everything else is a stutter.
* `HeldKeepsRecord`: `Spec => HeldStaysTracked`.

The inductive invariant relates the four numbers a symbol has (`trips`, the record's, the file's, the open record's) at
every label: each is of the last position or none (`Current`), a record about to be dropped is of a position that has
ended (`Dropping`), a symbol that is held and has been missed was missed by the last sync (`Missed`), and a position that
has its row is in no open record and no snapshot (`Accounted`). `HeldStaysTracked` is not inductive alone, since a drop is
decided on a snapshot and carried out later.

`BacktestProofs` proves, for any finite set of symbols, any bars, days, account and limits:

* `TypeCorrect`, `ProceedsSettleLater`, `EntriesFit`.
* `NoCashLost`: `Spec => []CashConserved`; `CurveMeetsReport`: `Spec => []CurveEndsAtFinalEquity`.
* `NoDebt`: `Spec => []NeverOverdrawn`, under `FeesCovered`: every price, less the slippage, pays for a round trip's
  commission. The code buys nothing below `SCAN_MIN_PRICE` (5.0, `config.py` 176) and charges 1.00 an order
  (`config.py` 98); without it the sale of a share that has become worthless costs more than it brings.

Cash is a sum over symbols and days. `TotalChange` says what a change of one summand does to such a sum: `MapThenSumSet`
recurses on subsets, the function it chooses exists and is unique, and both follow from the fact that a set of subsets of
a finite set has a smallest element (`SmallestSet`), which takes the place of an induction. `Booked` says what the loop
keeps of a trade from phase to phase (a position looked at is one; at most a bar a day), `Solvent` that settled and
pending cash are never negative and every position's last close pays for its sale, `Fresh` and `LastPoint` that the curve
ends at the account's value once every position is sold on the last day. `EntryAffordable` is the lemma on buckets: the
slots' shares of the deployable cash, cut to whole units, never add up to more than there is.

`SoftwareExitsProofs` proves `TypeCorrect`, `GainersAreNotLosers` (no
quote that counts ever showed more than the record's peak, whenever the audit comes) and `OperatorIsAlerted`
(the engine's streak is no shorter than the position's own, and it has been reported exactly when it reached the limit,
unless an earlier position of the symbol had it reported that day).
`PrefilterProofs` proves `TypeCorrect`, `OffersOnlyQualified` and, without the event `outage`, `CompleteListIsWhole`: what
a run or a list of the day has is what the verdicts say of the symbols processed so far, and what is remembered of
another day is not offered. `NothingScreenedTwice` and `TheListGrows` add `GrowInv`: two sieves that are on together are
both marked as not alone (`OnTogether`), and one that is alone has everything the day's file has and is the day's if the file is
(`RunAhead`). `MarketGatesProofs` proves
`TypeCorrect`, `FreshVix` (if the reading in the cache says calm, the
VIX was last calm no longer ago than the reading is old) and `TodaysTape` (the cached trend, if there is one, is that of the
day's tape).

`SupervisorProofs` proves, for any number of shells and processes, any times of the watchdog and any adverse events:

* `TypeCorrect`; a shell has a process exactly at the commands that watch or stop one.
* `AtMostOneEngine`: `Spec => []OneEngine`.
* `HungIsKilledInTime`: `Spec => []HungNotForLong`; the bound is the longer of the grace and the time of a stale heartbeat, plus the interval
  of the watchdog, plus its polls, counted from the last heartbeat anyone wrote.
* `OnlyHungKilled`: `Timely => (Spec => []KillsOnlyHung)`. `Timely` is what the defaults of the script count on, and what
  `killed_reconnecting` shows it may not of `_reconnect`: with outages it asks for `Backoff <= Stale`.
* `DisableStops`: `Spec => DisableLeavesNoEngine`, and `OnlyTheForkRaces`: an engine is left behind only by a signal between its start and the
  record of its pid, so the window of `StopRaces.cfg` is the only one.

The invariant (checked by TLC with two shells and three processes before it was proved) says that no two shells have one process and a
process with a shell is not forgotten before it is waited for (`Kids`); that the engines beyond `flock` are the one that holds
it (`LockInv`); that a well engine is within its times (`OnTime`); that the heartbeat is at least as old as the lock holder's last sign or the prefilter script's, whichever came later (`Silence`), and, once
the holder has written, no older than its own (`Beats`), which is what makes a file shared by all engines tell about one; and how
long the holder may have been silent at each command of its shell (`Watched`). `HungNotForLong` is not inductive: it needs
to know what the watchdog last saw. The proof splits a step into what it does to processes (`ProcStep`: one of eight changes, the script's write, or the clock)
and to shells (`StepMoves`, `StepTouches`), so that no invariant is shown for every action anew.

Only model-checked: the liveness properties, which are beyond the prover (`EventuallyCovered`, `ForceExitLiquidates`,
`EventuallyAccounted`, `EventuallyTracked`, `LosersLeave`, `GateReopens`, `EngineReturns`). Every other property of a passing
run is stated by a theorem; `SettlesLater`, `EntriesWithinEquity` and `DisableLeavesNoEngine` are proved without a run of their own in
`PROJECT.json`.

## 5. What a property is protected against

Every property of a passing run has a mutant in `PROJECT.json`: a plausible bug in a mapped definition under which
TLC finds the property violated in the same run. The mutated forms stand in the modules, each before the
definition it would replace and marked as a mutant; no action uses them.

## 6. Disagreements with the code's own words

Two are runs:

* `peak_lost`: the gate replacement "must never fire for an order we have already confirmed live" (`engine_orders.py`
  201-202); after a rejected entry stop the engine records the rejected order's id (`engine.py` 945-950) and the next
  day's audit replaces the TRAIL an audit had confirmed.
* `killed_reconnecting`: "The Python engine already handles IB API reconnects", and the watchdog is for a process that is
  "stuck" (`start_trader.sh` 67-72); but `_reconnect` waits 5 + 10 + ... + 160 + 4 * 300 = 1515 s for its ten attempts and
  writes no heartbeat meanwhile (`engine_base.py` 498-522), so after 600 s of an outage the watchdog terminates a well engine,
  and its successor, which gives up after five attempts, begins anew.

The others have a configuration each, in which TLC finds the behaviour (`tlc -config X.cfg M.tla`):

* `GapSlowCancel.cfg`, `MCStopProtection`: when the cancel before an exit is not acknowledged within 5 s, the exit is
  deferred and the audit runs at once "so a genuinely cancelled TRAIL gets rebuilt" (`engine_orders.py` 1115-1121). But
  PendingCancel is not among `_REJECTED_ORDER_STATUSES`, so the audit confirms the TRAIL whose cancel is under way, and
  nothing looks again that day.
* `GapExitTimeout.cfg`, `MCStopProtection`: "rebuild protection immediately if the exit is not accepted"
  (`engine_orders.py` 1052-1054) does not happen when the market SELL is merely unfinished after 30 s: the TRAIL is gone,
  `protection_status` still says confirmed, and the next sync clears `pending_exit`.
* `ExitReversed.cfg`, `MCStopProtection`: the audit skips a pending exit so as not to reverse "an in-flight risk-control
  exit decision" (`engine_orders.py` 550-557), and says that the sync clears `pending_exit` after two confirming
  snapshots; it does so at the first, and the audit that follows cancels the working SELL.
* `BreakerForgets.cfg`, `MCEntryRound`: a 3% drawdown "halts new entries for the day" (`config.py` 126), but the test is made anew each
  cycle (`engine.py` 236), and entries resume when equity recovers or, with a new baseline, after a restart.
* `EntryWhileExposed.cfg`, `MCEntryRound`: "No further entries will be attempted this cycle" (`engine.py` 957-959) ends the candidate loop,
  and the Bollinger entry still runs (`engine.py` 996).
* `TwoBuys.cfg`, `MCEntryRound`: an unfilled BUY is to be given up, "Cancelling BUY and trying next candidate" (`engine.py` 795-796), but
  the engine sleeps a second after `cancelOrder` and goes on whether or not the cancel was confirmed (`engine.py` 800-807,
  `engine_entries.py` 1089-1093). The symbol is in no record then, so the Bollinger entry of the same cycle, or the next cycle, sends a
  second BUY for it while the first may still fill: a second bucket in one symbol that no slot and no cash was counted for.
* `SectorCrowded.cfg`, `MCEntryRound`: `MAX_SECTOR_COUNT` is the "max simultaneous positions in the same sector"
  (`config.py` 301), but the count is taken once per cycle and every candidate is filtered before the first BUY
  (`engine.py` 393-397, 516-524).
* `SnapshotBelieved.cfg`, `MCPositionBooks`: the sync defers a removal "until a second confirming snapshot"
  (`engine_entries.py` 562), but `liquidate` takes one cached snapshot without the symbol for its end: it deletes the
  record and cancels the orders of a position that is held (`engine_orders.py` 1200-1210).
* `BlackoutForgotten.cfg`, `SoftwareExits`: the operator is to be "notified rather than left unaware" of a position
  without prices (`config.py` 506-509); the streak is kept per symbol, outlives the position, and alerts when it equals
  the limit, so a position bought on the day an earlier one of the symbol was reported is itself never reported.
* `GainForgotten.cfg`, `SoftwareExits`: the stale-loser exit is for a position "that has never exceeded
  +STALE_POSITION_MAX_PEAK_PCT" (`engine_exits.py` 551-553), but the refresh moves the peak only of a record with `stop_dist` or a
  percent stop (`engine_entries.py` 610-613): a gain that only refreshes showed to a recovered position whose stop the audit has
  not got placed is forgotten, and the position can be sold as one that never gained.
* `OutageScreensOut.cfg`, `Prefilter`: a symbol whose history could not be fetched counts as processed and rejected, the
  list says complete without it, and no later run of the day tries it (`engine_scanner.py` 388-439, 529-545).
* `ListShrinks.cfg`, `Prefilter`: the sieve is to "scan the full application universe once and cache daily-pass candidates"
  (`engine_scanner.py` 442); but `run_premarket_prefilter.py` (54-88) takes no lock and looks at no clock, and each
  run writes the file from its own lists, so a script that runs beside the engine's sieve, by default in the premarket,
  makes a complete list partial and shorter again and fetches what the other has. An engine restarted then, or one that
  rolls into the session, trades the day on the shorter list.
* `HungHidden.cfg`, `MCSupervisor`: the supervisor is there for an engine that "stays alive but stops writing fresh dashboard heartbeat
  data" (`start_trader.sh` 71-72); but `run_premarket_prefilter.py` (86-88) writes the same file without the lock, on connecting
  and at each checkpoint (`engine_base.py` 264, `engine_scanner.py` 526), so while it screens a hung engine looks well, for longer than
  the watchdog's times add up to and as long as the sieve lasts.
* `StopRaces.cfg`, `MCSupervisor`: `stop_child` is to "forward" a signal "to the engine and wait" (`start_trader.sh` 185-186); a signal between
  `auto_trader.py &` and `child_pid="$!"` (202-203) finds `child_pid` empty: the script exits 0 and the engine trades on,
  with the lock and without a watchdog.

The event `entryPlaceRaises` also breaks `NoSilentGap`: `placeOrder` for the stop after a fill is outside any `try`
(`engine.py` 889), and a record in `'pending'` is not audited again before the next day.

Noted while reading, and stated by no property:

* SIGTERM has no handler in the engine, so `atexit` does not run when the watchdog or `stop_child` sends it; the lock is freed
  by the kernel and not by `_release_instance_lock`. `stop_child` has no SIGKILL: on an engine deaf to SIGTERM it waits for ever.
* `BacktestMaxPositions` needs a whole bucket of equity and the live engine a smaller floor, so the two sizings differ for
  small accounts although the backtest's says "Live-compatible" (`strategy.py` 1440). The live slots of such an account
  are not consistent either: cash between the floor and a bucket gives a slot, equity between them gives none
  (`engine_entries.py` 292-296, 299-308).
* The equity curve's last point is replaced by each sale after the last day only if the symbol has a bar on that day;
  otherwise the curve ends apart from the reported equity (`strategy.py` 1834-1849), which is the premise of
  `CurveEndsAtFinalEquity`.
* The allocation is recomputed after each entry of a cycle, so the cash buffer (`SETTLED_CASH_DEPLOYMENT_PCT`) is taken
  of what is left each time and not of the morning's cash.
* The date of a momentum check is written before `liquidate` is called, so a deferred exit is tried again only after the
  interval; the time stop and the hard stop have no such mark, which is why `LosersLeave` holds.
* A failed SPY request is an answer for the day (`engine_market.py` 424): both entry paths stay shut until the next.

## 7. Plan

Done: `StopProtection`, `EntryRound`, `PositionBooks` with `RoundTrips`, `SoftwareExits`, `MarketGates`, `Prefilter`,
`Backtest`, `Supervisor`, and the theorems of section 4. Left, the most important first:

1. `NoGap` under some of the events of `Gentle`: with FORCE_EXIT (`Sessions` then has to let exits run outside the session)
   and with `brokerCancel`, for the weaker promise that the position is covered again after the next daily audit.
2. `StopProtection` refining an abstract cover of a position (bare, covered, exiting, gone), so that `EntryRound`'s
   "confirmed or not" is a fact about it.
3. Commission reports in any order around fill, record and row, as a further variable of `PositionBooks`.

Runs stay small (two or three symbols, one to three adverse events, a few days); a property gets a run of its own
only when it needs other bounds.

## 8. Not modelled

* Indicators, scores, entry and exit signals, analyst ratings: floating-point formulas over price series, stateless. The
  models leave "is an entry, an exit due" open, so what is checked holds for every signal.
* The optimizer, the screening and download tools, the dashboard: they compute or show, and change no trading state.
* Of the supervisor: the checks before its loop, `WATCHDOG_ENABLED=0`, a second signal while `stop_child` waits, a pid used
  again between two looks, and a lock file read between its truncation and the pid. A kill at any point and a restart are the
  crash of `StopProtection`, `EntryRound`, `PositionBooks` and `Prefilter`.
* `--max-symbols` of the prefilter script and a changed `APP_SCANNER_MAX_SYMBOLS`: the universe of the model is the same for every
  run. In the code a run over a cut universe marks its list complete, and the engine takes it for the day's
  (`engine_scanner.py` 458-460, 571). Two scripts at once: the second would be refused its client id.
* `exit_reason`: `liquidate` sets it unsaved before its waits (`engine_orders.py` 1101-1102), so a crash there can lose it. Only the ledger
  reads it, to name the end of a position; no record is kept or dropped by it.
* E-mail alerts, client ids and the health file; the sleep schedule between sessions.
* The Friday close and the quality cleanup of `manage_position_exits` and of the backtest: no profile switches them on.
* Commissions and price updates in the ledger, which neither make nor remove a row; the statistics of the backtest's
  report.
* `ib_async`, IB Gateway and the exchange: external; `Brokerage` and the broker's actions of the other modules say what
  the engine's code relies on.
* Prices as numbers (but in `Backtest` and `SoftwareExits`), partial fills of the entry BUY (the orders are all-or-none;
  the code's branch for them is defensive), corrupt or unwritable files, several accounts.
