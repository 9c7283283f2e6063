------------------------------ MODULE EntryRound ------------------------------
(***************************************************************************)
(* The part of run_cycle that spends money: reading the account, the daily *)
(* loss breaker, slots and buckets, the candidates in descending score,    *)
(* and the standalone Bollinger entry that follows them, for a cash        *)
(* account whose broker reports a fill to SettledCash late.                *)
(*                                                                         *)
(* pc names the point at which the engine has yielded to ib_async; one     *)
(* action is the code up to the next.  Money is in whole units and prices  *)
(* are small integers; int(bucket / limit) is computed exactly.  Scores    *)
(* are abstracted: any candidate may come next.  The protective stop is    *)
(* StopProtection's; here it is confirmed or not.                          *)
(***************************************************************************)
EXTENDS Sizing, FiniteSets

CONSTANTS
  Symbol,       \* the candidates
  SectorOf,     \* [Symbol -> sector]
  Prices,       \* limit prices a BUY may get
  Equities,     \* values NetLiquidation may take
  StartCash,    \* settled cash to begin with
  LossPct,      \* MAX_DAILY_LOSS_PCT, in percent
  MaxSector,    \* MAX_SECTOR_COUNT
  MaxBollinger, \* BOLLINGER_STANDALONE_MAX_OPEN
  MaxFaults,    \* adverse events per behaviour
  Faults        \* which adverse events may happen (see FaultKinds)

FaultKinds ==
  { "lateFill",       \* a BUY is filled while its cancel is on its way
    "slowCancel",     \* the engine goes on before the cancel of a BUY is confirmed
    "cancelRaises",   \* cancelOrder raises for a BUY; the engine carries on
    "crash" }         \* the engine dies and is restarted

\* One BUY the engine has under way, and one that each event may have left behind.
Slot  == 1 .. MaxFaults + 1
Tags  == {"swing", "bollinger"}

NoBuy  == [ sym |-> "none", cost |-> 0, tag |-> "none", cancel |-> FALSE ]
Nobody == [ slot |-> 0, sym |-> "none", cost |-> 0, tag |-> "none" ]

ASSUME NumbersAssumption ==
  /\ Prices \subseteq Nat \ {0} /\ Equities \subseteq Nat \ {0}
  /\ {StartCash, LossPct, MaxSector, MaxBollinger, MaxFaults} \subseteq Nat
  /\ LossPct <= 100
ASSUME SymbolAssumption == IsFiniteSet(Symbol)
ASSUME FaultsAssumption == Faults \subseteq FaultKinds

VARIABLES
  tag,       \* self.state[s]['entry_strategy'], "none" when s is not tracked
  lots,      \* what the broker holds of each symbol: its sleeve and its cost
  buys,      \* the BUY orders at the broker
  cash,      \* settled cash at the broker
  unsettled, \* sale proceeds that settle tomorrow
  unposted,  \* fills the broker has not yet deducted from the cash it reports
  dayStart,  \* _day_start_equity, 0 before today's first cycle
  pc,        \* where the engine is
  equity,    \* equity of this cycle
  settled,   \* settled cash as the cycle counts it down
  committed, \* _cycle_committed_cash
  alloc,     \* what the bucket was computed from: settled cash and entry slots
  slots,     \* slots of the candidate loop
  placed,    \* entries placed by it
  signals,   \* candidates that passed the filters and are still to be tried
  mine,      \* the BUY the engine waits for or has just got, and its slot
  faults,    \* adverse events still to come at most
  exposed,   \* history: a stop of this cycle was not confirmed
  tripped,   \* history: the daily loss breaker has tripped today
  excused    \* history: the late fills and the raised and slow cancels so far

broker  == << lots, buys, cash, unsettled, unposted >>
scan    == << equity, settled, alloc, slots, placed, signals >>
round   == << scan, committed, mine >>
history == << exposed, tripped >>
vars    == << tag, broker, dayStart, pc, round, faults, history, excused >>

Tracked == { s \in Symbol : tag[s] # "none" }
Held    == { s \in Symbol : lots[s].tag # "none" }
Working == { i \in Slot : buys[i] # NoBuy }

NoLot == [ tag |-> "none", cost |-> 0 ]

TypeOK ==
  /\ tag \in [Symbol -> Tags \cup {"none", "unknown"}]
  /\ lots \in [Symbol -> [ tag : Tags \cup {"none"}, cost : Nat ]]
  /\ buys \in [Slot -> {NoBuy} \cup
                [ sym : Symbol, cost : Nat, tag : Tags, cancel : BOOLEAN ]]
  /\ {cash, unsettled, unposted, dayStart, equity, settled, committed, slots,
      placed, faults} \subseteq Nat
  /\ pc \in { "boot", "bootSync", "idle", "account", "scan", "pick", "sent",
              "unfilled", "stop", "bollinger" }
  /\ alloc \in [ cash : Nat, slots : Nat ]
  /\ signals \subseteq Symbol
  /\ mine \in {Nobody} \cup [ slot : Slot, sym : Symbol, cost : Nat, tag : Tags ]
  /\ exposed \in BOOLEAN /\ tripped \in BOOLEAN
  /\ excused \subseteq Faults

NoAlloc == [ cash |-> 0, slots |-> 0 ]

Init ==
  /\ tag = [ s \in Symbol |-> "none" ]
  /\ lots = [ s \in Symbol |-> NoLot ]
  /\ buys = [ i \in Slot |-> NoBuy ]
  /\ cash = StartCash /\ unsettled = 0 /\ unposted = 0
  /\ dayStart = 0
  /\ pc = "boot"
  /\ equity = 0 /\ settled = 0 /\ alloc = NoAlloc /\ slots = 0 /\ placed = 0
  /\ signals = {} /\ committed = 0 /\ mine = Nobody
  /\ faults = MaxFaults
  /\ exposed = FALSE /\ tripped = FALSE /\ excused = {}

\* The locals of the scan are dead outside it, and kept at one value there.
ScanOver ==
  /\ equity' = 0 /\ settled' = 0 /\ alloc' = NoAlloc /\ slots' = 0 /\ placed' = 0
  /\ signals' = {}

-----------------------------------------------------------------------------
(* What the broker does. *)

\* A BUY is allOrNone and fills only if settled cash pays for it.  A fill while
\* the cancel is on its way is the adverse event.
Fill(i) ==
  /\ i \in Working
  /\ buys[i].cost <= cash
  /\ IF buys[i].cancel
     THEN /\ "lateFill" \in Faults /\ faults > 0 /\ faults' = faults - 1
          /\ excused' = excused \cup {"lateFill"}
     ELSE UNCHANGED << faults, excused >>
  /\ cash' = cash - buys[i].cost
  /\ unposted' = unposted + buys[i].cost
  /\ lots' = [lots EXCEPT ![buys[i].sym] = [ tag  |-> buys[i].tag,
                                             cost |-> @.cost + buys[i].cost ]]
  /\ buys' = [buys EXCEPT ![i] = NoBuy]
  /\ UNCHANGED << tag, unsettled, dayStart, pc, round, history >>

CancelLands(i) ==
  /\ buys[i].cancel
  /\ buys' = [buys EXCEPT ![i] = NoBuy]
  /\ UNCHANGED << tag, lots, cash, unsettled, unposted, dayStart, pc, round,
                  faults, history, excused >>

\* SettledCash catches up with the fills.
Post ==
  /\ unposted > 0
  /\ unposted' = 0
  /\ UNCHANGED << tag, lots, buys, cash, unsettled, dayStart, pc, round, faults,
                  history, excused >>

\* A stop, a software exit or the operator sells a position.
Sell(s) ==
  /\ s \in Held
  /\ unsettled' = unsettled + lots[s].cost
  /\ lots' = [lots EXCEPT ![s] = NoLot]
  /\ UNCHANGED << tag, buys, cash, unposted, dayStart, pc, round, faults, history,
                  excused >>

\* The next trading day: proceeds settle, DAY orders have expired.
NewDay ==
  /\ pc = "idle"
  /\ cash' = cash + unsettled /\ unsettled' = 0 /\ unposted' = 0
  /\ buys' = [ i \in Slot |-> NoBuy ]
  /\ dayStart' = 0
  /\ tripped' = FALSE
  /\ UNCHANGED << tag, lots, pc, round, faults, exposed, excused >>

BrokerNext ==
  \/ \E i \in Slot : Fill(i) \/ CancelLands(i)
  \/ \E s \in Symbol : Sell(s)
  \/ Post \/ NewDay

-----------------------------------------------------------------------------
(* _sync_positions_from_ibkr and the start of the engine. *)

\* A position that is not in the record was bought by an order whose fill the
\* engine did not see.  A record without a position goes, at once or, by the rule
\* of two misses, at the next sync.
Sync ==
  \E gone \in SUBSET (Tracked \ Held) :
    tag' = [ s \in Symbol |-> IF s \in Held \ Tracked THEN "unknown"
                             ELSE IF s \in gone THEN "none" ELSE tag[s] ]

CancelRaises ==
  /\ "cancelRaises" \in Faults /\ faults > 0 /\ faults' = faults - 1
  /\ excused' = excused \cup {"cancelRaises"}

\* Mutant: BUYs left by the last session are not cancelled.
BootLeavesOrphans ==
  /\ pc = "boot"
  /\ pc' = "bootSync"
  /\ UNCHANGED << tag, broker, dayStart, round, faults, history, excused >>

\* _initialize cancels the orders of symbols neither tracked nor held.
Boot ==
  /\ pc = "boot"
  /\ LET orphans == { i \in Working : buys[i].sym \notin Tracked \cup Held }
     IN  \/ /\ buys' = [ i \in Slot |-> IF i \in orphans
                                         THEN [buys[i] EXCEPT !.cancel = TRUE]
                                         ELSE buys[i] ]
            /\ UNCHANGED << faults, excused >>
         \/ orphans # {} /\ CancelRaises /\ UNCHANGED buys
  /\ pc' = "bootSync"
  /\ UNCHANGED << tag, lots, cash, unsettled, unposted, dayStart, round, history >>

NoneCancelling == \A i \in Slot : ~buys[i].cancel

\* After a cancel the engine sleeps for a second, or two at the start, and does not
\* look whether it has landed.
Sleeps ==
  IF NoneCancelling THEN UNCHANGED << faults, excused >>
  ELSE /\ "slowCancel" \in Faults /\ faults > 0 /\ faults' = faults - 1
       /\ excused' = excused \cup {"slowCancel"}

BootSync ==
  /\ pc = "bootSync" /\ Sleeps
  /\ Sync
  /\ pc' = "idle"
  /\ UNCHANGED << broker, dayStart, round, history >>

\* The record survives a crash: the file is behind memory in the sleep of a sync only,
\* and lacks no more than what the next sync finds again (PersistedAtYields of
\* StopProtection).
Crash ==
  /\ pc # "boot"
  /\ "crash" \in Faults /\ faults > 0 /\ faults' = faults - 1
  /\ pc' = "boot"
  /\ dayStart' = 0
  /\ ScanOver /\ committed' = 0 /\ mine' = Nobody
  /\ exposed' = FALSE
  /\ UNCHANGED << tag, broker, tripped, excused >>

-----------------------------------------------------------------------------
(* run_cycle *)

\* Named abstraction: SettledCash has caught up before the next cycle.
CycleSync ==
  /\ pc = "idle" /\ unposted = 0
  /\ Sync
  /\ committed' = 0
  /\ exposed' = FALSE
  /\ pc' = "account"
  /\ UNCHANGED << broker, dayStart, scan, mine, faults, tripped, excused >>

\* SettledCash as the broker reports it
Reported == cash + unposted

Drawdown(e) == dayStart # 0 /\ 100 * e < dayStart * (100 - LossPct)

\* _get_account_values, then the daily loss breaker, which has no memory
ReadAccount ==
  /\ pc = "account"
  /\ \E e \in Equities :
       /\ dayStart' = IF dayStart = 0 THEN e ELSE dayStart
       /\ tripped' = (tripped \/ Drawdown(e))
       /\ IF Drawdown(e)
          THEN pc' = "idle" /\ UNCHANGED << equity, settled >>
          ELSE pc' = "scan" /\ equity' = e /\ settled' = Reported
  /\ UNCHANGED << tag, broker, committed, alloc, slots, placed, signals, mine,
                  faults, exposed, excused >>

\* The account cannot be read, the operator's HALT, or delayed market data
NoEntries ==
  /\ pc \in {"account", "scan"}
  /\ pc' = "idle" /\ ScanOver
  /\ UNCHANGED << tag, broker, dayStart, committed, mine, faults,
                  history, excused >>

Crowded(x) ==
  Cardinality({ s \in Tracked : SectorOf[s] = x }) >= MaxSector

\* Gates of indicator_swing only (VIX, regime, Friday, no slot, no signal)
NoSwing ==
  /\ pc = "scan"
  /\ pc' = "bollinger" /\ ScanOver
  /\ UNCHANGED << tag, broker, dayStart, committed, mine, faults,
                  history, excused >>

\* Every candidate is filtered against the book as it is before the first BUY.
Scan ==
  /\ pc = "scan"
  /\ slots' = EntrySlots(equity, settled, Cardinality(Tracked))
  /\ slots' > 0
  /\ alloc' = Allocation(equity, settled, Cardinality(Tracked))
  /\ placed' = 0
  /\ \E S \in SUBSET { s \in Symbol \ Tracked : ~Crowded(SectorOf[s]) } :
       S # {} /\ signals' = S
  /\ pc' = "pick"
  /\ UNCHANGED << tag, broker, dayStart, equity, settled, committed, mine, faults,
                  history, excused >>

Send(s, t, cost) ==
  \E i \in Slot \ Working :
    /\ \A j \in Slot \ Working : i <= j
    /\ buys' = [buys EXCEPT ![i] = [ sym |-> s, cost |-> cost, tag |-> t,
                                    cancel |-> FALSE ]]
    /\ mine' = [ slot |-> i, sym |-> s, cost |-> cost, tag |-> t ]
    /\ pc' = "sent"

\* manage_position_exits, before the scan, before every candidate after the first
\* entry, and in cycles without entries, sells a position and drops its record.
Exit(s) ==
  /\ \/ pc \in {"idle", "scan"}
     \/ pc = "pick" /\ 0 < placed /\ placed < slots /\ signals # {}
  /\ s \in Tracked \cap Held
  /\ tag' = [tag EXCEPT ![s] = "none"]
  /\ unsettled' = unsettled + lots[s].cost
  /\ lots' = [lots EXCEPT ![s] = NoLot]
  /\ UNCHANGED << buys, cash, unposted, dayStart, pc, round, faults,
                  history, excused >>

\* A candidate is sized by bucket and risk, and skipped if settled cash is short.
Buy ==
  /\ pc = "pick"
  /\ placed < slots
  /\ \E s \in signals, limit \in Prices :
       LET qty == Least(BucketQty(alloc, limit), RiskQty(equity, limit))
       IN  /\ qty >= 1
           /\ qty * limit <= settled
           /\ Send(s, "swing", qty * limit)
           /\ signals' = signals \ {s}
  /\ UNCHANGED << tag, lots, cash, unsettled, unposted, dayStart, equity, settled,
                  committed, alloc, slots, placed, faults, history, excused >>

Skip ==
  /\ pc = "pick"
  /\ \E s \in signals : signals' = signals \ {s}
  /\ UNCHANGED << tag, broker, dayStart, pc, equity, settled, committed, alloc, slots,
                  placed, mine, faults, history, excused >>

LoopOver ==
  /\ pc = "pick"
  /\ placed >= slots \/ signals = {}
  /\ pc' = "bollinger" /\ ScanOver
  /\ UNCHANGED << tag, broker, dayStart, committed, mine, faults,
                  history, excused >>

Filled   == buys[mine.slot] = NoBuy

\* The fill is recorded and the protective stop is placed.
Bought ==
  /\ pc = "sent" /\ Filled
  /\ tag' = [tag EXCEPT ![mine.sym] = mine.tag]
  /\ pc' = "stop"
  /\ UNCHANGED << broker, dayStart, round, faults, history, excused >>

NotBought ==
  /\ pc = "sent" /\ ~Filled
  /\ \/ /\ buys' = [buys EXCEPT ![mine.slot].cancel = TRUE]
        /\ UNCHANGED << faults, excused >>
     \/ CancelRaises /\ UNCHANGED buys
  /\ pc' = "unfilled"
  /\ UNCHANGED << tag, lots, cash, unsettled, unposted, dayStart, round, history >>

\* Nothing is deducted and no slot is used, whatever the sync finds.
AfterCancel ==
  /\ pc = "unfilled" /\ Sleeps
  /\ Sync
  /\ mine' = Nobody
  /\ IF mine.tag = "swing" THEN pc' = "pick" /\ UNCHANGED scan
                           ELSE pc' = "idle" /\ ScanOver
  /\ UNCHANGED << broker, dayStart, committed, history >>

\* The cost is counted down and the bucket sized anew.
Settle(c) ==
  /\ settled' = settled - c
  /\ placed' = placed + 1
  /\ alloc' = Allocation(equity, settled', Cardinality(Tracked))
  /\ UNCHANGED << equity, slots, signals >>

\* The stop is confirmed or not; an unconfirmed one ends the candidate loop.
Protected ==
  /\ pc = "stop" /\ mine.tag = "swing"
  /\ committed' = committed + mine.cost
  /\ \/ pc' = "pick" /\ Settle(mine.cost) /\ UNCHANGED exposed
     \/ pc' = "bollinger" /\ ScanOver /\ exposed' = TRUE
  /\ mine' = Nobody
  /\ UNCHANGED << tag, broker, dayStart, faults, tripped, excused >>

BollingerProtected ==
  /\ pc = "stop" /\ mine.tag = "bollinger"
  /\ pc' = "idle" /\ ScanOver
  /\ mine' = Nobody
  /\ UNCHANGED << tag, broker, dayStart, committed, faults, history, excused >>

-----------------------------------------------------------------------------
(* _scan_and_enter_bollinger_standalone *)

\* Mutant: a recovered position is not counted as a possible Bollinger position.
BollingerOpenKnown == { s \in Tracked : tag[s] = "bollinger" }

\* Positions not positively tagged as another sleeve's count.
BollingerOpen == { s \in Tracked : tag[s] # "swing" }

\* Mutant: what the swing entries have committed is not set aside.
BollingerCashReported == Reported

BollingerCash == Minus(Reported, committed)

BollingerBuy ==
  /\ pc = "bollinger"
  /\ Cardinality(BollingerOpen) < MaxBollinger
  /\ equity' \in Equities    \* the account is read again
  /\ LET bucket == Allocation(equity', BollingerCash, Cardinality(Tracked))
     IN  \E s \in Symbol \ Tracked, limit \in Prices :
           LET qty == BucketQty(bucket, limit)
           IN  /\ ~Crowded(SectorOf[s])
               /\ qty >= 1
               /\ qty * limit <= BollingerCash
               /\ Send(s, "bollinger", qty * limit)
  /\ UNCHANGED << tag, lots, cash, unsettled, unposted, dayStart, settled,
                  committed, alloc, slots, placed, signals, faults,
                  history, excused >>

NoBollinger ==
  /\ pc = "bollinger"
  /\ pc' = "idle"
  /\ UNCHANGED << tag, broker, dayStart, round, faults, history, excused >>

Engine ==
  \/ Boot \/ BootSync \/ CycleSync \/ ReadAccount \/ NoEntries \/ NoSwing \/ Scan
  \/ Buy \/ Skip \/ LoopOver \/ Bought \/ NotBought \/ AfterCancel \/ Protected
  \/ BollingerProtected \/ BollingerBuy \/ NoBollinger \/ \E s \in Symbol : Exit(s)

Next == Engine \/ BrokerNext \/ Crash

Spec == Init /\ [][Next]_vars
-----------------------------------------------------------------------------
(* Properties *)

Sends == mine = Nobody /\ mine' # Nobody

\* No BUY the engine has working asks for more than the settled cash the account
\* really has, although the broker reports fills late and two entry paths size
\* their orders from what it reports (_cycle_committed_cash).
SpendsSettledCashOnly ==
  excused = {} =>
    \A i \in Working : ~buys[i].cancel => buys[i].cost <= cash

\* A BUY is sent only while the account has room for one more position at the
\* equity of the cycle, however many the cycle has bought before
\* (_calc_max_positions, _calc_entry_allocation).
BuysWithinCapacity ==
  [][ Sends /\ excused = {}
        => Cardinality(Held) < MaxPositions(equity') ]_vars

\* Every cancel so far went out, and landed before the engine went on.
CancelsLand == excused \cap {"cancelRaises", "slowCancel"} = {}

\* The account never holds more positions of the Bollinger strategy than its cap,
\* whichever fills a crash kept from being recorded (unknown_recovered).
BollingerCapped ==
  CancelsLand =>
    Cardinality({ s \in Symbol : lots[s].tag = "bollinger" }) <= MaxBollinger

\* While cancels land in time, no symbol has two BUYs working, and no BUY is working
\* for a symbol that is held.
OneBuyPerSymbol ==
  CancelsLand =>
    \A i \in Working : ~buys[i].cancel =>
      /\ buys[i].sym \notin Held
      /\ \A j \in Working : buys[j].sym = buys[i].sym => j = i

\* No BUY is sent for a symbol that still has one at the broker.
NoSecondBuy == [][ Sends => \A i \in Working : buys[i].sym # mine'.sym ]_vars

\* Never more than MAX_SECTOR_COUNT positions in one sector.
SectorsNotCrowded ==
  \A x \in { SectorOf[s] : s \in Symbol } :
    Cardinality({ s \in Tracked : SectorOf[s] = x }) <= MaxSector

\* The daily loss breaker halts new entries for the rest of the day.
BreakerHalts == [][ Sends => ~tripped ]_vars

\* No further entry in a cycle that left a position without a confirmed stop.
NoEntryWhileExposed == [][ Sends => ~exposed ]_vars
=============================================================================
