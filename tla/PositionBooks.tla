---------------------------- MODULE PositionBooks ----------------------------
(***************************************************************************)
(* The three books of every position: self.state in memory, its copy       *)
(* engine_state.json, and the trade ledger, against a position cache       *)
(* (ib.positions()) that runs behind the account.  The modelled code is    *)
(* TradeLedger, the ledger hooks of engine_base.py, the position sync, the *)
(* bookkeeping of liquidate, and what an entry records.                    *)
(*                                                                         *)
(* pc names the point at which the engine yields or between two files it   *)
(* writes; one action is the code up to the next.  Stops, audits and       *)
(* quantities are StopProtection's, money is EntryRound's.  FORCE_EXIT,    *)
(* which waives the second snapshot, is left to StopProtection.  A file is *)
(* written whole (tmp and os.replace) and writing does not fail.           *)
(***************************************************************************)
EXTENDS Integers, Sequences, FiniteSets

CONSTANTS
  Symbols,    \* the symbols traded
  MaxTrips,   \* positions opened in each symbol at most
  MaxBehind,  \* syncs in a row that may find the cache wrong about a symbol
  MaxFaults,  \* adverse events per behaviour
  Faults      \* which adverse events may happen (see FaultKinds)

FaultKinds ==
  { "drops",      \* the cache loses symbols that are held (a reconnect)
    "recheck",    \* the confirming reqPositions() fails
    "exitFails",  \* a cancel, or the market SELL of an exit, is refused
    "unfinished", \* a market SELL is still working after 30 s
    "crash",      \* the engine dies and is restarted
    "blind" }     \* the engine trades a symbol the cache is wrong about

ASSUME BoundsAssumption ==
  /\ {MaxTrips, MaxBehind, MaxFaults} \subseteq Nat
ASSUME FaultsAssumption == Faults \subseteq FaultKinds

VARIABLES
  held,    \* does the account hold the symbol
  trips,   \* how many positions in it were opened so far
  mkt,     \* is a market SELL for it working
  seen,    \* does ib.positions() show it
  behind,  \* syncs in a row that found the cache wrong about it
  rec,     \* self.state
  disk,    \* engine_state.json
  miss,    \* _missing_position_counts
  open,    \* TradeLedger._open: the position the open record is of, or 0
  history, \* TradeLedger._closed per symbol: [of, entry]
  pc,      \* where the engine is
  cur,     \* the symbol it works on
  todo,    \* symbols still to be dropped, or still to be looked at for an exit
  faults   \* adverse events still to come at most

account == << held, trips, mkt >>
cache   == << seen, behind >>
ledger  == << open, history >>
vars    == << account, cache, rec, disk, miss, ledger, pc, cur, todo, faults >>

NoRec   == [ trip |-> 0, exiting |-> FALSE ]
Nobody  == "none"
Tracked == { s \in Symbols : rec[s].trip # 0 }

\* What the ledger promises; the account and the history are the same there.
RT == INSTANCE RoundTrips WITH
  Symbols <- Symbols, held <- held, trips <- trips, history <- history

Pcs == { "boot", "idle", "drop", "closed", "cycle", "selling", "gone", "bought",
         "entered" }

TypeOK ==
  /\ held \in [Symbols -> BOOLEAN] /\ mkt \in [Symbols -> BOOLEAN]
  /\ seen \in [Symbols -> BOOLEAN]
  /\ trips \in [Symbols -> Nat] /\ behind \in [Symbols -> 0 .. MaxBehind]
  /\ rec \in [Symbols -> [ trip : Nat, exiting : BOOLEAN ]]
  /\ disk \in [Symbols -> [ trip : Nat, exiting : BOOLEAN ]]
  /\ miss \in [Symbols -> 0 .. 1] /\ open \in [Symbols -> Nat]
  /\ history \in [Symbols -> Seq([ of : Nat, entry : Nat ])]
  /\ pc \in Pcs /\ cur \in Symbols \cup {Nobody} /\ todo \subseteq Symbols
  /\ faults \in Nat

Init ==
  /\ held = [ s \in Symbols |-> FALSE ] /\ mkt = [ s \in Symbols |-> FALSE ]
  /\ seen = [ s \in Symbols |-> FALSE ]
  /\ trips = [ s \in Symbols |-> 0 ] /\ behind = [ s \in Symbols |-> 0 ]
  /\ rec = [ s \in Symbols |-> NoRec ] /\ disk = [ s \in Symbols |-> NoRec ]
  /\ miss = [ s \in Symbols |-> 0 ] /\ open = [ s \in Symbols |-> 0 ]
  /\ history = [ s \in Symbols |-> << >> ]
  /\ pc = "boot" /\ cur = Nobody /\ todo = {}
  /\ faults = MaxFaults

Fault(kind) ==
  /\ kind \in Faults /\ faults > 0
  /\ faults' = faults - 1

-----------------------------------------------------------------------------
(* The ledger's operations.  Each is followed by TradeLedger._save. *)

\* Mutant: the open record is read but not taken out.
CloseTradeKeepsOpen(s, of) ==
  /\ history' = [ history EXCEPT ![s] = Append(@, RT!Row(of, open[s])) ]
  /\ UNCHANGED open

\* close_trade: the row descends from the open record, or is marked with 0.
CloseTrade(s, of) ==
  /\ history' = [ history EXCEPT ![s] = Append(@, RT!Row(of, open[s])) ]
  /\ open' = [ open EXCEPT ![s] = 0 ]

\* open_trade with replace=True: an open record found here gets a row.
OpenFresh(s, t) ==
  /\ history' = IF open[s] = 0 THEN history
                ELSE [ history EXCEPT ![s] = Append(@, RT!Row(open[s], open[s])) ]
  /\ open' = [ open EXCEPT ![s] = t ]

\* open_trade with replace=False: a surviving record is left alone.
OpenKept(s, t) == IF open[s] # 0 THEN open[s] ELSE t

-----------------------------------------------------------------------------
(* The sync. *)

\* A snapshot is wrong about a symbol at most MaxBehind times in a row.
CacheTimely == \A s \in Symbols : seen[s] = held[s] \/ behind[s] < MaxBehind

CountBehind == [ s \in Symbols |->
                   IF seen[s] = held[s] THEN 0 ELSE behind[s] + 1 ]

AllMissing == Tracked # {} /\ \A s \in Tracked : ~seen[s]

\* Mutant: positions the engine has no record of are left alone.
PresentKnown(snap) ==
  /\ rec' = [ s \in Symbols |-> IF snap[s] /\ s \in Tracked
                                 THEN [ rec[s] EXCEPT !.exiting = FALSE ] ELSE rec[s] ]
  /\ miss' = [ s \in Symbols |-> IF snap[s] /\ s \in Tracked THEN 0 ELSE miss[s] ]
  /\ todo' = { s \in Tracked : ~snap[s] }
  /\ pc' = "drop"
  /\ UNCHANGED << disk, ledger, cur >>

\* What the sync does with the symbols of a snapshot: records are added, and
\* pending_exit is cleared where the position is still there.
Present(snap) ==
  /\ rec' = [ s \in Symbols |->
                IF ~snap[s] THEN rec[s]
                ELSE [ trip |-> IF s \in Tracked THEN rec[s].trip ELSE trips[s],
                       exiting |-> FALSE ] ]
  /\ open' = [ s \in Symbols |->
                 IF ~snap[s] THEN open[s]
                 ELSE OpenKept(s, IF s \in Tracked THEN rec[s].trip ELSE trips[s]) ]
  /\ miss' = [ s \in Symbols |-> IF snap[s] /\ s \in Tracked THEN 0 ELSE miss[s] ]
  /\ todo' = { s \in Tracked : ~snap[s] }
  /\ pc' = "drop"
  /\ UNCHANGED << disk, history, cur >>

SyncCached ==
  /\ pc = "idle" /\ CacheTimely /\ ~AllMissing
  /\ behind' = CountBehind
  /\ Present(seen)
  /\ UNCHANGED << account, seen, faults >>

\* Every tracked symbol reads as flat: ask again before believing it.
SyncRechecked ==
  /\ pc = "idle" /\ CacheTimely /\ AllMissing
  /\ seen' = held
  /\ behind' = [ s \in Symbols |-> 0 ]
  /\ Present(held)
  /\ UNCHANGED << account, faults >>

SyncSkipped ==
  /\ pc = "idle" /\ CacheTimely /\ AllMissing
  /\ Fault("recheck")
  /\ behind' = CountBehind
  /\ pc' = "cycle" /\ todo' = Tracked
  /\ UNCHANGED << account, seen, rec, disk, miss, ledger, cur >>

\* Mutant: no snapshot without the symbol is ever believed.
DeferAlways(s) ==
  /\ pc = "drop" /\ s \in todo
  /\ miss' = [ miss EXCEPT ![s] = @ + 1 ]
  /\ todo' = todo \ {s}
  /\ UNCHANGED << account, cache, rec, disk, ledger, pc, cur, faults >>

\* The first snapshot without the symbol is not believed.
Defer(s) ==
  /\ pc = "drop" /\ s \in todo /\ miss[s] = 0
  /\ miss' = [ miss EXCEPT ![s] = 1 ]
  /\ todo' = todo \ {s}
  /\ UNCHANGED << account, cache, rec, disk, ledger, pc, cur, faults >>

\* Mutant: the first snapshot without the symbol is believed.
DropCloseHasty(s) ==
  /\ pc = "drop" /\ s \in todo
  /\ CloseTrade(s, rec[s].trip)
  /\ mkt' = [ mkt EXCEPT ![s] = FALSE ]
  /\ pc' = "closed" /\ cur' = s
  /\ UNCHANGED << held, trips, cache, rec, disk, miss, todo, faults >>

\* The second is: its orders are cancelled and the ledger row is written ...
DropClose(s) ==
  /\ pc = "drop" /\ s \in todo /\ miss[s] >= 1
  /\ CloseTrade(s, rec[s].trip)
  /\ mkt' = [ mkt EXCEPT ![s] = FALSE ]
  /\ pc' = "closed" /\ cur' = s
  /\ UNCHANGED << held, trips, cache, rec, disk, miss, todo, faults >>

\* ... and only then the record is dropped, in memory.
DropRecord ==
  /\ pc = "closed"
  /\ rec' = [ rec EXCEPT ![cur] = NoRec ]
  /\ miss' = [ miss EXCEPT ![cur] = 0 ]
  /\ todo' = todo \ {cur}
  /\ pc' = "drop" /\ cur' = Nobody
  /\ UNCHANGED << account, cache, disk, ledger, faults >>

\* save_state, if the sync changed anything; nothing else is unsaved here.
SyncEnds ==
  /\ pc = "drop" /\ todo = {}
  /\ disk' = rec
  /\ pc' = "cycle" /\ todo' = Tracked
  /\ UNCHANGED << account, cache, rec, miss, ledger, cur, faults >>

-----------------------------------------------------------------------------
(* Software exits: liquidate, once per tracked symbol and cycle. *)

\* Without the event "blind" the engine trades no symbol that its last sync missed
\* or that the cache is wrong about.
Sighted(s) == "blind" \in Faults \/ (miss[s] = 0 /\ (held[s] => seen[s]))

ExitDue(s) == pc = "cycle" /\ s \in todo /\ s \in Tracked /\ ~rec[s].exiting

\* The cancels before the exit were not confirmed: nothing is sold.
ExitDeferred(s) ==
  /\ ExitDue(s) /\ Sighted(s) /\ seen[s]
  /\ Fault("exitFails")
  /\ disk' = rec /\ todo' = todo \ {s}
  /\ UNCHANGED << account, cache, rec, miss, ledger, pc, cur >>

ExitSends(s) ==
  /\ ExitDue(s) /\ Sighted(s) /\ seen[s]
  /\ rec' = [ rec EXCEPT ![s].exiting = TRUE ]
  /\ disk' = rec'
  /\ mkt' = [ mkt EXCEPT ![s] = TRUE ]
  /\ pc' = "selling" /\ cur' = s /\ todo' = todo \ {s}
  /\ UNCHANGED << held, trips, cache, miss, ledger, faults >>

\* The SELL is done: the fill is kept in the record until the sync confirms flat.
ExitFilled ==
  /\ pc = "selling" /\ ~mkt[cur]
  /\ disk' = rec
  /\ pc' = "cycle" /\ cur' = Nobody
  /\ UNCHANGED << account, cache, rec, miss, ledger, todo, faults >>

\* The broker refuses the SELL, as it does when there is nothing left to sell.
ExitRejected ==
  /\ pc = "selling" /\ mkt[cur]
  /\ IF held[cur] THEN Fault("exitFails") ELSE UNCHANGED faults
  /\ mkt' = [ mkt EXCEPT ![cur] = FALSE ]
  /\ rec' = [ rec EXCEPT ![cur].exiting = FALSE ]
  /\ disk' = rec'
  /\ pc' = "cycle" /\ cur' = Nobody
  /\ UNCHANGED << held, trips, cache, miss, ledger, todo >>

ExitUnconfirmed ==
  /\ pc = "selling" /\ mkt[cur]
  /\ Fault("unfinished")
  /\ pc' = "cycle" /\ cur' = Nobody
  /\ UNCHANGED << account, cache, rec, disk, miss, ledger, todo >>

\* Mutant: the record goes without a ledger row.
ExitNoPositionUnbooked(s) ==
  /\ ExitDue(s) /\ Sighted(s) /\ ~seen[s]
  /\ mkt' = [ mkt EXCEPT ![s] = FALSE ]
  /\ pc' = "gone" /\ cur' = s /\ todo' = todo \ {s}
  /\ UNCHANGED << held, trips, cache, rec, disk, miss, ledger, faults >>

\* liquidate finds no position: it closes the trade and drops the record at once.
ExitNoPosition(s) ==
  /\ ExitDue(s) /\ Sighted(s) /\ ~seen[s]
  /\ CloseTrade(s, rec[s].trip)
  /\ mkt' = [ mkt EXCEPT ![s] = FALSE ]
  /\ pc' = "gone" /\ cur' = s /\ todo' = todo \ {s}
  /\ UNCHANGED << held, trips, cache, rec, disk, miss, faults >>

\* The miss count of the symbol stays.
ExitDropsRecord ==
  /\ pc = "gone"
  /\ rec' = [ rec EXCEPT ![cur] = NoRec ]
  /\ disk' = rec'
  /\ pc' = "cycle" /\ cur' = Nobody
  /\ UNCHANGED << account, cache, miss, ledger, todo, faults >>

-----------------------------------------------------------------------------
(* Entries. *)

\* The candidate is not tracked; a BUY of more of a held position needs "blind".
MayBuy(s) ==
  /\ pc = "cycle" /\ s \notin Tracked
  /\ IF held[s] THEN "blind" \in Faults ELSE trips[s] < MaxTrips

Bought(s) ==
  /\ held' = [ held EXCEPT ![s] = TRUE ]
  /\ trips' = IF held[s] THEN trips ELSE [ trips EXCEPT ![s] = @ + 1 ]

BuyFills(s) ==
  /\ MayBuy(s) /\ Bought(s)
  /\ pc' = "bought" /\ cur' = s
  /\ UNCHANGED << mkt, cache, rec, disk, miss, ledger, todo, faults >>

\* The BUY fills while it is being cancelled: the code syncs at once.
BuyFillsLate(s) ==
  /\ MayBuy(s) /\ Bought(s)
  /\ pc' = "idle"
  /\ UNCHANGED << mkt, cache, rec, disk, miss, ledger, cur, todo, faults >>

RecordEntry ==
  /\ pc = "bought"
  /\ rec' = [ rec EXCEPT ![cur] = [ trip |-> trips[cur], exiting |-> FALSE ] ]
  /\ disk' = rec'
  /\ pc' = "entered"
  /\ UNCHANGED << account, cache, miss, ledger, cur, todo, faults >>

LedgerEntry ==
  /\ pc = "entered"
  /\ OpenFresh(cur, trips[cur])
  /\ pc' = "cycle" /\ cur' = Nobody
  /\ UNCHANGED << account, cache, rec, disk, miss, todo, faults >>

CycleEnds ==
  /\ pc = "cycle"
  /\ pc' = "idle" /\ todo' = {}
  /\ UNCHANGED << account, cache, rec, disk, miss, ledger, cur, faults >>

-----------------------------------------------------------------------------
(* Start, crash, broker. *)

\* load_state and the connection, which fetches the positions.
Boot ==
  /\ pc = "boot"
  /\ rec' = disk
  /\ seen' = held /\ behind' = [ s \in Symbols |-> 0 ]
  /\ miss' = [ s \in Symbols |-> 0 ]
  /\ pc' = "idle"
  /\ UNCHANGED << account, disk, ledger, cur, todo, faults >>

Crash ==
  /\ pc # "boot" /\ Fault("crash")
  /\ rec' = [ s \in Symbols |-> NoRec ]
  /\ pc' = "boot" /\ cur' = Nobody /\ todo' = {}
  /\ UNCHANGED << account, cache, disk, miss, ledger >>

\* The stop fires, or the operator sells; a position gets its stop after its record
\* has been saved, and nobody sells one the engine has not recorded.
StopFires(s) ==
  /\ held[s] /\ ~mkt[s] /\ disk[s].trip # 0
  /\ held' = [ held EXCEPT ![s] = FALSE ]
  /\ UNCHANGED << trips, mkt, cache, rec, disk, miss, ledger, pc, cur, todo, faults >>

MarketFills(s) ==
  /\ held[s] /\ mkt[s]
  /\ held' = [ held EXCEPT ![s] = FALSE ]
  /\ mkt' = [ mkt EXCEPT ![s] = FALSE ]
  /\ UNCHANGED << trips, cache, rec, disk, miss, ledger, pc, cur, todo, faults >>

\* A market SELL nobody waits for is cancelled by an audit, refused or expires.
MarketEnds(s) ==
  /\ mkt[s] /\ cur # s
  /\ mkt' = [ mkt EXCEPT ![s] = FALSE ]
  /\ UNCHANGED << held, trips, cache, rec, disk, miss, ledger, pc, cur, todo, faults >>

CatchUp(s) ==
  /\ seen[s] # held[s] /\ pc # "boot"
  /\ seen' = [ seen EXCEPT ![s] = held[s] ]
  /\ UNCHANGED << account, behind, rec, disk, miss, ledger, pc, cur, todo, faults >>

CacheDrops ==
  /\ pc # "boot" /\ Fault("drops")
  /\ \E lost \in SUBSET { s \in Symbols : seen[s] } :
       /\ lost # {}
       /\ seen' = [ s \in Symbols |-> seen[s] /\ s \notin lost ]
  /\ UNCHANGED << account, behind, rec, disk, miss, ledger, pc, cur, todo >>

-----------------------------------------------------------------------------
Sync  == \/ SyncCached \/ SyncRechecked \/ SyncSkipped \/ DropRecord \/ SyncEnds
         \/ \E s \in Symbols : Defer(s) \/ DropClose(s)
Exits == \/ ExitFilled \/ ExitRejected \/ ExitUnconfirmed \/ ExitDropsRecord
         \/ \E s \in Symbols : ExitDeferred(s) \/ ExitSends(s) \/ ExitNoPosition(s)
Entry == \/ RecordEntry \/ LedgerEntry
         \/ \E s \in Symbols : BuyFills(s) \/ BuyFillsLate(s)
World == \/ Crash \/ CacheDrops
         \/ \E s \in Symbols : StopFires(s) \/ MarketFills(s) \/ MarketEnds(s)
                                \/ CatchUp(s)

Engine == Boot \/ Sync \/ Exits \/ Entry \/ CycleEnds
Next   == Engine \/ World

\* The loop keeps running; a SELL that is waited for ends; the cache catches up.
Fairness ==
  /\ WF_vars(Engine)
  /\ \A s \in Symbols : WF_vars(CatchUp(s)) /\ WF_vars(MarketFills(s))

Spec     == Init /\ [][Next]_vars
FairSpec == Spec /\ Fairness

-----------------------------------------------------------------------------
(* Properties. *)

\* The ledger, whatever the snapshots, exits and restarts in between, keeps the
\* promise of RoundTrips: a row for positions that have ended only, each from its
\* own open record or marked, and none twice unless marked.
KeepsRoundTrips == RT!Spec

\* A position that is held keeps its record, as the rule of two snapshots is there
\* to ensure when one snapshot misses it; only a crash takes it, until the restart.
HeldStaysTracked ==
  [][\A s \in Symbols : held[s] /\ s \in Tracked
                          => rec'[s].trip # 0 \/ pc' = "boot"]_vars

\* Every position that ends gets its row, whoever sold it and whenever the engine
\* was down.
EventuallyAccounted ==
  \A s \in Symbols : []<>(RT!Finished(s) \subseteq RT!RowsOf(history[s]))

\* Every position is found again by a sync when its fill, a restart or the cache
\* lost it.
EventuallyTracked == \A s \in Symbols : []<>(held[s] => s \in Tracked)
=============================================================================
