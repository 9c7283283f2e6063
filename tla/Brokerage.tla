------------------------------ MODULE Brokerage ------------------------------
(***************************************************************************)
(* The brokerage account as the engine uses it, for one symbol: the        *)
(* position it holds, the orders it has for the symbol, and the trading    *)
(* day.  IBKR is outside src/, so every action here is external: it is     *)
(* what src/src/engine_orders.py and src/src/engine_entries.py rely on.    *)
(*                                                                         *)
(* Broker steps interleave with the engine wherever the engine yields to   *)
(* ib_async (ib.sleep, loopUntil, a request).  ib_async updates the Trade  *)
(* objects the engine holds in place, so the engine's view of an order's   *)
(* status is the broker's.                                                 *)
(***************************************************************************)
EXTENDS Integers, FiniteSets

CONSTANTS
  MaxOrders,    \* order slots; a finished order nobody refers to is reused
  MaxQty,       \* largest position, in shares
  MaxFaults,    \* adverse events per behaviour
  Faults,       \* which adverse events may happen (see FaultKinds)
  Starts        \* what the engine may find when it starts: [held, book, disk]

FaultKinds ==
  { "entryStopReject",  \* the broker rejects the stop placed after a fill
    "stopReject",       \* the broker rejects a stop placed by an audit
    "preflight",        \* whatIf refuses a stop order
    "exitReject",       \* the broker rejects the market exit
    "placeRaises",      \* an audit's or an exit's placeOrder raises
    "entryPlaceRaises", \* placeOrder raises for the stop after a fill
    "cancelRaises",     \* cancelOrder raises in an audit or before an exit
    "buyCancelRaises",  \* cancelOrder raises for a BUY that did not fill
    "orphanCancelRaises", \* cancelOrder raises in an orphan cleanup
    "slowCancel",       \* a cancel is acknowledged later than the wait for it
    "exitTimeout",      \* the market exit is unfinished after 30 s
    "brokerCancel",     \* the broker cancels a resting order by itself
    "manualClose",      \* the operator closes the position outside the engine
    "qtyChange",        \* a split or an outside purchase raises the quantity
    "recheck",          \* the confirming reqPositions() fails
    "forceExit",        \* the operator creates or removes FORCE_EXIT
    "crash" }           \* the engine process dies and is restarted

OrderId == 1 .. MaxOrders

Order == [ type   : {"none", "BUY", "TRAIL", "MKT"},
           qty    : 0 .. MaxQty,
           status : {"free", "submitted", "pendingCancel", "filled", "cancelled"},
           gate   : {"none", "today", "stale"},  \* day stamp of goodAfterTime
           own    : BOOLEAN,    \* placed under this engine's clientId
           dollar : BOOLEAN ]   \* dollar TRAIL (auxPrice) rather than percent

FreeSlot == [ type |-> "none", qty |-> 0, status |-> "free", gate |-> "none",
              own |-> FALSE, dollar |-> FALSE ]

ASSUME MaxOrdersAssumption == MaxOrders \in Nat \ {0}
ASSUME MaxQtyAssumption    == MaxQty \in Nat \ {0}
ASSUME MaxFaultsAssumption == MaxFaults \in Nat
ASSUME FaultsAssumption    == Faults \subseteq FaultKinds

VARIABLES
  phase,   \* time of day: before 9:15, before the 9:32 stop gate, after 9:35
  held,    \* shares held at the broker
  ord,     \* the order in each slot
  faults   \* adverse events still to come at most

brokerVars == << phase, held, ord, faults >>

Phases == {"early", "pregate", "session"}

BrokerTypeOK ==
  /\ phase \in Phases
  /\ held \in 0 .. MaxQty
  /\ ord \in [OrderId -> Order]
  /\ faults \in 0 .. MaxFaults

-----------------------------------------------------------------------------
(* What the engine reads. *)

\* An order ib_async lists among the open trades.
Open(i)   == ord[i].status \in {"submitted", "pendingCancel"}
OpenSells == { i \in OrderId : Open(i) /\ ord[i].type \in {"TRAIL", "MKT"} }

\* A trade object that can protect q shares: a TRAIL SELL for exactly q
\* shares whose status is not one of _REJECTED_ORDER_STATUSES.
Matching(i, q) ==
  /\ ord[i].type = "TRAIL"
  /\ ord[i].qty = q
  /\ ord[i].status \notin {"free", "cancelled"}

\* The position has a working TRAIL for every share held.
Protected ==
  \E i \in OrderId : /\ ord[i].type = "TRAIL"
                     /\ ord[i].status = "submitted"
                     /\ ord[i].qty = held

\* goodAfterTime for a stop placed now: only while the gate is in the future.
GateNow == IF phase = "session" THEN "none" ELSE "today"

\* Without slow cancels, a cancel lands within the engine's wait for it.
CancelsLanded ==
  \/ "slowCancel" \in Faults
  \/ \A i \in OrderId : ord[i].own => ord[i].status # "pendingCancel"

-----------------------------------------------------------------------------
(* What the engine asks for. *)

NoFault  == UNCHANGED faults
Fault(f) == f \in Faults /\ faults > 0 /\ faults' = faults - 1

\* cancelOrder for every order of S; another client's order is not affected.
RequestCancel(S) ==
  ord' = [ i \in OrderId |->
             IF i \in S /\ ord[i].own /\ ord[i].status = "submitted"
             THEN [ord[i] EXCEPT !.status = "pendingCancel"]
             ELSE ord[i] ]

NewOrder(type, q, gate, dollar) ==
  [ type |-> type, qty |-> q, status |-> "submitted", gate |-> gate,
    own |-> TRUE, dollar |-> dollar ]

\* A cash account cannot be short, so a SELL is refused when it asks for more
\* than the position, alone or together with a SELL that is still live.
Oversells(o) ==
  /\ o.type # "BUY"
  /\ \/ o.qty > held
     \/ \E j \in OpenSells : ord[j].qty + o.qty > held

\* Slots whose order is finished and that nothing the engine holds refers to.
Slots(watched) ==
  { i \in OrderId \ watched : ord[i].status \in {"free", "filled", "cancelled"} }

\* placeOrder into slot i: accepted, refused as an oversell, or rejected by
\* fault f.
Place(i, o, f, watched) ==
  /\ i \in Slots(watched)
  /\ \A j \in Slots(watched) : i <= j
  /\ \/ /\ ord' = [ord EXCEPT ![i] =
                     [o EXCEPT !.status = IF Oversells(o) THEN "cancelled" ELSE @]]
        /\ NoFault
     \/ /\ Fault(f)
        /\ ord' = [ord EXCEPT ![i] = [o EXCEPT !.status = "cancelled"]]

-----------------------------------------------------------------------------
(* What the broker, the operator and the clock do by themselves. *)

FillBuy(i) ==
  /\ phase = "session"
  /\ Open(i) /\ ord[i].type = "BUY"
  /\ held + ord[i].qty <= MaxQty          \* bound on the position
  /\ held' = held + ord[i].qty
  /\ ord' = [ord EXCEPT ![i].status = "filled"]
  /\ UNCHANGED << phase, faults >>

\* A stop triggers, or a market exit executes; a gated stop is not active yet.
FillSell(i) ==
  /\ phase = "session"
  /\ i \in OpenSells
  /\ ord[i].qty <= held
  /\ held' = held - ord[i].qty
  /\ ord' = [ord EXCEPT ![i].status = "filled"]
  /\ UNCHANGED << phase, faults >>

\* A SELL for more than the position is refused when it would execute.
RefuseSell(i) ==
  /\ phase = "session"
  /\ i \in OpenSells
  /\ ord[i].qty > held
  /\ ord' = [ord EXCEPT ![i].status = "cancelled"]
  /\ UNCHANGED << phase, held, faults >>

AcknowledgeCancel(i) ==
  /\ ord[i].status = "pendingCancel"
  /\ ord' = [ord EXCEPT ![i].status = "cancelled"]
  /\ UNCHANGED << phase, held, faults >>

BrokerCancels(i) ==
  /\ Fault("brokerCancel")
  /\ ord[i].status = "submitted"
  /\ ord' = [ord EXCEPT ![i].status = "cancelled"]
  /\ UNCHANGED << phase, held >>

QuantityGrows ==
  /\ Fault("qtyChange")
  /\ held > 0 /\ held < MaxQty
  /\ held' = held + 1
  /\ UNCHANGED << phase, ord >>

OperatorCloses ==
  /\ Fault("manualClose")
  /\ held > 0
  /\ held' = 0
  /\ UNCHANGED << phase, ord >>

BrokerNext ==
  \/ \E i \in OrderId : \/ FillBuy(i) \/ FillSell(i) \/ RefuseSell(i)
                        \/ AcknowledgeCancel(i) \/ BrokerCancels(i)
  \/ QuantityGrows \/ OperatorCloses

\* The clock moves within a day; NewDay lets DAY orders expire (a TRAIL is
\* GTC) and turns today's goodAfterTime stamps into yesterday's.
NextPhase ==
  /\ \/ phase = "early"   /\ phase' = "pregate"
     \/ phase = "pregate" /\ phase' = "session"
  /\ UNCHANGED << held, ord, faults >>

NewDay ==
  /\ phase = "session"
  /\ phase' = "early"
  /\ ord' = [ i \in OrderId |->
                IF ord[i].type \in {"BUY", "MKT"} /\ Open(i)
                THEN [ord[i] EXCEPT !.status = "cancelled"]
                ELSE [ord[i] EXCEPT !.gate = IF @ = "today" THEN "stale" ELSE @] ]
  /\ UNCHANGED << held, faults >>
=============================================================================
