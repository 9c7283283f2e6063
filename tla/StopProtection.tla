---------------------------- MODULE StopProtection ----------------------------
(***************************************************************************)
(* The life of one symbol's position in VelocityEngine: how it is entered, *)
(* how its protective TRAIL is placed, audited, re-gated and rebuilt, how  *)
(* it is liquidated, and how the engine's record of it follows the broker, *)
(* over days, crashes and restarts.                                        *)
(*                                                                         *)
(* The engine is one thread.  pc names the point at which it has yielded   *)
(* to ib_async (a sleep, a loopUntil, a request) or is about to call the   *)
(* next routine of run_cycle; one action is the code from one such point   *)
(* to the next.  Broker steps (Brokerage) happen between any two of them.  *)
(*                                                                         *)
(* Prices are abstracted: a stop's distance and level are only set or not  *)
(* set.  Whether an entry or a software exit is due is a free choice here. *)
(***************************************************************************)
EXTENDS Brokerage

VARIABLES
  st,          \* self.state[sym]: the engine's record of the position
  disk,        \* the same record in engine_state.json
  miss,        \* _missing_position_counts[sym]
  auditToday,  \* _last_audit_date is today
  auditPhase,  \* time of day of _last_audit_at, "never" if before today
  checked,     \* the audit checkpoints done today
  forceExit,   \* FORCE_EXIT_FILE exists
  pc,          \* where the engine is
  ret,         \* where the routine it is in returns to
  cur,         \* the order the routine works on (0: none)
  neu,         \* the replacement placed by an audit (0: none)
  stopTrade,   \* stop_trade of the entry routine (0: none)
  snap,        \* SELL orders an audit still has to deal with
  want,        \* quantity the entry or the exit routine trades
  confirmedIds \* history: the orders an audit has confirmed as protection

engineVars == << st, disk, miss, auditToday, auditPhase, checked, forceExit, pc,
                 ret, cur, neu, stopTrade, snap, want, confirmedIds >>
locals == << cur, neu, stopTrade, snap, want >>
diary  == << auditToday, auditPhase, checked >>
vars   == << brokerVars, engineVars >>

Checkpoints == {"preEntry", "postOpen"}

Position == [ tracked     : BOOLEAN,   \* sym in self.state
              qty         : 0 .. MaxQty,
              prot        : {"absent", "pending", "unconfirmed", "confirmed"},
              stopSet     : BOOLEAN,   \* stop_dist > 0 and stop_loss > 0
              stopId      : 0 .. MaxOrders,
              pendingExit : BOOLEAN ]

Untracked == [ tracked |-> FALSE, qty |-> 0, prot |-> "absent",
               stopSet |-> FALSE, stopId |-> 0, pendingExit |-> FALSE ]

ASSUME StartsAssumption ==
  Starts \subseteq [ held : 0 .. MaxQty, book : [OrderId -> Order], disk : Position ]

Labels == { "boot", "bootSync", "bootAudit", "bootDone", "idle", "syncRemove",
            "syncSave", "gate", "auditDone", "check", "chkSync", "chkAudit", "chkDone",
            "manage", "entry", "buySent", "noFill", "noFillAudit", "stopPlace",
            "stopSent", "confirm2", "others",
            "othersAudit", "audit", "audSym", "audKeep", "audPlace",
            "audPlaced", "gateCancelled", "gatePlaced", "gateRestore",
            "gateRestored", "exit", "exitGone", "exitWait", "exitSent" }

\* Where a sync, an audit or an exit goes on when it is done.
Returns == { "bootAudit", "bootDone", "idle", "gate", "auditDone", "chkAudit",
             "chkDone", "entry", "noFillAudit", "othersAudit", "confirm2" }

TypeOK ==
  /\ BrokerTypeOK
  /\ st \in Position
  /\ disk \in Position
  /\ miss \in 0 .. 1
  /\ auditToday \in BOOLEAN
  /\ auditPhase \in Phases \cup {"never"}
  /\ checked \subseteq Checkpoints
  /\ forceExit \in BOOLEAN
  /\ pc \in Labels
  /\ ret \in Returns
  /\ cur \in 0 .. MaxOrders
  /\ neu \in 0 .. MaxOrders
  /\ stopTrade \in 0 .. MaxOrders
  /\ snap \subseteq OrderId
  /\ want \in 0 .. MaxQty
  /\ confirmedIds \subseteq OrderId

\* The orders the engine still refers to by id or by trade object.
Watched == {cur, neu, stopTrade, st.stopId, disk.stopId} \cup snap

\* The engine may start at any time of day, with orders, a position and a saved
\* record from before.
Init ==
  /\ phase \in Phases
  /\ faults = MaxFaults
  /\ \E s \in Starts : held = s.held /\ ord = s.book /\ disk = s.disk
  /\ st = Untracked
  /\ miss = 0
  /\ auditToday = FALSE /\ auditPhase = "never" /\ checked = {}
  /\ forceExit = FALSE
  /\ pc = "boot" /\ ret = "idle"
  /\ cur = 0 /\ neu = 0 /\ stopTrade = 0 /\ snap = {} /\ want = 0
  /\ confirmedIds = {}

-----------------------------------------------------------------------------
(* Bookkeeping shared by the routines. *)

Goto(label)    == pc' = label
Call(p, label) == pc' = p /\ ret' = label
Save(s)        == st' = s /\ disk' = s   \* assign and save_state()
Release        == cur' = 0 /\ neu' = 0 /\ snap' = {}

\* cancelOrder for every order of S; a failure is logged and nothing else.
CancelOrphans(S) ==
  \/ RequestCancel(S) /\ NoFault
  \/ S # {} /\ Fault("orphanCancelRaises") /\ UNCHANGED ord

\* _mark_position_protection
Confirmed(s, i) == [s EXCEPT !.prot = "confirmed", !.stopSet = TRUE, !.stopId = i]
Unconfirmed(s)  == [s EXCEPT !.prot = "unconfirmed"]

\* Mutant: a failed protection is not audited again while its level is set.
NeedsAuditOnlyUnset(s) == s.tracked /\ ~s.pendingExit /\ s.qty > 0 /\ ~s.stopSet

\* _position_needs_stop_audit
NeedsAudit(s) ==
  /\ s.tracked
  /\ ~s.pendingExit
  /\ \/ s.prot = "unconfirmed"
     \/ s.qty > 0 /\ ~s.stopSet

-----------------------------------------------------------------------------
(* _sync_positions_from_ibkr, called at three places; it goes on at label. *)

\* The sync saves once, at its end, if it has changed anything.  When it drops the
\* record of another symbol it sleeps before that, while it cancels the orders that
\* symbol has left (syncSave).
SyncEnds(label) ==
  \/ disk' = (IF st' # st THEN st' ELSE disk) /\ Goto(label) /\ UNCHANGED ret
  \/ Call("syncSave", label) /\ UNCHANGED disk

Recovered(q) ==
  [ tracked |-> TRUE, qty |-> q, prot |-> "absent", stopSet |-> FALSE,
    stopId |-> 0, pendingExit |-> FALSE ]

SyncAdds(label) ==
  /\ held > 0 /\ ~st.tracked
  /\ st' = Recovered(held)
  /\ SyncEnds(label)
  /\ NoFault
  /\ UNCHANGED << ord, miss >>

SyncUpdates(label) ==
  /\ held > 0 /\ st.tracked
  /\ miss' = 0
  /\ st' = [st EXCEPT !.pendingExit = FALSE, !.qty = held]
  /\ SyncEnds(label)
  /\ NoFault
  /\ UNCHANGED ord

\* Mutant: a missing position is deferred time and again.
SyncDefersAgain(label) ==
  /\ held = 0 /\ st.tracked /\ ~forceExit
  /\ miss' = miss + 1
  /\ Goto(label)
  /\ NoFault
  /\ UNCHANGED << ord, st, disk, ret >>

SyncDefers(label) ==
  /\ held = 0 /\ st.tracked
  /\ miss = 0 /\ ~forceExit
  /\ miss' = 1
  /\ Goto(label)
  /\ NoFault
  /\ UNCHANGED << ord, st, disk, ret >>

SyncCancelsOrphans(label) ==
  /\ held = 0 /\ st.tracked
  /\ miss = 1 \/ forceExit
  /\ CancelOrphans(OpenSells)
  /\ Call("syncRemove", label)
  /\ UNCHANGED << st, disk, miss >>

SyncSkips(label) ==
  /\ held = 0
  /\ \/ ~st.tracked /\ NoFault
     \/ st.tracked /\ ~forceExit /\ Fault("recheck")
  /\ Goto(label)
  /\ UNCHANGED << ord, st, disk, miss, ret >>

Sync(label) ==
  /\ \/ SyncAdds(label) \/ SyncUpdates(label) \/ SyncDefers(label)
     \/ SyncCancelsOrphans(label) \/ SyncSkips(label)
  /\ UNCHANGED << phase, held, diary, forceExit, locals, confirmedIds >>

\* Mutant: the removal is not saved.
SyncRemoveUnsaved ==
  /\ pc = "syncRemove"
  /\ CancelsLanded
  /\ st' = Untracked
  /\ miss' = 0
  /\ Goto(ret)
  /\ UNCHANGED << brokerVars, disk, diary, forceExit, ret, locals, confirmedIds >>

SyncRemove ==
  /\ pc = "syncRemove"
  /\ CancelsLanded
  /\ st' = Untracked
  /\ miss' = 0
  /\ SyncEnds(ret)
  /\ UNCHANGED << brokerVars, diary, forceExit, locals, confirmedIds >>

SyncSave ==
  /\ pc = "syncSave"
  /\ disk' = st
  /\ Goto(ret)
  /\ UNCHANGED << brokerVars, st, miss, diary, forceExit, ret, locals, confirmedIds >>

-----------------------------------------------------------------------------
(* _initialize, after load_state. *)

Boot ==
  /\ pc = "boot"
  /\ st' = disk
  /\ IF ~disk.tracked /\ held = 0
     THEN CancelOrphans({ i \in OrderId : Open(i) })
     ELSE UNCHANGED ord /\ NoFault
  /\ Goto("bootSync")
  /\ UNCHANGED << phase, held, disk, miss, diary, forceExit, ret, locals,
                  confirmedIds >>

BootSync == pc = "bootSync" /\ CancelsLanded /\ Sync("bootAudit")

BootAudit ==
  /\ pc = "bootAudit"
  /\ IF st.tracked THEN Call("audit", "bootDone") ELSE Goto("idle") /\ UNCHANGED ret
  /\ UNCHANGED << brokerVars, st, disk, miss, diary, forceExit, locals, confirmedIds >>

BootDone ==
  /\ pc = "bootDone"
  /\ auditToday' = TRUE /\ auditPhase' = phase
  /\ Goto("idle")
  /\ UNCHANGED << brokerVars, st, disk, miss, checked, forceExit, ret, locals,
                  confirmedIds >>

-----------------------------------------------------------------------------
(* run_cycle: sync, force exit, daily audit, checkpoints, exits, entries. *)

\* SCAN_INTERVAL is longer than any other wait for a cancel.
CycleSync == pc = "idle" /\ CancelsLanded /\ Sync("gate")

\* Mutant: a position without confirmed protection is left to the audit.
CycleForceExitConfirmed ==
  /\ pc = "gate" /\ forceExit
  /\ IF st.tracked /\ st.prot = "confirmed"
     THEN Call("exit", "idle") ELSE Goto("idle") /\ UNCHANGED ret
  /\ UNCHANGED << brokerVars, st, disk, miss, diary, forceExit, locals, confirmedIds >>

CycleForceExit ==
  /\ pc = "gate" /\ forceExit
  /\ IF st.tracked THEN Call("exit", "idle") ELSE Goto("idle") /\ UNCHANGED ret
  /\ UNCHANGED << brokerVars, st, disk, miss, diary, forceExit, locals, confirmedIds >>

\* _maybe_audit_stop_orders
MaybeAudit ==
  /\ pc = "gate" /\ ~forceExit
  /\ IF st.tracked /\ (~auditToday \/ NeedsAudit(st))
     THEN Call("audit", "auditDone")
     ELSE Goto("check") /\ UNCHANGED ret
  /\ UNCHANGED << brokerVars, st, disk, miss, diary, forceExit, locals, confirmedIds >>

AuditDone ==
  /\ pc = "auditDone"
  /\ auditToday' = TRUE /\ auditPhase' = phase
  /\ Goto("check")
  /\ UNCHANGED << brokerVars, st, disk, miss, checked, forceExit, ret, locals,
                  confirmedIds >>

\* _maybe_pre_entry_sync_audit, then _maybe_post_open_stop_audit
Due == { c \in Checkpoints \ checked :
           phase = "session" \/ (c = "preEntry" /\ phase = "pregate") }
NextDue == IF "preEntry" \in Due THEN "preEntry" ELSE "postOpen"
Covered(c) == auditPhase = "session" \/ (c = "preEntry" /\ auditPhase = "pregate")

CheckpointCovered ==
  /\ pc = "check"
  /\ Due # {} /\ Covered(NextDue)
  /\ checked' = checked \cup {NextDue}
  /\ UNCHANGED << brokerVars, st, disk, miss, auditToday, auditPhase, forceExit, pc,
                  ret, locals, confirmedIds >>

CheckpointSync ==
  /\ pc = "check"
  /\ Due # {} /\ ~Covered(NextDue)
  /\ Sync("chkAudit")

CheckpointAudit ==
  /\ pc = "chkAudit"
  /\ IF st.tracked THEN Call("audit", "chkDone") ELSE Goto("chkDone") /\ UNCHANGED ret
  /\ UNCHANGED << brokerVars, st, disk, miss, diary, forceExit, locals, confirmedIds >>

CheckpointDone ==
  /\ pc = "chkDone"
  /\ checked' = checked \cup {NextDue}
  /\ auditToday' = TRUE /\ auditPhase' = phase
  /\ Goto("check")
  /\ UNCHANGED << brokerVars, st, disk, miss, forceExit, ret, locals, confirmedIds >>

CheckpointsOver ==
  /\ pc = "check" /\ Due = {}
  /\ Goto(IF phase = "session" THEN "manage" ELSE "idle")
  /\ UNCHANGED << brokerVars, st, disk, miss, diary, forceExit, ret, locals,
                  confirmedIds >>

\* manage_position_exits decides on an exit, or not
Manage ==
  /\ pc = "manage"
  /\ \/ st.tracked /\ ~st.pendingExit /\ Call("exit", "entry")
     \/ Goto("entry") /\ UNCHANGED ret
  /\ UNCHANGED << brokerVars, st, disk, miss, diary, forceExit, locals, confirmedIds >>

-----------------------------------------------------------------------------
(* The entry of a candidate: BUY, wait, then the protective stop. *)

EntrySkip ==
  /\ pc = "entry"
  /\ Goto("others")
  /\ UNCHANGED << brokerVars, st, disk, miss, diary, forceExit, ret, locals,
                  confirmedIds >>

\* placeOrder(BUY LMT DAY allOrNone); an unaffordable BUY is simply not filled
EntryBuy ==
  /\ pc = "entry"
  /\ ~st.tracked
  /\ \E i \in OrderId, q \in 1 .. MaxQty :
       /\ Place(i, NewOrder("BUY", q, "none", FALSE), "none", Watched)
       /\ cur' = i /\ want' = q
       /\ confirmedIds' = confirmedIds \ {i}
  /\ Goto("buySent")
  /\ UNCHANGED << phase, held, st, disk, miss, diary, forceExit, ret, neu, stopTrade,
                  snap >>

EntryFilled ==
  /\ pc = "buySent"
  /\ ord[cur].status = "filled"
  /\ Save([ tracked |-> TRUE, qty |-> want, prot |-> "pending", stopSet |-> TRUE,
            stopId |-> 0, pendingExit |-> FALSE ])
  /\ cur' = 0
  /\ Goto("stopPlace")
  /\ UNCHANGED << brokerVars, miss, diary, forceExit, ret, neu, stopTrade, snap, want,
                  confirmedIds >>

\* After 30 s without a fill the BUY is cancelled, which may be too late.
EntryNotFilled ==
  /\ pc = "buySent"
  /\ ord[cur].status # "filled"
  /\ \/ RequestCancel({cur}) /\ NoFault
     \/ Fault("buyCancelRaises") /\ UNCHANGED ord
  /\ Goto("noFill")
  /\ UNCHANGED << phase, held, st, disk, miss, diary, forceExit, ret, locals,
                  confirmedIds >>

NoFillSync == pc = "noFill" /\ CancelsLanded /\ Sync("noFillAudit")

NoFillAudit ==
  /\ pc = "noFillAudit"
  /\ IF st.tracked THEN Call("audit", "idle") ELSE Goto("idle") /\ UNCHANGED ret
  /\ cur' = 0 /\ want' = 0
  /\ UNCHANGED << brokerVars, st, disk, miss, diary, forceExit, neu, stopTrade, snap,
                  confirmedIds >>

StopPlace ==
  /\ pc = "stopPlace"
  /\ \E i \in OrderId :
       /\ Place(i, NewOrder("TRAIL", want, GateNow, FALSE), "entryStopReject", Watched)
       /\ stopTrade' = i
       /\ confirmedIds' = confirmedIds \ {i}
  /\ Goto("stopSent")
  /\ UNCHANGED << phase, held, st, disk, miss, diary, forceExit, ret, cur, neu, snap,
                  want >>

StopPreflightFails ==
  /\ pc = "stopPlace"
  /\ Fault("preflight")
  /\ Call("audit", "confirm2")
  /\ UNCHANGED << phase, held, ord, st, disk, miss, diary, forceExit, locals,
                  confirmedIds >>

\* placeOrder raises: run() logs the exception and goes on with the next cycle
StopPlaceRaises ==
  /\ pc = "stopPlace"
  /\ Fault("entryPlaceRaises")
  /\ want' = 0
  /\ Goto("idle")
  /\ UNCHANGED << phase, held, ord, st, disk, miss, diary, forceExit, ret, cur, neu,
                  stopTrade, snap, confirmedIds >>

StopRejected ==
  /\ pc = "stopSent"
  /\ ord[stopTrade].status = "cancelled"
  /\ Call("audit", "confirm2")
  /\ UNCHANGED << brokerVars, st, disk, miss, diary, forceExit, locals, confirmedIds >>

\* _confirm_protective_stop(known_trade) succeeds at once
StopAccepted ==
  /\ pc = "stopSent"
  /\ ord[stopTrade].status # "cancelled"
  /\ Save(Confirmed(st, stopTrade))
  /\ stopTrade' = 0 /\ want' = 0
  /\ Goto("others")
  /\ UNCHANGED << brokerVars, miss, diary, forceExit, ret, cur, neu, snap,
                  confirmedIds >>

\* After an audit, _confirm_protective_stop polls the open orders; the id that
\* is recorded is stop_trade's, when there is one
StopConfirmedAfterAudit ==
  /\ pc = "confirm2"
  /\ \E i \in OrderId : Open(i) /\ Matching(i, want)
  /\ Save([st EXCEPT !.prot = "confirmed",
                     !.stopId = IF stopTrade # 0 THEN stopTrade ELSE @])
  /\ stopTrade' = 0 /\ want' = 0
  /\ Goto("others")
  /\ UNCHANGED << brokerVars, miss, diary, forceExit, ret, cur, neu, snap,
                  confirmedIds >>

StopUnconfirmedAfterAudit ==
  /\ pc = "confirm2"
  /\ \A i \in OrderId : ~(Open(i) /\ Matching(i, want))
  /\ Save(Unconfirmed(st))
  /\ stopTrade' = 0 /\ want' = 0
  /\ Goto("others")
  /\ UNCHANGED << brokerVars, miss, diary, forceExit, ret, cur, neu, snap,
                  confirmedIds >>

\* The candidates that follow, the standalone Bollinger entry last.  When a BUY
\* of another symbol is not filled every position is synchronised, and audited if
\* it filled late after all; when its stop is refused every position is audited.
OthersDone ==
  /\ pc = "others"
  /\ Goto("idle")
  /\ UNCHANGED << brokerVars, st, disk, miss, diary, forceExit, ret, locals,
                  confirmedIds >>

OthersNotFilled == pc = "others" /\ CancelsLanded /\ Sync("othersAudit")

OthersAudit ==
  /\ \/ pc = "others" /\ Call("audit", "idle")
     \/ pc = "othersAudit" /\ Call("audit", "idle")
     \/ pc = "othersAudit" /\ Goto("idle") /\ UNCHANGED ret
  /\ UNCHANGED << brokerVars, st, disk, miss, diary, forceExit, locals, confirmedIds >>

-----------------------------------------------------------------------------
(* _audit_stop_orders.  The snapshot of open orders is taken once; the     *)
(* symbol is dealt with later, against statuses that have moved on.        *)

AuditScan ==
  /\ pc = "audit"
  /\ IF st.tracked THEN snap' = OpenSells /\ Goto("audSym")
                   ELSE UNCHANGED snap /\ Goto(ret)
  /\ UNCHANGED << brokerVars, st, disk, miss, diary, forceExit, ret, cur, neu,
                  stopTrade, want, confirmedIds >>

\* Mutant: the audit does not look at pending_exit.
SkippedUnlessExiting == miss > 0 \/ st.qty = 0

\* Nothing is done to a symbol that may be gone or is being liquidated.
Skipped == miss > 0 \/ st.pendingExit \/ st.qty = 0

AuditSkip ==
  /\ pc = "audSym"
  /\ Skipped
  /\ snap' = {}
  /\ Goto(ret)
  /\ UNCHANGED << brokerVars, st, disk, miss, diary, forceExit, ret, cur, neu,
                  stopTrade, want, confirmedIds >>

\* Keep the TRAILs that match the tracked quantity, cancel every other SELL.
AuditSweep ==
  /\ pc = "audSym"
  /\ ~Skipped
  /\ LET matching == { i \in snap : Matching(i, st.qty) }
     IN  /\ snap' = matching
         /\ \/ RequestCancel(snap \ matching) /\ NoFault
            \/ snap # matching /\ Fault("cancelRaises") /\ UNCHANGED ord
  /\ Goto("audKeep")
  /\ UNCHANGED << phase, held, st, disk, miss, diary, forceExit, ret, cur, neu,
                  stopTrade, want, confirmedIds >>

NoneLeft ==
  /\ pc = "audKeep" /\ CancelsLanded
  /\ snap = {}
  /\ Goto("audPlace")
  /\ UNCHANGED << brokerVars, st, disk, miss, diary, forceExit, ret, locals,
                  confirmedIds >>

\* Mutant: a confirmed order is re-gated like any other.
NeedsGateAlways(i) == ord[i].gate # GateNow

\* _replace_trail_with_stop_activation_gate leaves alone an order that is the
\* recorded, confirmed one, or whose goodAfterTime is already right.
NeedsGate(i) ==
  /\ ~(st.prot = "confirmed" /\ st.stopId = i)
  /\ ord[i].gate # GateNow

\* The audit's verdict on order i as protection, and its return.
Judge(i) ==
  /\ IF Matching(i, st.qty)
     THEN Save(Confirmed(st, i)) /\ confirmedIds' = confirmedIds \cup {i}
     ELSE Save(Unconfirmed(st)) /\ UNCHANGED confirmedIds
  /\ Release
  /\ Goto(ret)
  /\ UNCHANGED << phase, held, miss, diary, forceExit, ret, stopTrade, want >>

\* The primary TRAIL needs nothing, is another client's, or cannot be cancelled.
AuditKeep ==
  /\ pc = "audKeep" /\ CancelsLanded
  /\ \E i \in snap :
       /\ \/ /\ ~ord[i].own \/ (~ord[i].dollar /\ ~NeedsGate(i))
             /\ RequestCancel(snap \ {i}) /\ NoFault
          \/ /\ ord[i].own /\ (ord[i].dollar \/ NeedsGate(i))
             /\ RequestCancel(snap \ {i}) /\ Fault("cancelRaises")
       /\ Judge(i)

\* A dollar TRAIL of this engine is cancelled, to be placed as a percent TRAIL.
AuditConvert ==
  /\ pc = "audKeep" /\ CancelsLanded
  /\ \E i \in snap : ord[i].own /\ ord[i].dollar
  /\ RequestCancel(snap)
  /\ snap' = {}
  /\ Goto("audPlace")
  /\ UNCHANGED << phase, held, faults, st, disk, miss, diary, forceExit, ret, cur, neu,
                  stopTrade, want, confirmedIds >>

AuditRegate ==
  /\ pc = "audKeep" /\ CancelsLanded
  /\ \E i \in snap :
       /\ ord[i].own /\ ~ord[i].dollar /\ NeedsGate(i)
       /\ cur' = i
  /\ RequestCancel(snap)
  /\ snap' = {}
  /\ Goto("gateCancelled")
  /\ UNCHANGED << phase, held, faults, st, disk, miss, diary, forceExit, ret, neu,
                  stopTrade, want, confirmedIds >>

\* The replacement, or the restoration without a gate, of the TRAIL cur.
PlaceCopy(gate, label) ==
  /\ CancelsLanded
  /\ \E i \in OrderId :
       /\ Place(i, NewOrder("TRAIL", st.qty, gate, ord[cur].dollar), "stopReject",
                Watched)
       /\ neu' = i
       /\ confirmedIds' = confirmedIds \ {i}
  /\ Goto(label)
  /\ UNCHANGED << phase, held, st, disk, miss, diary, forceExit, ret, cur, stopTrade,
                  snap, want >>

GateReplace == pc = "gateCancelled" /\ PlaceCopy(GateNow, "gatePlaced")

GateReplaceRaises ==
  /\ pc = "gateCancelled" /\ CancelsLanded
  /\ Fault("placeRaises")
  /\ Goto("gateRestore")
  /\ UNCHANGED << phase, held, ord, st, disk, miss, diary, forceExit, ret, locals,
                  confirmedIds >>

GateReplaceRejected ==
  /\ pc = "gatePlaced"
  /\ ord[neu].status = "cancelled"
  /\ Goto("gateRestore")
  /\ UNCHANGED << brokerVars, st, disk, miss, diary, forceExit, ret, locals,
                  confirmedIds >>

GateReplaced ==
  /\ pc = "gatePlaced"
  /\ ord[neu].status # "cancelled"
  /\ Judge(neu)
  /\ UNCHANGED << ord, faults >>

\* _restore_trail_without_entry_gate
GateRestore == pc = "gateRestore" /\ PlaceCopy("none", "gateRestored")

GateRestoreRaises ==
  /\ pc = "gateRestore"
  /\ Fault("placeRaises") /\ UNCHANGED ord
  /\ Judge(cur)

GateRestored ==
  /\ pc = "gateRestored"
  /\ Judge(IF ord[neu].status = "cancelled" THEN cur ELSE neu)
  /\ UNCHANGED << ord, faults >>

\* No TRAIL is left: place a percent TRAIL for the tracked quantity.
AuditPlace ==
  /\ pc = "audPlace" /\ CancelsLanded
  /\ \E i \in OrderId :
       /\ Place(i, NewOrder("TRAIL", st.qty, GateNow, FALSE), "stopReject", Watched)
       /\ neu' = i
       /\ confirmedIds' = confirmedIds \ {i}
  /\ Goto("audPlaced")
  /\ UNCHANGED << phase, held, st, disk, miss, diary, forceExit, ret, cur, stopTrade,
                  snap, want >>

\* whatIf refuses it, the entry price is missing, or placeOrder raises
AuditCannotPlace ==
  /\ pc = "audPlace" /\ CancelsLanded
  /\ Fault("preflight") \/ Fault("placeRaises")
  /\ Save(Unconfirmed(st))
  /\ Release
  /\ Goto(ret)
  /\ UNCHANGED << phase, held, ord, miss, diary, forceExit, ret, stopTrade, want,
                  confirmedIds >>

\* Mutant: the status of the new stop is not looked at.
AuditPlacedUnchecked ==
  /\ pc = "audPlaced"
  /\ Save(Confirmed(st, neu))
  /\ confirmedIds' = confirmedIds \cup {neu}
  /\ Release
  /\ Goto(ret)
  /\ UNCHANGED << brokerVars, miss, diary, forceExit, ret, stopTrade, want >>

AuditPlaced ==
  /\ pc = "audPlaced"
  /\ IF ord[neu].status = "cancelled"
     THEN /\ Save([Unconfirmed(st) EXCEPT !.stopId = neu])
          /\ UNCHANGED confirmedIds
     ELSE /\ Save(Confirmed(st, neu))
          /\ confirmedIds' = confirmedIds \cup {neu}
  /\ Release
  /\ Goto(ret)
  /\ UNCHANGED << brokerVars, miss, diary, forceExit, ret, stopTrade, want >>

-----------------------------------------------------------------------------
(* liquidate *)

\* Mutant: the stop of a position that is gone is left working.
ExitNoPositionLeavesStop ==
  /\ pc = "exit"
  /\ held = 0
  /\ Goto("exitGone")
  /\ UNCHANGED << brokerVars, st, disk, miss, diary, forceExit, ret, locals,
                  confirmedIds >>

\* No position at the broker: the record goes, whatever miss says.
ExitNoPosition ==
  /\ pc = "exit"
  /\ held = 0
  /\ CancelOrphans(OpenSells)
  /\ Goto("exitGone")
  /\ UNCHANGED << phase, held, st, disk, miss, diary, forceExit, ret, locals,
                  confirmedIds >>

ExitGone ==
  /\ pc = "exitGone" /\ CancelsLanded
  /\ Save(Untracked)
  /\ Goto(ret)
  /\ UNCHANGED << brokerVars, miss, diary, forceExit, ret, locals, confirmedIds >>

\* _cancel_open_orders_before_market_exit
ExitCancel ==
  /\ pc = "exit"
  /\ held > 0
  /\ want' = held
  /\ LET open == { i \in OrderId : Open(i) }
     IN  \/ RequestCancel(open) /\ NoFault
         \/ open # {} /\ Fault("cancelRaises") /\ UNCHANGED ord
  /\ Goto("exitWait")
  /\ UNCHANGED << phase, held, st, disk, miss, diary, forceExit, ret, cur, neu,
                  stopTrade, snap, confirmedIds >>

\* Every failure of the exit withdraws pending_exit and audits at once.
ExitFails ==
  /\ Save([st EXCEPT !.pendingExit = FALSE])
  /\ cur' = 0 /\ want' = 0
  /\ Goto("audit")
  /\ UNCHANGED << phase, held, ord, miss, diary, forceExit, ret, neu, stopTrade, snap,
                  confirmedIds >>

\* SELLs are still open after 20 polls
ExitDeferred ==
  /\ pc = "exitWait" /\ CancelsLanded
  /\ OpenSells # {}
  /\ ExitFails
  /\ NoFault

\* pending_exit is saved before the market SELL is placed
ExitPlace ==
  /\ pc = "exitWait"
  /\ OpenSells = {}
  /\ Save([st EXCEPT !.pendingExit = TRUE])
  /\ \E i \in OrderId :
       /\ Place(i, NewOrder("MKT", want, "none", FALSE), "exitReject", Watched)
       /\ cur' = i
       /\ confirmedIds' = confirmedIds \ {i}
  /\ Goto("exitSent")
  /\ UNCHANGED << phase, held, miss, diary, forceExit, ret, neu, stopTrade, snap, want >>

ExitPlaceRaises ==
  /\ pc = "exitWait"
  /\ OpenSells = {}
  /\ Fault("placeRaises")
  /\ ExitFails

ExitRejected ==
  /\ pc = "exitSent"
  /\ ord[cur].status = "cancelled"
  /\ ExitFails
  /\ NoFault

\* Filled, or neither filled nor rejected after 30 s: pending_exit stays
ExitSettled ==
  /\ pc = "exitSent"
  /\ \/ ord[cur].status = "filled" /\ NoFault
     \/ Open(cur) /\ IF phase = "session" THEN Fault("exitTimeout") ELSE NoFault
  /\ Save([st EXCEPT !.pendingExit = TRUE])
  /\ cur' = 0 /\ want' = 0
  /\ Goto(ret)
  /\ UNCHANGED << phase, held, ord, miss, diary, forceExit, ret, neu, stopTrade, snap,
                  confirmedIds >>

-----------------------------------------------------------------------------
(* The clock, the operator and crashes. *)

\* Named abstraction: the time of day changes between two cycles.
Clock ==
  /\ pc = "idle" /\ CancelsLanded
  /\ \/ NextPhase /\ UNCHANGED diary
     \/ NewDay /\ auditToday' = FALSE /\ auditPhase' = "never" /\ checked' = {}
  /\ UNCHANGED << st, disk, miss, forceExit, pc, ret, locals, confirmedIds >>

ToggleForceExit ==
  /\ Fault("forceExit")
  /\ forceExit' = ~forceExit
  /\ UNCHANGED << phase, held, ord, st, disk, miss, diary, pc, ret, locals,
                  confirmedIds >>

Crash ==
  /\ pc # "boot"
  /\ Fault("crash")
  /\ st' = Untracked /\ miss' = 0
  /\ auditToday' = FALSE /\ auditPhase' = "never" /\ checked' = {}
  /\ Release /\ stopTrade' = 0 /\ want' = 0
  /\ Call("boot", "idle")
  /\ UNCHANGED << phase, held, ord, disk, forceExit, confirmedIds >>

Audit ==
  \/ AuditScan \/ AuditSkip \/ AuditSweep \/ NoneLeft \/ AuditKeep \/ AuditConvert
  \/ AuditRegate \/ GateReplace \/ GateReplaceRaises \/ GateReplaceRejected
  \/ GateReplaced \/ GateRestore \/ GateRestoreRaises \/ GateRestored
  \/ AuditPlace \/ AuditCannotPlace \/ AuditPlaced

Exit ==
  \/ ExitNoPosition \/ ExitGone \/ ExitCancel \/ ExitDeferred \/ ExitPlace
  \/ ExitPlaceRaises \/ ExitRejected \/ ExitSettled

Entry ==
  \/ EntrySkip \/ EntryBuy \/ EntryFilled \/ EntryNotFilled \/ NoFillSync
  \/ NoFillAudit \/ StopPlace \/ StopPreflightFails \/ StopPlaceRaises
  \/ StopRejected \/ StopAccepted \/ StopConfirmedAfterAudit
  \/ StopUnconfirmedAfterAudit \/ OthersDone \/ OthersNotFilled \/ OthersAudit

Cycle ==
  \/ CycleSync \/ CycleForceExit \/ MaybeAudit \/ AuditDone \/ CheckpointCovered
  \/ CheckpointSync \/ CheckpointAudit \/ CheckpointDone \/ CheckpointsOver \/ Manage

Engine ==
  \/ Boot \/ BootSync \/ BootAudit \/ BootDone \/ SyncRemove \/ SyncSave
  \/ Cycle \/ Entry \/ Audit \/ Exit

Broker == BrokerNext /\ UNCHANGED engineVars

Next == Engine \/ Broker \/ Clock \/ ToggleForceExit \/ Crash

Spec == Init /\ [][Next]_vars

\* The engine's loop never stops by itself, the broker acknowledges every
\* cancel, and a market exit ends.
Fairness ==
  /\ WF_vars(Engine)
  /\ \A i \in OrderId :
       /\ WF_vars(AcknowledgeCancel(i) /\ UNCHANGED engineVars)
       /\ WF_vars(/\ ord[i].type = "MKT"
                  /\ FillSell(i) \/ RefuseSell(i)
                  /\ UNCHANGED engineVars)

FairSpec == Spec /\ Fairness
-----------------------------------------------------------------------------
(* Properties *)

AtRest == pc = "idle"

\* Between two cycles a position the engine tracks is either covered, share for
\* share, by a working TRAIL, or flagged so that the very next cycle audits it
\* (_maybe_audit_stop_orders, "immediately for unprotected state").
NoSilentGap ==
  AtRest /\ st.tracked /\ held > 0 => Protected \/ NeedsAudit(st)

\* A symbol that is flat and no longer tracked has no SELL of this engine left
\* working, which would otherwise sell short when it triggers
\* (_cancel_orphaned_exit_orders on every path that drops a record).
NoOrphanStop ==
  AtRest /\ ~st.tracked /\ held = 0 =>
    \A i \in OpenSells : ord[i].own => ord[i].status = "pendingCancel"

\* What a crash while a sync sleeps before its save would lose is what the next sync
\* reads from the broker again: the quantity, the withdrawal of pending_exit, a
\* position found, a position gone.  What the engine alone knows (the level of the
\* stop, its id, whether it was confirmed) is on file.
Reread ==
  \/ disk.tracked /\ st = [disk EXCEPT !.qty = st.qty, !.pendingExit = FALSE]
  \/ ~disk.tracked /\ st = Recovered(st.qty)
  \/ st = Untracked

\* Wherever the engine yields, engine_state.json holds the record it has in memory,
\* but in the sleep of a sync before its save, where it lacks only what the next
\* sync reads again.  So a crash loses no decision already acted upon.
\* (exit_reason, which liquidate sets unsaved for the ledger, is no part of it.)
PersistedAtYields ==
  /\ pc \notin {"boot", "syncSave"} => disk = st
  /\ pc = "syncSave" => Reread

\* Only liquidate itself withdraws a market exit that is working while the
\* position is still held (_audit_stop_orders skips pending_exit).
ExitNotReversed ==
  [][ \A i \in OrderId :
        /\ held > 0 /\ ord[i].type = "MKT" /\ ord[i].status = "submitted"
        /\ ord'[i].status = "pendingCancel"
        => pc = "exit" ]_vars

\* Until the next sync, no audit cancels a market exit that liquidate left working
\* (_audit_stop_orders: "reversing an in-flight risk-control exit decision").
DisturbsExit(i) ==
  /\ held > 0 /\ st.pendingExit
  /\ ord[i].type = "MKT" /\ ord[i].status = "submitted"
  /\ ord'[i].status = "pendingCancel"
  /\ pc # "exit"

ExitUndisturbed == [][ \A i \in OrderId : ~DisturbsExit(i) ]_vars

\* A gate replacement never cancels an order that an earlier audit confirmed: it
\* would forget the high the trail has reached.
ConfirmedStopKeepsItsPeak ==
  [][ pc = "audKeep" /\ pc' = "gateCancelled" => cur' \notin confirmedIds ]_vars

\* A tracked position without a working stop is covered again, or closed
\* (_position_needs_stop_audit and the daily audit).
EventuallyCovered ==
  (st.tracked /\ held > 0 /\ ~Protected) ~> (Protected \/ held = 0)

\* While FORCE_EXIT stands in market hours, the position is liquidated
\* (_force_exit_active, run_cycle).
ForceExitLiquidates ==
  (forceExit /\ held > 0 /\ phase = "session")
     ~> (held = 0 \/ ~forceExit \/ phase # "session")
=============================================================================
