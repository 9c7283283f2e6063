------------------------- MODULE StopProtectionProofs -------------------------
(***************************************************************************)
(* What TLAPS proves of StopProtection for every number of orders, every   *)
(* position size, every set of faults and every start.                     *)
(*                                                                         *)
(* The inductive invariant is the type invariant with what the types rest  *)
(* on (the order a routine works on exists while it works on it), the      *)
(* persistence of the record, and the two facts that keep an audit and the *)
(* entry away from a market exit that is under way.  On it rest the        *)
(* promises of the protection cycle:                                       *)
(*                                                                         *)
(*   NoOrphanStop  no exit order is left working for a symbol that is flat *)
(*                 and no longer tracked,                                  *)
(*   NoSilentGap   a tracked position is covered or about to be audited,   *)
(*                 and                                                     *)
(*   ConfirmedStopKeepsItsPeak                                             *)
(*                 a confirmed stop is not replaced for its gate.          *)
(***************************************************************************)
EXTENDS StopProtection, TLAPS

\* The order a routine holds at the points where it reads or replaces it.
LocalsOK ==
  /\ pc \in {"buySent", "exitSent", "gateCancelled", "gatePlaced", "gateRestore",
             "gateRestored"} => cur \in OrderId
  /\ pc \in {"gatePlaced", "gateRestored", "audPlaced"} => neu \in OrderId

\* An audit that cancels does not do so while the exit is pending, and the order
\* the entry waits for is its BUY.
Separate ==
  /\ pc = "audKeep" => ~st.pendingExit
  /\ pc = "buySent" => ord[cur].type = "BUY"

Inv == TypeOK /\ LocalsOK /\ PersistedAtYields /\ Separate

-----------------------------------------------------------------------------
(* What the broker's and the engine's helpers do to the orders. *)

\* The events that are left stay within their bound.
LEMMA FaultTyped ==
  ASSUME BrokerTypeOK, NEW f, Fault(f) \/ NoFault
  PROVE  faults' \in 0 .. MaxFaults
BY MaxFaultsAssumption DEF BrokerTypeOK, Fault, NoFault

\* cancelOrder keeps the book well formed and changes no order's type.
LEMMA RequestCancelTyped ==
  ASSUME BrokerTypeOK, NEW S, RequestCancel(S)
  PROVE  /\ ord' \in [OrderId -> Order]
         /\ \A i \in OrderId : ord'[i].type = ord[i].type
         /\ \A i \in OrderId \ S : ord'[i] = ord[i]
<1>1. \A i \in OrderId : ord[i] \in Order
  BY DEF BrokerTypeOK
<1>2. \A i \in OrderId : ord'[i] = IF i \in S /\ ord[i].own /\ ord[i].status = "submitted"
                                   THEN [ord[i] EXCEPT !.status = "pendingCancel"]
                                   ELSE ord[i]
  BY DEF RequestCancel
<1>3. \A i \in OrderId : [ord[i] EXCEPT !.status = "pendingCancel"] \in Order
  BY <1>1 DEF Order
<1>4. \A i \in OrderId : [ord[i] EXCEPT !.status = "pendingCancel"].type = ord[i].type
  BY <1>1 DEF Order
<1>5. ord' \in [OrderId -> Order]
  BY <1>1, <1>3 DEF RequestCancel
<1>6. QED
  BY <1>2, <1>4, <1>5

\* placeOrder keeps the book well formed, and its order ends up in its slot.
LEMMA PlaceTyped ==
  ASSUME BrokerTypeOK, NEW i \in OrderId, NEW o \in Order, NEW f, NEW w,
         Place(i, o, f, w)
  PROVE  /\ ord' \in [OrderId -> Order]
         /\ faults' \in 0 .. MaxFaults
         /\ \A j \in OrderId \ {i} : ord'[j] = ord[j]
         /\ ord'[i].type = o.type
         /\ ord'[i].status # "pendingCancel" \/ o.status = "pendingCancel"
<1>1. [o EXCEPT !.status = "cancelled"] \in Order
  BY DEF Order
<1>2. [o EXCEPT !.status = IF Oversells(o) THEN "cancelled" ELSE @] \in Order
  BY DEF Order
<1>3. ord \in [OrderId -> Order]
  BY DEF BrokerTypeOK
<1>4. faults' \in 0 .. MaxFaults
  BY FaultTyped DEF Place
<1>5. CASE ord' = [ord EXCEPT ![i] = [o EXCEPT !.status = "cancelled"]]
  BY <1>1, <1>3, <1>4, <1>5 DEF Order
<1>6. CASE ord' = [ord EXCEPT ![i] =
                     [o EXCEPT !.status = IF Oversells(o) THEN "cancelled" ELSE @]]
  BY <1>2, <1>3, <1>4, <1>6 DEF Order
<1>7. QED
  BY <1>5, <1>6 DEF Place

\* An order the engine builds is well formed and working.
LEMMA NewOrderTyped ==
  ASSUME NEW type \in {"BUY", "TRAIL", "MKT"}, NEW q \in 0 .. MaxQty,
         NEW gate \in {"none", "today", "stale"}, NEW dollar \in BOOLEAN
  PROVE  /\ NewOrder(type, q, gate, dollar) \in Order
         /\ NewOrder(type, q, gate, dollar).type = type
         /\ NewOrder(type, q, gate, dollar).status = "submitted"
BY DEF NewOrder, Order

\* An orphan cleanup keeps the book well formed, whether or not it raises.
LEMMA CancelOrphansTyped ==
  ASSUME BrokerTypeOK, NEW S, CancelOrphans(S)
  PROVE  /\ ord' \in [OrderId -> Order]
         /\ faults' \in 0 .. MaxFaults
         /\ \A i \in OrderId : ord'[i].type = ord[i].type
<1>1. CASE RequestCancel(S) /\ NoFault
  BY <1>1, RequestCancelTyped, FaultTyped
<1>2. CASE Fault("orphanCancelRaises") /\ UNCHANGED ord
  BY <1>2, FaultTyped DEF BrokerTypeOK
<1>3. QED
  BY <1>1, <1>2 DEF CancelOrphans

-----------------------------------------------------------------------------
(* Every step preserves Inv. *)

\* The record of an untracked symbol is well formed.
LEMMA UntrackedTyped ==
  Untracked \in Position
BY MaxOrdersAssumption, MaxQtyAssumption DEF Untracked, Position

\* The engine starts in the invariant.
LEMMA InitInv ==
  Init => Inv
<1>1. Untracked \in Position
  BY UntrackedTyped
<1>2. ASSUME Init PROVE TypeOK
  <2>1. PICK s \in Starts : held = s.held /\ ord = s.book /\ disk = s.disk
    BY <1>2 DEF Init
  <2>2. s \in [ held : 0 .. MaxQty, book : [OrderId -> Order], disk : Position ]
    BY StartsAssumption
  <2>3. held \in 0 .. MaxQty /\ ord \in [OrderId -> Order] /\ disk \in Position
    BY <2>1, <2>2
  <2>4. BrokerTypeOK
    BY <1>2, <2>3, MaxFaultsAssumption DEF Init, BrokerTypeOK
  <2>5. /\ pc \in Labels /\ ret \in Returns
        /\ auditToday \in BOOLEAN /\ auditPhase \in Phases \cup {"never"}
        /\ checked \subseteq Checkpoints /\ forceExit \in BOOLEAN
    BY <1>2 DEF Init, Labels, Returns
  <2>6. /\ miss \in 0 .. 1
        /\ cur \in 0 .. MaxOrders /\ neu \in 0 .. MaxOrders
        /\ stopTrade \in 0 .. MaxOrders /\ want \in 0 .. MaxQty
        /\ snap \subseteq OrderId /\ confirmedIds \subseteq OrderId
    BY <1>2, MaxOrdersAssumption, MaxQtyAssumption DEF Init
  <2>7. st \in Position
    BY <1>1, <1>2 DEF Init
  <2>8. QED
    BY <2>3, <2>4, <2>5, <2>6, <2>7 DEF TypeOK
<1>3. ASSUME Init PROVE LocalsOK /\ PersistedAtYields /\ Separate
  BY <1>3 DEF Init, LocalsOK, PersistedAtYields, Separate
<1>4. QED
  BY <1>2, <1>3 DEF Inv

\* _sync_positions_from_ibkr preserves the invariant wherever it is called.
LEMMA SyncInv ==
  ASSUME Inv, NEW label \in Returns, pc \notin {"boot", "syncSave"}, Sync(label)
  PROVE  Inv'
<1>0. TypeOK /\ disk = st
  BY DEF Inv, PersistedAtYields
<1>1. ord' \in [OrderId -> Order] /\ faults' \in 0 .. MaxFaults
  BY <1>0, CancelOrphansTyped, FaultTyped
     DEF Sync, SyncAdds, SyncUpdates, SyncDefers, SyncCancelsOrphans, SyncSkips,
         TypeOK, BrokerTypeOK
<1>2. BrokerTypeOK'
  BY <1>0, <1>1 DEF Sync, TypeOK, BrokerTypeOK
<1>3. /\ st' \in Position /\ disk' \in Position
      /\ \/ pc' \in {label, "syncRemove"} /\ disk' = st'
         \/ pc' = "syncSave" /\ Reread'
  <2>1. CASE SyncAdds(label)
    <3>1. /\ st' = Recovered(held) /\ Recovered(held) \in Position
          /\ Recovered(held).qty = held /\ ~st.tracked
      BY <1>0, <2>1, MaxOrdersAssumption
         DEF SyncAdds, TypeOK, BrokerTypeOK, Position, Recovered
    <3>2. \/ disk' = st' /\ pc' = label
          \/ disk' = disk /\ pc' = "syncSave"
      BY <1>0, <2>1 DEF SyncAdds, SyncEnds, Goto, Call
    <3>3. QED
      BY <1>0, <3>1, <3>2 DEF Reread, TypeOK
  <2>2. CASE SyncUpdates(label)
    <3>1. /\ st' = [st EXCEPT !.pendingExit = FALSE, !.qty = held] /\ st' \in Position
          /\ st'.qty = held /\ st.tracked
      BY <1>0, <2>2 DEF SyncUpdates, TypeOK, BrokerTypeOK, Position
    <3>2. \/ disk' = st' /\ pc' = label
          \/ disk' = disk /\ pc' = "syncSave"
      BY <1>0, <2>2 DEF SyncUpdates, SyncEnds, Goto, Call
    <3>3. st' = [st EXCEPT !.qty = st'.qty, !.pendingExit = FALSE]
      BY <1>0, <3>1 DEF TypeOK, Position
    <3>4. QED
      BY <1>0, <3>1, <3>2, <3>3 DEF Reread, TypeOK
  <2>3. CASE SyncDefers(label) \/ SyncCancelsOrphans(label) \/ SyncSkips(label)
    BY <1>0, <2>3 DEF SyncDefers, SyncCancelsOrphans, SyncSkips, TypeOK, Goto, Call
  <2>4. QED
    BY <2>1, <2>2, <2>3 DEF Sync
<1>4. miss' \in 0 .. 1 /\ ret' \in Returns
  BY <1>0
     DEF Sync, SyncAdds, SyncUpdates, SyncDefers, SyncCancelsOrphans, SyncSkips, SyncEnds,
         TypeOK, Goto, Call
<1>5. TypeOK'
  BY <1>0, <1>2, <1>3, <1>4 DEF Sync, TypeOK, diary, locals, Labels, Returns
<1>6. (LocalsOK /\ PersistedAtYields /\ Separate)'
  BY <1>3, <1>4 DEF LocalsOK, PersistedAtYields, Separate, Returns
<1>7. QED
  BY <1>5, <1>6 DEF Inv

\* The steps of _initialize, and the ends of a sync, preserve the invariant.
LEMMA BootInv ==
  ASSUME Inv, Boot \/ BootSync \/ BootAudit \/ BootDone \/ SyncRemove \/ SyncSave
  PROVE  Inv'
<1>0. TypeOK /\ BrokerTypeOK /\ PersistedAtYields /\ Separate /\ LocalsOK
  BY DEF Inv, TypeOK
<1>1. CASE Boot
  <2>1. ord' \in [OrderId -> Order] /\ faults' \in 0 .. MaxFaults
    <3>1. CASE CancelOrphans({ i \in OrderId : Open(i) })
      BY <1>0, <3>1, CancelOrphansTyped
    <3>2. CASE UNCHANGED ord /\ NoFault
      BY <1>0, <3>2, FaultTyped DEF BrokerTypeOK
    <3>3. QED
      BY <1>1, <3>1, <3>2 DEF Boot
  <2>2. TypeOK'
    BY <1>0, <1>1, <2>1 DEF Boot, TypeOK, BrokerTypeOK, Goto, Labels, Returns, diary, locals
  <2>3. (LocalsOK /\ PersistedAtYields /\ Separate)'
    BY <1>1 DEF Boot, Goto, LocalsOK, PersistedAtYields, Separate
  <2>4. QED
    BY <2>2, <2>3 DEF Inv
<1>2. CASE BootSync
  BY <1>2, SyncInv DEF BootSync, Labels, Returns
<1>3. CASE BootAudit
  BY <1>0, <1>3 DEF BootAudit, Inv, TypeOK, BrokerTypeOK, PersistedAtYields, Separate,
     LocalsOK, Goto, Call, Labels, Returns, brokerVars, diary, locals
<1>4. CASE BootDone
  BY <1>0, <1>4 DEF BootDone, Inv, TypeOK, BrokerTypeOK, PersistedAtYields, Separate,
     LocalsOK, Goto, Labels, Returns, brokerVars, locals
<1>5. CASE SyncRemove
  <2>1. /\ st' = Untracked /\ ret' = ret
        /\ (pc' = ret /\ disk' = st') \/ (pc' = "syncSave" /\ disk' = disk)
    BY <1>0, <1>5 DEF SyncRemove, SyncEnds, Goto, Call, PersistedAtYields
  <2>2. TypeOK'
    BY <1>0, <1>5, <2>1, UntrackedTyped DEF SyncRemove, TypeOK, BrokerTypeOK, Labels, Returns,
       brokerVars, diary, locals
  <2>3. (LocalsOK /\ PersistedAtYields /\ Separate)'
    BY <1>0, <2>1 DEF TypeOK, Returns, LocalsOK, PersistedAtYields, Reread, Separate
  <2>4. QED
    BY <2>2, <2>3 DEF Inv
<1>6. CASE SyncSave
  <2>1. TypeOK'
    BY <1>0, <1>6 DEF SyncSave, TypeOK, BrokerTypeOK, Goto, Labels, Returns, brokerVars, diary,
       locals
  <2>2. (LocalsOK /\ PersistedAtYields /\ Separate)'
    BY <1>0, <1>6 DEF SyncSave, TypeOK, Goto, Returns, LocalsOK, PersistedAtYields, Separate
  <2>3. QED
    BY <2>1, <2>2 DEF Inv
<1>7. QED
  BY <1>1, <1>2, <1>3, <1>4, <1>5, <1>6

\* The steps of run_cycle up to the entries preserve the invariant.
LEMMA CycleInv ==
  ASSUME Inv, Cycle
  PROVE  Inv'
<1>0. TypeOK /\ PersistedAtYields /\ Separate /\ LocalsOK
  BY DEF Inv
<1>1. CASE CycleSync
  BY <1>1, SyncInv DEF CycleSync, Returns
<1>2. CASE CheckpointSync
  BY <1>2, SyncInv DEF CheckpointSync, Returns
<1>3. CASE CycleForceExit
  BY <1>0, <1>3 DEF CycleForceExit, Goto, Call, brokerVars, diary, locals,
     Inv, TypeOK, BrokerTypeOK, PersistedAtYields, Separate, LocalsOK, Labels,
     Returns
<1>4. CASE MaybeAudit
  BY <1>0, <1>4 DEF MaybeAudit, Goto, Call, brokerVars, diary, locals, Inv,
     TypeOK, BrokerTypeOK, PersistedAtYields, Separate, LocalsOK, Labels,
     Returns
<1>5. CASE AuditDone
  BY <1>0, <1>5 DEF AuditDone, Goto, brokerVars, locals, Inv, TypeOK,
     BrokerTypeOK, PersistedAtYields, Separate, LocalsOK, Labels, Returns
<1>6. CASE CheckpointCovered
  BY <1>0, <1>6 DEF CheckpointCovered, NextDue, Checkpoints, brokerVars,
     locals, Inv, TypeOK, BrokerTypeOK, PersistedAtYields, Separate, LocalsOK,
     Labels, Returns
<1>7. CASE CheckpointAudit
  BY <1>0, <1>7 DEF CheckpointAudit, Goto, Call, brokerVars, diary, locals,
     Inv, TypeOK, BrokerTypeOK, PersistedAtYields, Separate, LocalsOK, Labels,
     Returns
<1>8. CASE CheckpointDone
  BY <1>0, <1>8 DEF CheckpointDone, NextDue, Checkpoints, Goto, brokerVars,
     locals, Inv, TypeOK, BrokerTypeOK, PersistedAtYields, Separate, LocalsOK,
     Labels, Returns
<1>9. CASE CheckpointsOver
  BY <1>0, <1>9 DEF CheckpointsOver, Goto, brokerVars, diary, locals, Inv,
     TypeOK, BrokerTypeOK, PersistedAtYields, Separate, LocalsOK, Labels,
     Returns
<1>10. CASE Manage
  BY <1>0, <1>10 DEF Manage, Goto, Call, brokerVars, diary, locals, Inv,
     TypeOK, BrokerTypeOK, PersistedAtYields, Separate, LocalsOK, Labels,
     Returns
<1>11. QED
  BY <1>1, <1>2, <1>3, <1>4, <1>5, <1>6, <1>7, <1>8, <1>9, <1>10 DEF Cycle

\* The records the engine builds from the one it has.
LEMMA MarkedTyped ==
  ASSUME NEW s \in Position, NEW i \in 0 .. MaxOrders
  PROVE  /\ Confirmed(s, i) \in Position
         /\ Unconfirmed(s) \in Position
         /\ [s EXCEPT !.prot = "confirmed", !.stopId = i] \in Position
         /\ [Unconfirmed(s) EXCEPT !.stopId = i] \in Position
         /\ \A b \in BOOLEAN : [s EXCEPT !.pendingExit = b] \in Position
BY DEF Confirmed, Unconfirmed, Position

\* The steps of an entry and of its protective stop preserve the invariant.
LEMMA EntryInv ==
  ASSUME Inv, Entry
  PROVE  Inv'
<1>0. TypeOK /\ BrokerTypeOK /\ PersistedAtYields /\ Separate /\ LocalsOK
  BY DEF Inv, TypeOK
<1>1. CASE EntrySkip
  BY <1>0, <1>1 DEF EntrySkip, Goto, brokerVars, diary, locals, Inv, TypeOK,
     BrokerTypeOK, PersistedAtYields, Separate, LocalsOK, Labels, Returns
<1>2. CASE NoFillAudit
  BY <1>0, <1>2, MaxOrdersAssumption, MaxQtyAssumption DEF NoFillAudit, Goto, Call, brokerVars, diary, locals, Inv,
     TypeOK, BrokerTypeOK, PersistedAtYields, Separate, LocalsOK, Labels,
     Returns
<1>3. CASE StopPreflightFails
  BY <1>0, <1>3, FaultTyped DEF StopPreflightFails, Goto, Call, brokerVars,
     diary, locals, Inv, TypeOK, BrokerTypeOK, PersistedAtYields, Separate,
     LocalsOK, Labels, Returns
<1>4. CASE StopPlaceRaises
  BY <1>0, <1>4, FaultTyped, MaxQtyAssumption DEF StopPlaceRaises, Goto, Call, brokerVars,
     diary, locals, Inv, TypeOK, BrokerTypeOK, PersistedAtYields, Separate,
     LocalsOK, Labels, Returns
<1>5. CASE StopRejected
  BY <1>0, <1>5 DEF StopRejected, Goto, Call, brokerVars, diary, locals, Inv,
     TypeOK, BrokerTypeOK, PersistedAtYields, Separate, LocalsOK, Labels,
     Returns
<1>6. CASE OthersDone
  BY <1>0, <1>6 DEF OthersDone, Goto, brokerVars, diary, locals, Inv, TypeOK,
     BrokerTypeOK, PersistedAtYields, Separate, LocalsOK, Labels, Returns
<1>7. CASE OthersAudit
  BY <1>0, <1>7, FaultTyped DEF OthersAudit, Goto, Call, brokerVars,
     diary, locals, Inv, TypeOK, BrokerTypeOK, PersistedAtYields, Separate,
     LocalsOK, Labels, Returns
<1>8. CASE NoFillSync \/ OthersNotFilled
  BY <1>8, SyncInv DEF NoFillSync, OthersNotFilled, Returns
<1>9. CASE EntryBuy
  <2>1. PICK i \in OrderId, q \in 1 .. MaxQty :
          /\ Place(i, NewOrder("BUY", q, "none", FALSE), "none", Watched)
          /\ cur' = i /\ want' = q
          /\ confirmedIds' = confirmedIds \ {i}
    BY <1>9 DEF EntryBuy
  <2>2. /\ NewOrder("BUY", q, "none", FALSE) \in Order
        /\ NewOrder("BUY", q, "none", FALSE).type = "BUY"
    <3>1. q \in 0 .. MaxQty
      BY MaxQtyAssumption
    <3>2. QED
      BY <3>1, NewOrderTyped
  <2>3. /\ ord' \in [OrderId -> Order] /\ faults' \in 0 .. MaxFaults
        /\ ord'[cur'].type = "BUY"
    BY <1>0, <2>1, <2>2, PlaceTyped
  <2>4. TypeOK'
    BY <1>0, <1>9, <2>1, <2>3 DEF EntryBuy, TypeOK, BrokerTypeOK, Goto, Labels, diary,
       OrderId
  <2>5. (LocalsOK /\ PersistedAtYields /\ Separate)'
    BY <1>0, <1>9, <2>1, <2>3 DEF EntryBuy, Goto, LocalsOK, PersistedAtYields, Separate
  <2>6. QED
    BY <2>4, <2>5 DEF Inv
<1>10. CASE EntryFilled
  <2>1. /\ st' \in Position /\ disk' = st'
    BY <1>0, <1>10, MaxOrdersAssumption DEF EntryFilled, Save, TypeOK, Position
  <2>2. TypeOK'
    BY <1>0, <1>10, <2>1, MaxOrdersAssumption DEF EntryFilled, TypeOK, BrokerTypeOK, Goto,
       Labels, brokerVars, diary
  <2>3. (LocalsOK /\ PersistedAtYields /\ Separate)'
    BY <1>0, <1>10, <2>1 DEF EntryFilled, Goto, LocalsOK, PersistedAtYields, Separate
  <2>4. QED
    BY <2>2, <2>3 DEF Inv
<1>11. CASE EntryNotFilled
  <2>1. ord' \in [OrderId -> Order] /\ faults' \in 0 .. MaxFaults
    BY <1>0, <1>11, RequestCancelTyped, FaultTyped DEF EntryNotFilled, BrokerTypeOK
  <2>2. TypeOK'
    BY <1>0, <1>11, <2>1 DEF EntryNotFilled, TypeOK, BrokerTypeOK, Goto, Labels, diary,
       locals
  <2>3. (LocalsOK /\ PersistedAtYields /\ Separate)'
    BY <1>0, <1>11 DEF EntryNotFilled, Goto, LocalsOK, PersistedAtYields, Separate
  <2>4. QED
    BY <2>2, <2>3 DEF Inv
<1>12. CASE StopPlace
  <2>1. PICK i \in OrderId :
          /\ Place(i, NewOrder("TRAIL", want, GateNow, FALSE), "entryStopReject", Watched)
          /\ stopTrade' = i
          /\ confirmedIds' = confirmedIds \ {i}
    BY <1>12 DEF StopPlace
  <2>2. NewOrder("TRAIL", want, GateNow, FALSE) \in Order
    BY <1>0, NewOrderTyped DEF GateNow, TypeOK
  <2>3. ord' \in [OrderId -> Order] /\ faults' \in 0 .. MaxFaults
    BY <1>0, <2>1, <2>2, PlaceTyped
  <2>4. TypeOK'
    BY <1>0, <1>12, <2>1, <2>3 DEF StopPlace, TypeOK, BrokerTypeOK, Goto, Labels, diary,
       OrderId
  <2>5. (LocalsOK /\ PersistedAtYields /\ Separate)'
    BY <1>0, <1>12 DEF StopPlace, Goto, LocalsOK, PersistedAtYields, Separate
  <2>6. QED
    BY <2>4, <2>5 DEF Inv
<1>13. CASE StopAccepted \/ StopConfirmedAfterAudit \/ StopUnconfirmedAfterAudit
  <2>1. /\ st' \in Position /\ disk' = st'
        /\ pc' = "others" /\ stopTrade' = 0 /\ want' = 0
    <3>1. stopTrade \in 0 .. MaxOrders /\ st.stopId \in 0 .. MaxOrders /\ st \in Position
      BY <1>0 DEF TypeOK, Position
    <3>2. CASE StopAccepted
      BY <3>1, <3>2, MarkedTyped DEF StopAccepted, Save, Goto
    <3>3. CASE StopConfirmedAfterAudit
      BY <3>1, <3>3 DEF StopConfirmedAfterAudit, Save, Goto, Position
    <3>4. CASE StopUnconfirmedAfterAudit
      BY <1>0, <3>4, MarkedTyped, <3>1 DEF StopUnconfirmedAfterAudit, Save, Goto
    <3>5. QED
      BY <1>13, <3>2, <3>3, <3>4
  <2>2. UNCHANGED << brokerVars, miss, diary, forceExit, ret, cur, neu, snap,
                     confirmedIds >>
    BY <1>13 DEF StopAccepted, StopConfirmedAfterAudit, StopUnconfirmedAfterAudit
  <2>3. TypeOK'
    BY <1>0, <2>1, <2>2, MaxOrdersAssumption, MaxQtyAssumption
       DEF TypeOK, BrokerTypeOK, Labels, brokerVars, diary
  <2>4. (LocalsOK /\ PersistedAtYields /\ Separate)'
    BY <2>1 DEF LocalsOK, PersistedAtYields, Separate
  <2>5. QED
    BY <2>3, <2>4 DEF Inv
<1>14. QED
  BY <1>1, <1>2, <1>3, <1>4, <1>5, <1>6, <1>7, <1>8, <1>9, <1>10, <1>11, <1>12, <1>13
     DEF Entry

\* An audit's verdict preserves the invariant.
LEMMA JudgeInv ==
  ASSUME Inv, NEW i \in OrderId, Judge(i),
         ord' \in [OrderId -> Order], faults' \in 0 .. MaxFaults
  PROVE  Inv'
<1>0. TypeOK /\ BrokerTypeOK
  BY DEF Inv, TypeOK
<1>1. /\ st' \in Position /\ disk' = st'
      /\ confirmedIds' \subseteq OrderId
      /\ pc' = ret /\ cur' = 0 /\ neu' = 0 /\ snap' = {}
  <2>1. st \in Position /\ i \in 0 .. MaxOrders /\ confirmedIds \subseteq OrderId
    BY <1>0 DEF TypeOK, OrderId
  <2>2. CASE Matching(i, st.qty)
    BY <2>1, <2>2, MarkedTyped DEF Judge, Save, Release, Goto
  <2>3. CASE ~Matching(i, st.qty)
    BY <2>1, <2>3, MarkedTyped DEF Judge, Save, Release, Goto
  <2>4. QED
    BY <2>2, <2>3
<1>2. TypeOK'
  BY <1>0, <1>1, MaxOrdersAssumption
     DEF Judge, TypeOK, BrokerTypeOK, Labels, Returns, diary
<1>3. (LocalsOK /\ PersistedAtYields /\ Separate)'
  BY <1>0, <1>1 DEF TypeOK, LocalsOK, PersistedAtYields, Separate, Returns
<1>4. QED
  BY <1>2, <1>3 DEF Inv

\* Placing the replacement of a TRAIL, or restoring it, preserves the invariant.
LEMMA PlaceCopyInv ==
  ASSUME Inv, NEW gate \in {"none", "today", "stale"},
         NEW label \in {"gatePlaced", "gateRestored"},
         pc \in {"gateCancelled", "gateRestore"}, PlaceCopy(gate, label)
  PROVE  Inv'
<1>0. TypeOK /\ BrokerTypeOK /\ PersistedAtYields /\ cur \in OrderId
  BY DEF Inv, TypeOK, LocalsOK
<1>1. PICK i \in OrderId :
        /\ Place(i, NewOrder("TRAIL", st.qty, gate, ord[cur].dollar), "stopReject",
                 Watched)
        /\ neu' = i
        /\ confirmedIds' = confirmedIds \ {i}
  BY DEF PlaceCopy
<1>2. st.qty \in 0 .. MaxQty /\ ord[cur].dollar \in BOOLEAN
  BY <1>0 DEF TypeOK, BrokerTypeOK, Position, Order
<1>3. ord' \in [OrderId -> Order] /\ faults' \in 0 .. MaxFaults
  BY <1>0, <1>1, <1>2, NewOrderTyped, PlaceTyped
<1>4. TypeOK'
  BY <1>0, <1>1, <1>3 DEF PlaceCopy, TypeOK, BrokerTypeOK, Goto, Labels, diary, OrderId
<1>5. (LocalsOK /\ PersistedAtYields /\ Separate)'
  BY <1>0, <1>1 DEF PlaceCopy, Goto, LocalsOK, PersistedAtYields, Separate
<1>6. QED
  BY <1>4, <1>5 DEF Inv

\* The steps of _audit_stop_orders preserve the invariant.
LEMMA AuditInv ==
  ASSUME Inv, Audit
  PROVE  Inv'
<1>0. TypeOK /\ BrokerTypeOK /\ PersistedAtYields /\ Separate /\ LocalsOK
  BY DEF Inv, TypeOK
<1>1. CASE AuditScan
  BY <1>0, <1>1 DEF AuditScan, Goto, brokerVars, diary, locals, OpenSells,
     Inv, TypeOK, BrokerTypeOK, PersistedAtYields, Separate, LocalsOK, Labels,
     Returns
<1>2. CASE AuditSkip
  BY <1>0, <1>2 DEF AuditSkip, Goto, brokerVars, diary, locals, Inv, TypeOK,
     BrokerTypeOK, PersistedAtYields, Separate, LocalsOK, Labels, Returns
<1>3. CASE NoneLeft
  BY <1>0, <1>3 DEF NoneLeft, Goto, brokerVars, diary, locals, Inv, TypeOK,
     BrokerTypeOK, PersistedAtYields, Separate, LocalsOK, Labels, Returns
<1>4. CASE GateReplaceRaises
  BY <1>0, <1>4, FaultTyped DEF GateReplaceRaises, Goto, brokerVars, diary,
     locals, Inv, TypeOK, BrokerTypeOK, PersistedAtYields, Separate, LocalsOK,
     Labels, Returns
<1>5. CASE GateReplaceRejected
  BY <1>0, <1>5 DEF GateReplaceRejected, Goto, brokerVars, diary, locals, Inv,
     TypeOK, BrokerTypeOK, PersistedAtYields, Separate, LocalsOK, Labels,
     Returns
<1>6. CASE AuditSweep
  <2>1. /\ ord' \in [OrderId -> Order] /\ faults' \in 0 .. MaxFaults
        /\ snap' \subseteq snap
    <3>1. CASE RequestCancel(snap \ { i \in snap : Matching(i, st.qty) }) /\ NoFault
      BY <1>0, <1>6, <3>1, RequestCancelTyped, FaultTyped DEF AuditSweep
    <3>2. CASE Fault("cancelRaises") /\ UNCHANGED ord
      BY <1>0, <1>6, <3>2, FaultTyped DEF AuditSweep, BrokerTypeOK
    <3>3. QED
      BY <1>6, <3>1, <3>2 DEF AuditSweep
  <2>2. TypeOK'
    BY <1>0, <1>6, <2>1 DEF AuditSweep, TypeOK, BrokerTypeOK, Goto, Labels, diary
  <2>3. (LocalsOK /\ PersistedAtYields /\ Separate)'
    BY <1>0, <1>6 DEF AuditSweep, Skipped, Goto, LocalsOK, PersistedAtYields, Separate
  <2>4. QED
    BY <2>2, <2>3 DEF Inv
<1>7. CASE AuditKeep
  <2>1. PICK i \in snap :
          /\ RequestCancel(snap \ {i})
          /\ NoFault \/ Fault("cancelRaises")
          /\ Judge(i)
    BY <1>7 DEF AuditKeep
  <2>2. i \in OrderId
    BY <1>0 DEF TypeOK
  <2>3. ord' \in [OrderId -> Order] /\ faults' \in 0 .. MaxFaults
    BY <1>0, <2>1, RequestCancelTyped, FaultTyped DEF BrokerTypeOK
  <2>4. QED
    BY <2>1, <2>2, <2>3, JudgeInv
<1>8. CASE AuditConvert \/ AuditRegate
  <2>1. /\ ord' \in [OrderId -> Order]
        /\ snap' = {}
        /\ \/ cur' \in OrderId /\ pc' = "gateCancelled"
           \/ cur' = cur /\ pc' = "audPlace"
    BY <1>0, <1>8, RequestCancelTyped DEF AuditConvert, AuditRegate, Goto, TypeOK
  <2>2. UNCHANGED << phase, held, faults, st, disk, miss, diary, forceExit, ret, neu,
                     stopTrade, want, confirmedIds >>
    BY <1>8 DEF AuditConvert, AuditRegate
  <2>3. TypeOK'
    BY <1>0, <2>1, <2>2 DEF TypeOK, BrokerTypeOK, Labels, diary, OrderId
  <2>4. (LocalsOK /\ PersistedAtYields /\ Separate)'
    BY <1>0, <1>8, <2>1, <2>2 DEF AuditConvert, AuditRegate, LocalsOK, PersistedAtYields,
       Separate
  <2>5. QED
    BY <2>3, <2>4 DEF Inv
<1>9. CASE GateReplace \/ GateRestore
  BY <1>9, PlaceCopyInv DEF GateReplace, GateRestore, GateNow
<1>10. CASE GateReplaced \/ GateRestored \/ GateRestoreRaises
  <2>1. PICK i \in OrderId : Judge(i)
    <3>1. cur \in OrderId
      BY <1>0, <1>10 DEF GateReplaced, GateRestored, GateRestoreRaises, LocalsOK
    <3>2. CASE GateReplaced \/ GateRestored
      <4>1. neu \in OrderId
        BY <1>0, <3>2 DEF GateReplaced, GateRestored, LocalsOK
      <4>2. QED
        BY <3>1, <3>2, <4>1 DEF GateReplaced, GateRestored
    <3>3. CASE GateRestoreRaises
      BY <3>1, <3>3 DEF GateRestoreRaises
    <3>4. QED
      BY <1>10, <3>2, <3>3
  <2>2. ord' \in [OrderId -> Order] /\ faults' \in 0 .. MaxFaults
    BY <1>0, <1>10, FaultTyped
       DEF GateReplaced, GateRestored, GateRestoreRaises, BrokerTypeOK
  <2>3. QED
    BY <2>1, <2>2, JudgeInv
<1>11. CASE AuditPlace
  <2>1. PICK i \in OrderId :
          /\ Place(i, NewOrder("TRAIL", st.qty, GateNow, FALSE), "stopReject", Watched)
          /\ neu' = i
          /\ confirmedIds' = confirmedIds \ {i}
    BY <1>11 DEF AuditPlace
  <2>2. NewOrder("TRAIL", st.qty, GateNow, FALSE) \in Order
    BY <1>0, NewOrderTyped DEF GateNow, TypeOK, Position
  <2>3. ord' \in [OrderId -> Order] /\ faults' \in 0 .. MaxFaults
    BY <1>0, <2>1, <2>2, PlaceTyped
  <2>4. TypeOK'
    BY <1>0, <1>11, <2>1, <2>3 DEF AuditPlace, TypeOK, BrokerTypeOK, Goto, Labels, diary,
       OrderId
  <2>5. (LocalsOK /\ PersistedAtYields /\ Separate)'
    BY <1>0, <1>11, <2>1 DEF AuditPlace, Goto, LocalsOK, PersistedAtYields, Separate
  <2>6. QED
    BY <2>4, <2>5 DEF Inv
<1>12. CASE AuditCannotPlace \/ AuditPlaced
  <2>1. /\ st' \in Position /\ disk' = st'
        /\ faults' \in 0 .. MaxFaults
        /\ confirmedIds' \subseteq OrderId
        /\ pc' = ret /\ cur' = 0 /\ neu' = 0 /\ snap' = {}
    <3>1. st \in Position /\ neu \in 0 .. MaxOrders /\ confirmedIds \subseteq OrderId
      BY <1>0 DEF TypeOK
    <3>2. CASE AuditCannotPlace
      BY <1>0, <3>1, <3>2, MarkedTyped, FaultTyped DEF AuditCannotPlace, Save, Release, Goto
    <3>3. CASE AuditPlaced
      <4>1. neu \in OrderId
        BY <1>0, <3>3 DEF AuditPlaced, LocalsOK
      <4>2. pc' = ret /\ cur' = 0 /\ neu' = 0 /\ snap' = {} /\ faults' = faults
        BY <3>3 DEF AuditPlaced, Release, Goto, brokerVars
      <4>3. CASE ord[neu].status = "cancelled"
        BY <1>0, <3>1, <3>3, <4>2, <4>3, MarkedTyped DEF AuditPlaced, Save, BrokerTypeOK
      <4>4. CASE ord[neu].status # "cancelled"
        BY <1>0, <3>1, <3>3, <4>1, <4>2, <4>4, MarkedTyped
           DEF AuditPlaced, Save, BrokerTypeOK
      <4>5. QED
        BY <4>3, <4>4
    <3>4. QED
      BY <1>12, <3>2, <3>3
  <2>2. UNCHANGED << phase, held, ord, miss, diary, forceExit, ret, stopTrade, want >>
    BY <1>12 DEF AuditCannotPlace, AuditPlaced, brokerVars
  <2>3. TypeOK'
    BY <1>0, <2>1, <2>2, MaxOrdersAssumption DEF TypeOK, BrokerTypeOK, Labels, Returns, diary
  <2>4. (LocalsOK /\ PersistedAtYields /\ Separate)'
    BY <1>0, <2>1 DEF TypeOK, LocalsOK, PersistedAtYields, Separate, Returns
  <2>5. QED
    BY <2>3, <2>4 DEF Inv
<1>13. QED
  BY <1>1, <1>2, <1>3, <1>4, <1>5, <1>6, <1>7, <1>8, <1>9, <1>10, <1>11, <1>12
     DEF Audit

\* Every failure branch of liquidate preserves the invariant.
LEMMA ExitFailsInv ==
  ASSUME Inv, ExitFails, faults' \in 0 .. MaxFaults
  PROVE  Inv'
<1>0. TypeOK /\ BrokerTypeOK
  BY DEF Inv, TypeOK
<1>1. st' \in Position /\ disk' = st' /\ pc' = "audit"
  BY <1>0, MarkedTyped DEF ExitFails, Save, Goto, TypeOK
<1>2. TypeOK'
  BY <1>0, <1>1, MaxOrdersAssumption, MaxQtyAssumption
     DEF ExitFails, TypeOK, BrokerTypeOK, Labels, diary
<1>3. (LocalsOK /\ PersistedAtYields /\ Separate)'
  BY <1>1 DEF LocalsOK, PersistedAtYields, Separate
<1>4. QED
  BY <1>2, <1>3 DEF Inv

\* The steps of liquidate preserve the invariant.
LEMMA ExitInv ==
  ASSUME Inv, Exit
  PROVE  Inv'
<1>0. TypeOK /\ BrokerTypeOK /\ PersistedAtYields /\ Separate /\ LocalsOK
  BY DEF Inv, TypeOK
<1>1. CASE ExitNoPosition
  <2>1. ord' \in [OrderId -> Order] /\ faults' \in 0 .. MaxFaults
    BY <1>0, <1>1, CancelOrphansTyped DEF ExitNoPosition
  <2>2. TypeOK'
    BY <1>0, <1>1, <2>1 DEF ExitNoPosition, TypeOK, BrokerTypeOK, Goto, Labels, diary,
       locals
  <2>3. (LocalsOK /\ PersistedAtYields /\ Separate)'
    BY <1>0, <1>1 DEF ExitNoPosition, Goto, LocalsOK, PersistedAtYields, Separate
  <2>4. QED
    BY <2>2, <2>3 DEF Inv
<1>2. CASE ExitGone
  <2>1. TypeOK'
    BY <1>0, <1>2, UntrackedTyped DEF ExitGone, TypeOK, BrokerTypeOK, Goto, Save,
       Labels, Returns, brokerVars, diary, locals
  <2>2. (LocalsOK /\ PersistedAtYields /\ Separate)'
    BY <1>0, <1>2 DEF ExitGone, TypeOK, Goto, Save, Returns, LocalsOK,
       PersistedAtYields, Separate
  <2>3. QED
    BY <2>1, <2>2 DEF Inv
<1>3. CASE ExitCancel
  <2>1. ord' \in [OrderId -> Order] /\ faults' \in 0 .. MaxFaults
    BY <1>0, <1>3, RequestCancelTyped, FaultTyped DEF ExitCancel, BrokerTypeOK
  <2>2. TypeOK'
    BY <1>0, <1>3, <2>1 DEF ExitCancel, TypeOK, BrokerTypeOK, Goto, Labels, diary
  <2>3. (LocalsOK /\ PersistedAtYields /\ Separate)'
    BY <1>0, <1>3 DEF ExitCancel, Goto, LocalsOK, PersistedAtYields, Separate
  <2>4. QED
    BY <2>2, <2>3 DEF Inv
<1>4. CASE ExitDeferred \/ ExitPlaceRaises \/ ExitRejected
  <2>1. faults' \in 0 .. MaxFaults
    BY <1>0, <1>4, FaultTyped DEF ExitDeferred, ExitPlaceRaises, ExitRejected
  <2>2. QED
    BY <1>4, <2>1, ExitFailsInv DEF ExitDeferred, ExitPlaceRaises, ExitRejected
<1>5. CASE ExitPlace
  <2>1. PICK i \in OrderId :
          /\ Place(i, NewOrder("MKT", want, "none", FALSE), "exitReject", Watched)
          /\ cur' = i
          /\ confirmedIds' = confirmedIds \ {i}
    BY <1>5 DEF ExitPlace
  <2>2. NewOrder("MKT", want, "none", FALSE) \in Order
    BY <1>0, NewOrderTyped DEF TypeOK
  <2>3. ord' \in [OrderId -> Order] /\ faults' \in 0 .. MaxFaults
    BY <1>0, <2>1, <2>2, PlaceTyped
  <2>4. st' \in Position /\ disk' = st'
    BY <1>0, <1>5, MarkedTyped DEF ExitPlace, Save, TypeOK
  <2>5. TypeOK'
    BY <1>0, <1>5, <2>1, <2>3, <2>4 DEF ExitPlace, TypeOK, BrokerTypeOK, Goto, Labels,
       diary, OrderId
  <2>6. (LocalsOK /\ PersistedAtYields /\ Separate)'
    BY <1>0, <1>5, <2>1, <2>4 DEF ExitPlace, Goto, LocalsOK, PersistedAtYields, Separate
  <2>7. QED
    BY <2>5, <2>6 DEF Inv
<1>6. CASE ExitSettled
  <2>1. faults' \in 0 .. MaxFaults
    BY <1>0, <1>6, FaultTyped DEF ExitSettled
  <2>2. st' \in Position /\ disk' = st'
    BY <1>0, <1>6, MarkedTyped DEF ExitSettled, Save, TypeOK
  <2>3. TypeOK'
    BY <1>0, <1>6, <2>1, <2>2, MaxOrdersAssumption, MaxQtyAssumption
       DEF ExitSettled, TypeOK, BrokerTypeOK, Goto, Labels, Returns, diary
  <2>4. (LocalsOK /\ PersistedAtYields /\ Separate)'
    BY <1>0, <1>6, <2>2 DEF ExitSettled, TypeOK, Goto, Returns, LocalsOK,
       PersistedAtYields, Separate
  <2>5. QED
    BY <2>3, <2>4 DEF Inv
<1>7. QED
  BY <1>1, <1>2, <1>3, <1>4, <1>5, <1>6 DEF Exit

\* A broker step changes neither an order's type nor where the engine is.
LEMMA BrokerStepTyped ==
  ASSUME BrokerTypeOK, BrokerNext
  PROVE  /\ BrokerTypeOK'
         /\ \A i \in OrderId : ord'[i].type = ord[i].type
<1>1. \A i \in OrderId : ord[i] \in Order /\ ord[i].qty \in 0 .. MaxQty
  BY DEF BrokerTypeOK, Order
<1>2. ASSUME NEW i \in OrderId, NEW new \in {"filled", "cancelled"},
             ord' = [ord EXCEPT ![i].status = new]
      PROVE  /\ ord' \in [OrderId -> Order]
             /\ \A j \in OrderId : ord'[j].type = ord[j].type
  <2>1. [ord[i] EXCEPT !.status = new] \in Order
    BY <1>1 DEF Order
  <2>2. QED
    BY <1>1, <1>2, <2>1 DEF BrokerTypeOK, Order
<1>3. ASSUME NEW i \in OrderId, FillBuy(i) \/ FillSell(i)
      PROVE  held' \in 0 .. MaxQty
  <2>1. held \in 0 .. MaxQty /\ ord[i].qty \in 0 .. MaxQty
    BY <1>1 DEF BrokerTypeOK
  <2>2. QED
    BY <1>3, <2>1, MaxQtyAssumption DEF FillBuy, FillSell
<1>4. ASSUME NEW i \in OrderId,
             FillBuy(i) \/ FillSell(i) \/ RefuseSell(i) \/ AcknowledgeCancel(i) \/ BrokerCancels(i)
      PROVE  /\ BrokerTypeOK'
             /\ \A j \in OrderId : ord'[j].type = ord[j].type
  <2>1. faults' \in 0 .. MaxFaults
    BY <1>4, FaultTyped DEF FillBuy, FillSell, RefuseSell, AcknowledgeCancel,
       BrokerCancels, BrokerTypeOK
  <2>2. /\ ord' \in [OrderId -> Order]
        /\ \A j \in OrderId : ord'[j].type = ord[j].type
    BY <1>2, <1>4 DEF FillBuy, FillSell, RefuseSell, AcknowledgeCancel, BrokerCancels
  <2>3. held' \in 0 .. MaxQty /\ phase' = phase
    BY <1>3, <1>4 DEF FillBuy, FillSell, RefuseSell, AcknowledgeCancel, BrokerCancels,
       BrokerTypeOK
  <2>4. QED
    BY <2>1, <2>2, <2>3 DEF BrokerTypeOK
<1>5. CASE QuantityGrows \/ OperatorCloses
  <2>1. held' \in 0 .. MaxQty
    BY <1>5, MaxQtyAssumption DEF QuantityGrows, OperatorCloses, BrokerTypeOK
  <2>2. faults' \in 0 .. MaxFaults /\ UNCHANGED << phase, ord >>
    BY <1>5, FaultTyped DEF QuantityGrows, OperatorCloses
  <2>3. QED
    BY <2>1, <2>2 DEF BrokerTypeOK
<1>6. QED
  BY <1>4, <1>5 DEF BrokerNext

\* The clock keeps the book well formed and changes no order's type.
LEMMA ClockTyped ==
  ASSUME BrokerTypeOK, NextPhase \/ NewDay
  PROVE  BrokerTypeOK'
<1>1. CASE NextPhase
  BY <1>1 DEF NextPhase, BrokerTypeOK, Phases
<1>2. CASE NewDay
  <2>1. \A i \in OrderId : /\ [ord[i] EXCEPT !.status = "cancelled"] \in Order
                           /\ [ord[i] EXCEPT !.gate = IF @ = "today" THEN "stale" ELSE @] \in Order
    BY DEF BrokerTypeOK, Order
  <2>2. ord' \in [OrderId -> Order]
    BY <1>2, <2>1 DEF NewDay
  <2>3. QED
    BY <1>2, <2>2 DEF NewDay, BrokerTypeOK, Phases
<1>3. QED
  BY <1>1, <1>2

\* Broker steps, the clock, the operator and a crash preserve the invariant.
LEMMA EnvironmentInv ==
  ASSUME Inv, Broker \/ Clock \/ ToggleForceExit \/ Crash \/ UNCHANGED vars
  PROVE  Inv'
<1>0. TypeOK /\ BrokerTypeOK /\ PersistedAtYields /\ Separate /\ LocalsOK
  BY DEF Inv, TypeOK
<1>1. CASE Broker
  <2>1. BrokerTypeOK' /\ \A i \in OrderId : ord'[i].type = ord[i].type
    BY <1>0, <1>1, BrokerStepTyped DEF Broker
  <2>2. TypeOK'
    BY <1>0, <1>1, <2>1 DEF Broker, TypeOK, engineVars
  <2>3. (LocalsOK /\ PersistedAtYields /\ Separate)'
    BY <1>0, <1>1, <2>1 DEF Broker, engineVars, LocalsOK, PersistedAtYields, Reread,
       Recovered, Separate
  <2>4. QED
    BY <2>2, <2>3 DEF Inv
<1>2. CASE Clock
  <2>1. BrokerTypeOK'
    BY <1>0, <1>2, ClockTyped DEF Clock
  <2>2. TypeOK'
    BY <1>0, <1>2, <2>1 DEF Clock, TypeOK, diary, locals
  <2>3. (LocalsOK /\ PersistedAtYields /\ Separate)'
    BY <1>0, <1>2 DEF Clock, LocalsOK, PersistedAtYields, Separate
  <2>4. QED
    BY <2>2, <2>3 DEF Inv
<1>3. CASE ToggleForceExit
  BY <1>0, <1>3, FaultTyped DEF ToggleForceExit, Inv, TypeOK, BrokerTypeOK, LocalsOK,
     PersistedAtYields, Reread, Recovered, Separate, diary, locals
<1>4. CASE Crash
  <2>1. faults' \in 0 .. MaxFaults
    BY <1>0, <1>4, FaultTyped DEF Crash
  <2>2. TypeOK'
    <3>1. /\ st' \in Position /\ disk' \in Position
          /\ pc' \in Labels /\ ret' \in Returns
          /\ auditToday' \in BOOLEAN /\ auditPhase' \in Phases \cup {"never"}
          /\ checked' \subseteq Checkpoints /\ forceExit' \in BOOLEAN
      BY <1>0, <1>4, UntrackedTyped DEF Crash, Call, TypeOK, Labels, Returns
    <3>2. /\ miss' \in 0 .. 1
          /\ cur' \in 0 .. MaxOrders /\ neu' \in 0 .. MaxOrders
          /\ stopTrade' \in 0 .. MaxOrders /\ want' \in 0 .. MaxQty
          /\ snap' \subseteq OrderId /\ confirmedIds' \subseteq OrderId
      BY <1>0, <1>4, MaxOrdersAssumption, MaxQtyAssumption DEF Crash, Release, TypeOK
    <3>3. BrokerTypeOK'
      BY <1>0, <1>4, <2>1 DEF Crash, BrokerTypeOK
    <3>4. QED
      BY <3>1, <3>2, <3>3 DEF TypeOK
  <2>3. (LocalsOK /\ PersistedAtYields /\ Separate)'
    BY <1>4 DEF Crash, Call, LocalsOK, PersistedAtYields, Separate
  <2>4. QED
    BY <2>2, <2>3 DEF Inv
<1>5. CASE UNCHANGED vars
  BY <1>0, <1>5 DEF vars, brokerVars, engineVars, Inv, TypeOK, BrokerTypeOK, LocalsOK,
     PersistedAtYields, Reread, Recovered, Separate
<1>6. QED
  BY <1>1, <1>2, <1>3, <1>4, <1>5

\* Every step preserves the invariant.
LEMMA NextInv ==
  Inv /\ [Next]_vars => Inv'
BY BootInv, CycleInv, EntryInv, AuditInv, ExitInv, EnvironmentInv DEF Next, Engine

\* The invariant holds in every reachable state.
THEOREM SpecInv ==
  Spec => []Inv
BY InitInv, NextInv, PTL DEF Spec

-----------------------------------------------------------------------------
(* The results. *)

\* Type correctness of the protection cycle: records, orders and program points
\* keep their types through every fault, crash and restart.
THEOREM TypeCorrect ==
  Spec => []TypeOK
<1>1. Inv => TypeOK
  BY DEF Inv
<1>2. QED
  BY <1>1, SpecInv, PTL

\* Wherever the engine can be interrupted, engine_state.json holds the record it has
\* in memory; where a sync sleeps before its one save, the file lacks no more than what
\* the next sync reads from the broker again (_sync_positions_from_ibkr).
THEOREM Persisted ==
  Spec => []PersistedAtYields
<1>1. Inv => PersistedAtYields
  BY DEF Inv
<1>2. QED
  BY <1>1, SpecInv, PTL

-----------------------------------------------------------------------------
(* No audit withdraws a market exit that is pending. *)

\* placeOrder turns no order that is working into one that is being cancelled.
LEMMA PlaceSpares ==
  ASSUME BrokerTypeOK, NEW i \in OrderId, NEW o \in Order, NEW f, NEW w,
         Place(i, o, f, w), o.status = "submitted",
         NEW j \in OrderId, ord[j].status = "submitted"
  PROVE  ord'[j].status = "submitted"
<1>1. i # j
  BY DEF Place, Slots
<1>2. QED
  BY <1>1, PlaceTyped

\* No step of the engine outside liquidate disturbs a pending market exit.
LEMMA EngineSparesExit ==
  ASSUME Inv, Engine, NEW i \in OrderId, DisturbsExit(i)
  PROVE  FALSE
<1>0. /\ TypeOK /\ BrokerTypeOK /\ Separate
      /\ held > 0 /\ st.pendingExit /\ pc # "exit"
      /\ ord[i].type = "MKT" /\ ord[i].status = "submitted"
      /\ ord'[i].status = "pendingCancel"
  BY DEF Inv, TypeOK, DisturbsExit
<1>1. ord' # ord
  BY <1>0
<1>2. CASE EntryBuy \/ StopPlace \/ GateReplace \/ GateRestore \/ AuditPlace \/ ExitPlace
  <2>1. PICK j \in OrderId, o \in Order, f \in FaultKinds \cup {"none"} :
          Place(j, o, f, Watched) /\ o.status = "submitted"
    <3>1. /\ want \in 0 .. MaxQty /\ st.qty \in 0 .. MaxQty
          /\ GateNow \in {"none", "today", "stale"}
      BY <1>0 DEF TypeOK, Position, GateNow
    <3>2. CASE EntryBuy
      <4>1. PICK j \in OrderId, q \in 1 .. MaxQty :
              Place(j, NewOrder("BUY", q, "none", FALSE), "none", Watched)
        BY <3>2 DEF EntryBuy
      <4>2. q \in 0 .. MaxQty
        BY MaxQtyAssumption
      <4>3. QED
        BY <4>1, <4>2, NewOrderTyped
    <3>3. CASE StopPlace
      <4>1. PICK j \in OrderId : Place(j, NewOrder("TRAIL", want, GateNow, FALSE), "entryStopReject", Watched)
        BY <3>3 DEF StopPlace
      <4>2. /\ NewOrder("TRAIL", want, GateNow, FALSE) \in Order
            /\ NewOrder("TRAIL", want, GateNow, FALSE).status = "submitted"
        BY <3>1, NewOrderTyped DEF GateNow
      <4>3. "entryStopReject" \in FaultKinds
        BY DEF FaultKinds
      <4>4. QED
        BY <4>1, <4>2, <4>3
    <3>4. CASE GateReplace \/ GateRestore
      <4>1. ord[cur].dollar \in BOOLEAN
        BY <1>0, <3>4 DEF Inv, LocalsOK, GateReplace, GateRestore, BrokerTypeOK, Order
      <4>2. QED
        BY <3>1, <3>4, <4>1, NewOrderTyped
           DEF GateReplace, GateRestore, PlaceCopy, FaultKinds
    <3>5. CASE AuditPlace
      <4>1. PICK j \in OrderId : Place(j, NewOrder("TRAIL", st.qty, GateNow, FALSE), "stopReject", Watched)
        BY <3>5 DEF AuditPlace
      <4>2. /\ NewOrder("TRAIL", st.qty, GateNow, FALSE) \in Order
            /\ NewOrder("TRAIL", st.qty, GateNow, FALSE).status = "submitted"
        BY <3>1, NewOrderTyped DEF GateNow
      <4>3. "stopReject" \in FaultKinds
        BY DEF FaultKinds
      <4>4. QED
        BY <4>1, <4>2, <4>3
    <3>6. CASE ExitPlace
      <4>1. PICK j \in OrderId : Place(j, NewOrder("MKT", want, "none", FALSE), "exitReject", Watched)
        BY <3>6 DEF ExitPlace
      <4>2. /\ NewOrder("MKT", want, "none", FALSE) \in Order
            /\ NewOrder("MKT", want, "none", FALSE).status = "submitted"
        BY <3>1, NewOrderTyped
      <4>3. "exitReject" \in FaultKinds
        BY DEF FaultKinds
      <4>4. QED
        BY <4>1, <4>2, <4>3
    <3>7. QED
      BY <1>2, <3>2, <3>3, <3>4, <3>5, <3>6
  <2>2. QED
    BY <1>0, <2>1, PlaceSpares
<1>3. CASE Boot
  BY <1>0, <1>1, <1>3 DEF Boot
<1>4. CASE BootSync \/ CycleSync \/ CheckpointSync \/ NoFillSync \/ OthersNotFilled
  BY <1>0, <1>1, <1>4
     DEF BootSync, CycleSync, CheckpointSync, NoFillSync, OthersNotFilled, Sync, SyncAdds,
         SyncUpdates, SyncDefers, SyncCancelsOrphans, SyncSkips
<1>5. CASE EntryNotFilled
  <2>1. i # cur
    BY <1>0, <1>5 DEF EntryNotFilled, Separate
  <2>2. QED
    BY <1>0, <1>5, <2>1, RequestCancelTyped DEF EntryNotFilled
<1>6. CASE AuditSweep
  BY <1>0, <1>6 DEF AuditSweep, Skipped
<1>7. CASE AuditKeep \/ AuditConvert \/ AuditRegate
  BY <1>0, <1>7 DEF AuditKeep, AuditConvert, AuditRegate, Separate
<1>8. CASE ExitNoPosition \/ ExitCancel
  BY <1>0, <1>8 DEF ExitNoPosition, ExitCancel
<1>9. CASE UNCHANGED ord
  BY <1>1, <1>9
<1>10. QED
  <2>1. CASE Cycle
    BY <1>4, <1>9, <2>1 DEF Cycle, CycleForceExit, MaybeAudit, AuditDone,
       CheckpointCovered, CheckpointAudit, CheckpointDone, CheckpointsOver, Manage,
       brokerVars
  <2>2. CASE Entry
    BY <1>2, <1>4, <1>5, <1>9, <2>2 DEF Entry, EntrySkip, EntryFilled, NoFillAudit,
       StopPreflightFails, StopPlaceRaises, StopRejected, StopAccepted,
       StopConfirmedAfterAudit, StopUnconfirmedAfterAudit, OthersDone, OthersAudit,
       brokerVars
  <2>3. CASE Audit
    BY <1>2, <1>6, <1>7, <1>9, <2>3 DEF Audit, AuditScan, AuditSkip, NoneLeft,
       GateReplaceRaises, GateReplaceRejected, GateReplaced, GateRestoreRaises,
       GateRestored, AuditCannotPlace, AuditPlaced, brokerVars
  <2>4. CASE Exit
    BY <1>2, <1>8, <1>9, <2>4 DEF Exit, ExitGone, ExitDeferred, ExitPlaceRaises,
       ExitRejected, ExitSettled, ExitFails, brokerVars
  <2>5. CASE BootAudit \/ BootDone \/ SyncRemove \/ SyncSave
    BY <1>9, <2>5 DEF BootAudit, BootDone, SyncRemove, SyncSave, brokerVars
  <2>6. QED
    BY <1>3, <1>4, <2>1, <2>2, <2>3, <2>4, <2>5 DEF Engine

\* No step of the broker, the clock or the operator, and no crash, does either.
LEMMA EnvironmentSparesExit ==
  ASSUME Inv, Broker \/ Clock \/ ToggleForceExit \/ Crash, NEW i \in OrderId,
         DisturbsExit(i)
  PROVE  FALSE
<1>0. /\ BrokerTypeOK
      /\ ord[i].status = "submitted" /\ ord'[i].status = "pendingCancel"
  BY DEF Inv, TypeOK, DisturbsExit
<1>1. ASSUME NEW j \in OrderId, NEW new \in {"filled", "cancelled"},
             ord' = [ord EXCEPT ![j].status = new]
      PROVE  FALSE
  <2>1. CASE j = i
    BY <1>0, <1>1, <2>1 DEF BrokerTypeOK, Order
  <2>2. CASE j # i
    BY <1>0, <1>1, <2>2 DEF BrokerTypeOK
  <2>3. QED
    BY <2>1, <2>2
<1>2. CASE Broker
  BY <1>0, <1>1, <1>2 DEF Broker, BrokerNext, FillBuy, FillSell, RefuseSell,
     AcknowledgeCancel, BrokerCancels, QuantityGrows, OperatorCloses
<1>3. CASE Clock
  <2>1. CASE NextPhase
    BY <1>0, <2>1 DEF NextPhase
  <2>2. CASE NewDay
    <3>1. ord[i] \in Order
      BY <1>0 DEF BrokerTypeOK
    <3>2. \/ ord'[i] = [ord[i] EXCEPT !.status = "cancelled"]
          \/ ord'[i] = [ord[i] EXCEPT !.gate = IF @ = "today" THEN "stale" ELSE @]
      BY <2>2 DEF NewDay
    <3>3. QED
      BY <1>0, <3>1, <3>2 DEF Order
  <2>3. QED
    BY <1>3, <2>1, <2>2 DEF Clock
<1>4. CASE ToggleForceExit \/ Crash
  BY <1>0, <1>4 DEF ToggleForceExit, Crash
<1>5. QED
  BY <1>2, <1>3, <1>4

\* Whatever fails, and however cycles, crashes and the broker interleave, no audit,
\* sync or entry cancels a working market exit while its record says pending_exit
\* and the position is held: only a new call of liquidate does.
THEOREM PendingExitIsLeftAlone ==
  Spec => ExitUndisturbed
<1>1. ASSUME Inv, [Next]_vars
      PROVE  [\A i \in OrderId : ~DisturbsExit(i)]_vars
  BY <1>1, EngineSparesExit, EnvironmentSparesExit DEF Next
<1>2. QED
  BY <1>1, SpecInv, PTL DEF Spec, ExitUndisturbed
-----------------------------------------------------------------------------
(***************************************************************************)
(* The promises of the protection cycle.  None is inductive: what makes    *)
(* them true is where the engine is in a routine, and which orders it has  *)
(* on its hands there.  OrphanInv, GapInv and PeakInv say that label by    *)
(* label.                                                                  *)
(***************************************************************************)

AuditLabels == { "audit", "audSym", "audKeep", "audPlace", "audPlaced",
                 "gateCancelled", "gatePlaced", "gateRestore", "gateRestored" }
ExitLabels  == { "exit", "exitGone", "exitWait", "exitSent" }

-----------------------------------------------------------------------------
(* What a step does to an order that it does not place. *)

\* Every order keeps its terms, and is no more alive than it was.
Wanes ==
  \A i \in OrderId :
    /\ ord'[i].type = ord[i].type
    /\ ord'[i].own = ord[i].own
    /\ ord'[i].qty = ord[i].qty
    /\ ord'[i].dollar = ord[i].dollar
    /\ \/ ord'[i].status = ord[i].status
       \/ ord[i].own /\ ord[i].status = "submitted" /\ ord'[i].status = "pendingCancel"
       \/ ord[i].status \in {"submitted", "pendingCancel"}
            /\ ord'[i].status \in {"filled", "cancelled"}

\* Nothing changes in the book.
LEMMA WanesUnchanged ==
  ASSUME UNCHANGED ord
  PROVE  Wanes
BY DEF Wanes

\* A request to cancel makes the working orders it names, and no others, pending.
LEMMA WanesRequest ==
  ASSUME BrokerTypeOK, NEW S, RequestCancel(S)
  PROVE  /\ Wanes
         /\ \A i \in OrderId : ord[i].own /\ i \in S => ord'[i].status # "submitted"
         /\ \A i \in OrderId : ord'[i].status # ord[i].status
               => i \in S /\ ord[i].own /\ ord[i].status = "submitted"
                    /\ ord'[i].status = "pendingCancel"
<1>1. \A i \in OrderId : ord[i] \in Order
  BY DEF BrokerTypeOK
<1>2. \A i \in OrderId : ord'[i] = IF i \in S /\ ord[i].own /\ ord[i].status = "submitted"
                                   THEN [ord[i] EXCEPT !.status = "pendingCancel"]
                                   ELSE ord[i]
  BY DEF RequestCancel
<1>3. QED
  BY <1>1, <1>2 DEF Wanes, Order

\* The broker's steps take no order back to life.
LEMMA WanesBroker ==
  ASSUME BrokerTypeOK, BrokerNext
  PROVE  Wanes
<1>1. \A i \in OrderId : ord[i] \in Order
  BY DEF BrokerTypeOK
<1>2. CASE QuantityGrows \/ OperatorCloses
  BY <1>2 DEF Wanes, QuantityGrows, OperatorCloses
<1>3. ASSUME NEW i \in OrderId,
             FillBuy(i) \/ FillSell(i) \/ RefuseSell(i) \/ AcknowledgeCancel(i)
               \/ BrokerCancels(i)
      PROVE  Wanes
  <2>1. ord[i].status \in {"submitted", "pendingCancel"}
    BY <1>3 DEF FillBuy, FillSell, RefuseSell, AcknowledgeCancel, BrokerCancels, OpenSells,
                Open
  <2>2. ord' = [ord EXCEPT ![i].status = "filled"]
          \/ ord' = [ord EXCEPT ![i].status = "cancelled"]
    BY <1>3 DEF FillBuy, FillSell, RefuseSell, AcknowledgeCancel, BrokerCancels
  <2>3. \A j \in OrderId \ {i} : ord'[j] = ord[j]
    BY <2>2 DEF BrokerTypeOK
  <2>4. \/ ord'[i] = [ord[i] EXCEPT !.status = "filled"]
        \/ ord'[i] = [ord[i] EXCEPT !.status = "cancelled"]
    BY <2>2 DEF BrokerTypeOK
  <2>5. QED
    BY <1>1, <2>1, <2>3, <2>4 DEF Wanes, Order
<1>4. QED
  BY <1>2, <1>3 DEF BrokerNext

\* A new day only lets DAY orders expire and gates grow stale.
LEMMA WanesNewDay ==
  ASSUME BrokerTypeOK, NewDay
  PROVE  /\ Wanes
         /\ \A i \in OrderId : ord[i].type = "TRAIL" => ord'[i].status = ord[i].status
<1>1. \A i \in OrderId : ord[i] \in Order
  BY DEF BrokerTypeOK
<1>2. \A i \in OrderId :
        ord'[i] = IF ord[i].type \in {"BUY", "MKT"} /\ Open(i)
                  THEN [ord[i] EXCEPT !.status = "cancelled"]
                  ELSE [ord[i] EXCEPT !.gate = IF @ = "today" THEN "stale" ELSE @]
  BY DEF NewDay
<1>3. QED
  BY <1>1, <1>2 DEF Wanes, Order, Open

-----------------------------------------------------------------------------
(* No exit order is left behind when a record goes. *)

\* No exit order of this engine works.
Clean == \A i \in OrderId :
           ord[i].own /\ ord[i].type \in {"TRAIL", "MKT"} => ord[i].status # "submitted"
NoBuys == \A i \in OrderId : Open(i) => ord[i].type # "BUY"

\* A position nobody closes by hand, with one stop and no other order.
OneStop ==
  /\ "manualClose" \notin Faults /\ held > 0
  /\ \E i \in OrderId : ord[i].type = "TRAIL" /\ \A j \in OrderId \ {i} : ~Open(j)

\* What the engine may find of a symbol its state file does not know.
BootSafe  == Clean \/ (held = 0 /\ NoBuys) \/ OneStop
SafeStart == ~disk.tracked => BootSafe

\* A routine that works for a position has its record.
ForConfirm == pc = "confirm2" \/ (pc \in AuditLabels /\ ret = "confirm2")

Positioned ==
  /\ pc \in {"stopPlace", "stopSent", "syncRemove"} \cup ExitLabels
       \cup (AuditLabels \ {"audit"}) => st.tracked
  /\ ForConfirm => st.tracked
  /\ pc \in ExitLabels => ret \in {"idle", "entry"}
  /\ pc \in {"syncRemove", "syncSave"} => ret # "confirm2"

\* Without a record no exit order works; from the start to the first sync one may.
Dropped ==
  /\ pc = "boot" => ~st.tracked /\ SafeStart
  /\ pc \in {"bootSync", "syncSave"} /\ ~disk.tracked => Clean \/ OneStop
  /\ pc \notin {"boot", "bootSync"} /\ ~st.tracked => Clean
  /\ pc \in {"syncRemove", "exitGone"} => Clean

OrphanInv == Positioned /\ Dropped

\* No exit order starts to work in a step that revives no order.
LEMMA CleanWanes ==
  ASSUME Clean, Wanes
  PROVE  Clean'
BY DEF Clean, Wanes

\* An orphan cleanup that does not raise leaves no exit order of this engine working.
LEMMA CancelOrphansCleans ==
  ASSUME BrokerTypeOK, "orphanCancelRaises" \notin Faults, NEW S, CancelOrphans(S),
         \A i \in OrderId : ord[i].status = "submitted" /\ ord[i].type \in {"TRAIL", "MKT"}
            => i \in S
  PROVE  Clean' /\ Wanes
<1>1. RequestCancel(S)
  BY DEF CancelOrphans, Fault
<1>2. QED
  BY <1>1, WanesRequest DEF Clean, Wanes

\* With the record kept, only the labels matter.
LEMMA TrackedDropped ==
  ASSUME st'.tracked, pc' \notin {"boot", "bootSync", "syncRemove", "syncSave", "exitGone"}
  PROVE  Dropped'
BY DEF Dropped

\* A sync drops no record of a symbol with a working exit order.
LEMMA SyncOrphan ==
  ASSUME Inv, OrphanInv, "orphanCancelRaises" \notin Faults,
         NEW label \in Returns, label # "confirm2",
         label \notin {"boot", "bootSync"},
         pc \notin {"boot", "syncRemove", "syncSave", "exitGone"},
         Sync(label)
  PROVE  OrphanInv'
<1>0. TypeOK /\ BrokerTypeOK /\ st \in Position /\ disk = st
  BY DEF Inv, TypeOK, PersistedAtYields
<1>1. Positioned'
  BY <1>0 DEF Sync, SyncAdds, SyncUpdates, SyncDefers, SyncCancelsOrphans, SyncSkips,
     SyncEnds, Goto, Call, Recovered, Position, Returns, Positioned, ForConfirm, AuditLabels,
     ExitLabels
<1>2. CASE SyncAdds(label) \/ SyncUpdates(label) \/ SyncDefers(label)
  <2>1. /\ st'.tracked /\ UNCHANGED << held, ord >>
        /\ pc' = label \/ (pc' = "syncSave" /\ disk' = disk)
    <3>1. CASE SyncAdds(label)
      BY <1>0, <3>1 DEF Sync, SyncAdds, SyncEnds, Goto, Call, Recovered
    <3>2. CASE SyncUpdates(label)
      BY <1>0, <3>2 DEF Sync, SyncUpdates, SyncEnds, Goto, Call, Position
    <3>3. CASE SyncDefers(label)
      BY <3>3 DEF Sync, SyncDefers, Goto
    <3>4. QED
      BY <1>2, <3>1, <3>2, <3>3
  <2>2. CASE pc' = label
    BY <1>1, <2>1, <2>2, TrackedDropped DEF OrphanInv, Returns
  <2>3. CASE pc' = "syncSave" /\ disk' = disk
    <3>1. ~disk.tracked => Clean \/ OneStop
      BY <1>0 DEF OrphanInv, Dropped
    <3>2. ~disk'.tracked => (Clean \/ OneStop)'
      BY <2>1, <2>3, <3>1 DEF Clean, OneStop, Open
    <3>3. QED
      BY <1>1, <2>1, <2>3, <3>2 DEF OrphanInv, Dropped
  <2>4. QED
    BY <2>1, <2>2, <2>3
<1>3. CASE SyncCancelsOrphans(label)
  <2>1. Clean'
    BY <1>0, <1>3, CancelOrphansCleans DEF SyncCancelsOrphans, OpenSells, Open
  <2>2. QED
    BY <1>1, <1>3, <2>1 DEF SyncCancelsOrphans, Call, OrphanInv, Dropped
<1>4. CASE SyncSkips(label)
  <2>1. ord' = ord /\ st' = st /\ disk' = disk /\ pc' = label /\ held = 0
    BY <1>4 DEF SyncSkips, Goto
  <2>2. Clean \/ st.tracked
    BY <1>0, <2>1 DEF OrphanInv, Dropped, OneStop, BrokerTypeOK
  <2>3. QED
    BY <1>1, <2>1, <2>2 DEF OrphanInv, Dropped, Clean, Returns
<1>5. QED
  BY <1>2, <1>3, <1>4 DEF Sync

\* A step away from the removals that loses no record and revives no order.
LEMMA QuietDropped ==
  ASSUME Dropped, Wanes, ~st'.tracked => ~st.tracked,
         pc \notin {"boot", "bootSync"},
         pc' \notin {"boot", "bootSync", "syncRemove", "syncSave", "exitGone"}
  PROVE  Dropped'
<1>1. CASE st'.tracked
  BY <1>1 DEF Dropped
<1>2. CASE ~st'.tracked
  <2>1. Clean'
    BY <1>2, CleanWanes DEF Dropped
  <2>2. QED
    BY <2>1 DEF Dropped
<1>3. QED
  BY <1>1, <1>2

\* Neither do the steps of _initialize, nor the ends of a sync.
LEMMA BootOrphan ==
  ASSUME Inv, OrphanInv, "orphanCancelRaises" \notin Faults,
         Boot \/ BootSync \/ BootAudit \/ BootDone \/ SyncRemove \/ SyncSave
  PROVE  OrphanInv'
<1>0. TypeOK /\ BrokerTypeOK
  BY DEF Inv, TypeOK
<1>1. CASE Boot
  <2>1. Positioned'
    BY <1>1 DEF Boot, Goto, Positioned, ForConfirm, AuditLabels, ExitLabels
  <2>2. CASE disk.tracked
    BY <1>1, <2>1, <2>2 DEF Boot, Goto, OrphanInv, Dropped
  <2>3. CASE ~disk.tracked /\ held = 0
    <3>1. CancelOrphans({ i \in OrderId : Open(i) })
      BY <1>1, <2>3 DEF Boot
    <3>2. Clean'
      BY <1>0, <3>1, CancelOrphansCleans DEF Open
    <3>3. QED
      BY <1>1, <2>1, <3>2 DEF Boot, Goto, OrphanInv, Dropped
  <2>4. CASE ~disk.tracked /\ held # 0
    <3>1. ord' = ord /\ held' = held
      BY <1>1, <2>4 DEF Boot
    <3>2. Clean \/ OneStop
      BY <1>1, <2>4 DEF Boot, OrphanInv, Dropped, SafeStart, BootSafe
    <3>3. (Clean \/ OneStop)'
      BY <3>1, <3>2 DEF Clean, OneStop, Open
    <3>4. QED
      BY <1>1, <2>1, <3>3 DEF Boot, Goto, OrphanInv, Dropped
  <2>5. QED
    BY <2>2, <2>3, <2>4
<1>2. CASE BootSync
  BY <1>2, SyncOrphan DEF BootSync, Returns
<1>3. CASE BootAudit
  <2>1. Positioned'
    BY <1>3 DEF BootAudit, Goto, Call, OrphanInv, Positioned, ForConfirm, AuditLabels,
       ExitLabels
  <2>2. Wanes /\ st' = st
    BY <1>3, WanesUnchanged DEF BootAudit, brokerVars
  <2>3. QED
    BY <1>3, <2>1, <2>2, QuietDropped DEF BootAudit, Goto, Call, OrphanInv
<1>4. CASE BootDone
  <2>1. Positioned'
    BY <1>4 DEF BootDone, Goto, OrphanInv, Positioned, ForConfirm, AuditLabels, ExitLabels
  <2>2. Wanes /\ st' = st
    BY <1>4, WanesUnchanged DEF BootDone, brokerVars
  <2>3. QED
    BY <1>4, <2>1, <2>2, QuietDropped DEF BootDone, Goto, OrphanInv
<1>5. CASE SyncRemove
  <2>1. Positioned'
    BY <1>0, <1>5 DEF SyncRemove, SyncEnds, Goto, Call, TypeOK, Returns, OrphanInv,
       Positioned, ForConfirm, AuditLabels, ExitLabels
  <2>2. Clean'
    BY <1>5 DEF SyncRemove, brokerVars, OrphanInv, Dropped, Clean
  <2>3. QED
    BY <1>0, <1>5, <2>1, <2>2 DEF SyncRemove, SyncEnds, Goto, Call, TypeOK, Returns, OrphanInv,
       Dropped
<1>6. CASE SyncSave
  <2>1. Positioned'
    BY <1>0, <1>6 DEF SyncSave, Goto, TypeOK, Returns, OrphanInv, Positioned, ForConfirm,
       AuditLabels, ExitLabels
  <2>2. Wanes /\ st' = st
    BY <1>6, WanesUnchanged DEF SyncSave, brokerVars
  <2>3. pc' \in Returns
    BY <1>0, <1>6 DEF SyncSave, Goto, TypeOK
  <2>4. QED
    BY <1>6, <2>1, <2>2, <2>3, QuietDropped DEF SyncSave, Returns, OrphanInv
<1>7. QED
  BY <1>1, <1>2, <1>3, <1>4, <1>5, <1>6

\* The steps of run_cycle up to the entries keep OrphanInv.
LEMMA CycleOrphan ==
  ASSUME Inv, OrphanInv, "orphanCancelRaises" \notin Faults, Cycle
  PROVE  OrphanInv'
<1>0. TypeOK
  BY DEF Inv
<1>1. CASE CycleSync \/ CheckpointSync
  BY <1>1, SyncOrphan DEF CycleSync, CheckpointSync, Returns
<1>2. CASE CycleForceExit \/ MaybeAudit \/ AuditDone \/ CheckpointCovered \/ CheckpointAudit
             \/ CheckpointDone \/ CheckpointsOver \/ Manage
  <2>1. Positioned'
    BY <1>2 DEF CycleForceExit, MaybeAudit, AuditDone, CheckpointCovered, CheckpointAudit,
       CheckpointDone, CheckpointsOver, Manage, Goto, Call, OrphanInv, Positioned,
       ForConfirm, AuditLabels, ExitLabels
  <2>2. ord' = ord /\ st' = st
    BY <1>2 DEF CycleForceExit, MaybeAudit, AuditDone, CheckpointCovered, CheckpointAudit,
       CheckpointDone, CheckpointsOver, Manage, brokerVars
  <2>3. /\ pc \notin {"boot", "bootSync"}
        /\ pc' \notin {"boot", "bootSync", "syncRemove", "syncSave", "exitGone"}
    BY <1>2 DEF CycleForceExit, MaybeAudit, AuditDone, CheckpointCovered, CheckpointAudit,
       CheckpointDone, CheckpointsOver, Manage, Goto, Call
  <2>4. QED
    BY <2>1, <2>2, <2>3, WanesUnchanged, QuietDropped DEF OrphanInv
<1>3. QED
  BY <1>1, <1>2 DEF Cycle

\* An entry places its stop only after it has its record; the rest of it places
\* nothing but a BUY.
LEMMA EntryOrphan ==
  ASSUME Inv, OrphanInv, "orphanCancelRaises" \notin Faults, Entry
  PROVE  OrphanInv'
<1>0. TypeOK /\ BrokerTypeOK /\ st \in Position
  BY DEF Inv, TypeOK
<1>1. CASE NoFillSync \/ OthersNotFilled
  BY <1>1, SyncOrphan DEF NoFillSync, OthersNotFilled, Returns
<1>2. CASE EntrySkip \/ OthersDone \/ OthersAudit \/ NoFillAudit \/ EntryNotFilled
             \/ StopPreflightFails \/ StopPlaceRaises \/ StopRejected
  <2>1. Positioned'
    BY <1>2 DEF EntrySkip, OthersDone, OthersAudit, NoFillAudit, EntryNotFilled,
       StopPreflightFails, StopPlaceRaises, StopRejected, Goto, Call, OrphanInv,
       Positioned, ForConfirm, AuditLabels, ExitLabels
  <2>2. ord' = ord \/ RequestCancel({cur})
    BY <1>2 DEF EntrySkip, OthersDone, OthersAudit, NoFillAudit, EntryNotFilled,
       StopPreflightFails, StopPlaceRaises, StopRejected, brokerVars
  <2>3. Wanes
    BY <1>0, <2>2, WanesUnchanged, WanesRequest
  <2>4. /\ pc \notin {"boot", "bootSync"}
        /\ pc' \notin {"boot", "bootSync", "syncRemove", "syncSave", "exitGone"}
        /\ st' = st
    BY <1>2 DEF EntrySkip, OthersDone, OthersAudit, NoFillAudit, EntryNotFilled,
       StopPreflightFails, StopPlaceRaises, StopRejected, Goto, Call
  <2>5. QED
    BY <2>1, <2>3, <2>4, QuietDropped DEF OrphanInv
<1>3. CASE EntryBuy
  <2>1. Positioned'
    BY <1>3 DEF EntryBuy, Goto, OrphanInv, Positioned, ForConfirm, AuditLabels, ExitLabels
  <2>2. PICK i \in OrderId, q \in 1 .. MaxQty :
          Place(i, NewOrder("BUY", q, "none", FALSE), "none", Watched)
    BY <1>3 DEF EntryBuy
  <2>3. /\ NewOrder("BUY", q, "none", FALSE) \in Order
        /\ NewOrder("BUY", q, "none", FALSE).type = "BUY"
    <3>1. q \in 0 .. MaxQty
      BY MaxQtyAssumption
    <3>2. QED
      BY <3>1, NewOrderTyped
  <2>4. ord'[i].type = "BUY" /\ \A j \in OrderId \ {i} : ord'[j] = ord[j]
    BY <1>0, <2>2, <2>3, PlaceTyped
  <2>5. Clean'
    BY <1>3, <2>4 DEF EntryBuy, OrphanInv, Dropped, Clean
  <2>6. QED
    BY <1>3, <2>1, <2>5 DEF EntryBuy, Goto, OrphanInv, Dropped
<1>4. CASE EntryFilled \/ StopPlace \/ StopAccepted \/ StopConfirmedAfterAudit
             \/ StopUnconfirmedAfterAudit
  <2>1. st'.tracked
    <3>1. CASE EntryFilled
      BY <3>1 DEF EntryFilled, Save
    <3>2. CASE ~EntryFilled
      <4>1. st.tracked
        BY <1>4, <3>2 DEF StopPlace, StopAccepted, StopConfirmedAfterAudit,
           StopUnconfirmedAfterAudit, OrphanInv, Positioned, ForConfirm
      <4>2. QED
        <5>1. CASE StopPlace
          BY <4>1, <5>1 DEF StopPlace
        <5>2. CASE StopAccepted
          BY <1>0, <4>1, <5>2 DEF StopAccepted, Save, Confirmed, Position
        <5>3. CASE StopConfirmedAfterAudit
          BY <1>0, <4>1, <5>3 DEF StopConfirmedAfterAudit, Save, Position
        <5>4. CASE StopUnconfirmedAfterAudit
          BY <1>0, <4>1, <5>4 DEF StopUnconfirmedAfterAudit, Save, Unconfirmed, Position
        <5>5. QED
          BY <1>4, <3>2, <5>1, <5>2, <5>3, <5>4
    <3>3. QED
      BY <3>1, <3>2
  <2>2. pc' \in {"stopPlace", "stopSent", "others"}
    BY <1>4 DEF EntryFilled, StopPlace, StopAccepted, StopConfirmedAfterAudit,
       StopUnconfirmedAfterAudit, Goto
  <2>3. QED
    BY <2>1, <2>2, TrackedDropped DEF OrphanInv, Positioned, ForConfirm, AuditLabels,
       ExitLabels
<1>5. QED
  BY <1>1, <1>2, <1>3, <1>4 DEF Entry

\* An audit keeps the record of every symbol it works on.
LEMMA AuditOrphan ==
  ASSUME Inv, OrphanInv, Audit
  PROVE  OrphanInv'
<1>0. TypeOK /\ BrokerTypeOK /\ st \in Position
  BY DEF Inv, TypeOK
<1>1. CASE AuditScan
  <2>1. Wanes /\ st' = st
    BY <1>1, WanesUnchanged DEF AuditScan, brokerVars
  <2>2. Positioned'
    BY <1>0, <1>1 DEF AuditScan, Goto, TypeOK, Returns, OrphanInv, Positioned, ForConfirm,
       AuditLabels, ExitLabels
  <2>3. QED
    BY <1>0, <1>1, <2>1, <2>2, QuietDropped DEF AuditScan, Goto, TypeOK, Returns, OrphanInv
<1>2. CASE ~AuditScan
  <2>1. pc \in AuditLabels \ {"audit"} /\ st.tracked
    BY <1>2 DEF Audit, AuditSkip, AuditSweep, NoneLeft, AuditKeep, AuditConvert, AuditRegate,
       GateReplace, GateReplaceRaises, GateReplaceRejected, GateReplaced, GateRestore,
       GateRestoreRaises, GateRestored, AuditPlace, AuditCannotPlace, AuditPlaced,
       AuditLabels, OrphanInv, Positioned
  <2>2. /\ pc' \in (AuditLabels \ {"audit"}) \cup {ret}
        /\ ret' = ret
    BY <1>2 DEF Audit, AuditSkip, AuditSweep, NoneLeft, AuditKeep, AuditConvert, AuditRegate,
       GateReplace, GateReplaceRaises, GateReplaceRejected, GateReplaced, GateRestore,
       GateRestoreRaises, GateRestored, AuditPlace, AuditCannotPlace, AuditPlaced, PlaceCopy,
       Judge, Goto, AuditLabels
  <2>3. st'.tracked
    <3>1. ASSUME NEW i, Judge(i) PROVE st'.tracked
      BY <1>0, <2>1, <3>1 DEF Judge, Save, Confirmed, Unconfirmed, Position
    <3>2. CASE AuditKeep \/ GateReplaced \/ GateRestoreRaises \/ GateRestored
      BY <3>1, <3>2 DEF AuditKeep, GateReplaced, GateRestoreRaises, GateRestored
    <3>3. CASE AuditCannotPlace
      BY <1>0, <2>1, <3>3 DEF AuditCannotPlace, Save, Unconfirmed, Position
    <3>4. CASE AuditPlaced
      BY <1>0, <2>1, <3>4 DEF AuditPlaced, Save, Confirmed, Unconfirmed, Position
    <3>5. CASE \/ AuditSkip \/ AuditSweep \/ NoneLeft \/ AuditConvert \/ AuditRegate
               \/ GateReplace \/ GateReplaceRaises \/ GateReplaceRejected \/ GateRestore
               \/ AuditPlace
      BY <2>1, <3>5 DEF AuditSkip, AuditSweep, NoneLeft, AuditConvert, AuditRegate,
         GateReplace, GateReplaceRaises, GateReplaceRejected, GateRestore, AuditPlace,
         PlaceCopy
    <3>6. QED
      BY <1>2, <3>2, <3>3, <3>4, <3>5 DEF Audit
  <2>4. Positioned'
    BY <1>0, <2>1, <2>2, <2>3 DEF TypeOK, Returns, OrphanInv, Positioned, ForConfirm,
       AuditLabels, ExitLabels
  <2>5. QED
    BY <1>0, <2>2, <2>3, <2>4, TrackedDropped DEF TypeOK, Returns, OrphanInv, AuditLabels
<1>3. QED
  BY <1>1, <1>2

\* liquidate drops a record only after it has asked to cancel every SELL.
LEMMA ExitOrphan ==
  ASSUME Inv, OrphanInv, "orphanCancelRaises" \notin Faults, Exit
  PROVE  OrphanInv'
<1>0. TypeOK /\ BrokerTypeOK /\ st \in Position
  BY DEF Inv, TypeOK
<1>1. CASE ExitNoPosition
  <2>1. Clean'
    BY <1>0, <1>1, CancelOrphansCleans DEF ExitNoPosition, OpenSells, Open
  <2>2. QED
    BY <1>1, <2>1 DEF ExitNoPosition, Goto, OrphanInv, Dropped, Positioned, ForConfirm,
       AuditLabels, ExitLabels
<1>2. CASE ExitGone
  <2>1. Clean'
    BY <1>2 DEF ExitGone, brokerVars, OrphanInv, Dropped, Clean
  <2>2. pc' \in {"idle", "entry"}
    BY <1>2 DEF ExitGone, Goto, OrphanInv, Positioned, ExitLabels
  <2>3. QED
    BY <2>1, <2>2 DEF OrphanInv, Dropped, Positioned, ForConfirm, AuditLabels, ExitLabels
<1>3. CASE ExitCancel \/ ExitDeferred \/ ExitPlace \/ ExitPlaceRaises \/ ExitRejected
             \/ ExitSettled
  <2>1. st.tracked /\ ret \in {"idle", "entry"}
    BY <1>3 DEF ExitCancel, ExitDeferred, ExitPlace, ExitPlaceRaises, ExitRejected,
       ExitSettled, OrphanInv, Positioned, ExitLabels
  <2>2. ret' = ret /\ pc' \in {"exitWait", "exitSent", "audit", ret}
    BY <1>3 DEF ExitCancel, ExitDeferred, ExitPlace, ExitPlaceRaises, ExitRejected,
       ExitSettled, ExitFails, Goto
  <2>3. \/ st' = st
        \/ st' = [st EXCEPT !.pendingExit = FALSE]
        \/ st' = [st EXCEPT !.pendingExit = TRUE]
    BY <1>3 DEF ExitCancel, ExitDeferred, ExitPlace, ExitPlaceRaises, ExitRejected,
       ExitSettled, ExitFails, Save
  <2>4. st'.tracked
    BY <1>0, <2>1, <2>3 DEF Position
  <2>5. QED
    BY <2>1, <2>2, <2>4, TrackedDropped DEF OrphanInv, Positioned, ForConfirm, AuditLabels,
       ExitLabels
<1>4. QED
  BY <1>1, <1>2, <1>3 DEF Exit

\* The last stop of a position leaves with it.
LEMMA OneStopBroker ==
  ASSUME TypeOK, OneStop, BrokerNext
  PROVE  Clean' \/ OneStop'
<1>0. held \in 0 .. MaxQty /\ \A j \in OrderId : ord[j] \in Order
  BY DEF TypeOK, BrokerTypeOK
<1>1. PICK i \in OrderId : ord[i].type = "TRAIL" /\ \A j \in OrderId \ {i} : ~Open(j)
  BY DEF OneStop
<1>2. Wanes
  BY WanesBroker DEF TypeOK
<1>3. /\ ord'[i].type = "TRAIL"
      /\ \A j \in OrderId \ {i} : ord'[j].status \notin {"submitted", "pendingCancel"}
  BY <1>1, <1>2 DEF Wanes, Open
<1>4. CASE held' > 0
  BY <1>3, <1>4 DEF OneStop, Open
<1>5. CASE ~(held' > 0)
  <2>1. PICK j \in OrderId : FillSell(j)
    BY <1>0, <1>1, <1>5, MaxQtyAssumption
       DEF OneStop, BrokerNext, FillBuy, RefuseSell, AcknowledgeCancel, BrokerCancels,
           QuantityGrows, OperatorCloses, Fault, Order
  <2>2. j = i
    BY <1>1, <2>1 DEF FillSell, OpenSells
  <2>3. ord'[i].status = "filled"
    BY <2>1, <2>2, <1>0 DEF FillSell, Order, TypeOK, BrokerTypeOK
  <2>4. QED
    BY <1>3, <2>3 DEF Clean
<1>6. QED
  BY <1>4, <1>5

\* What the engine may find stays so until it looks.
LEMMA BootSafeBroker ==
  ASSUME TypeOK, BootSafe, BrokerNext
  PROVE  BootSafe'
<1>0. held \in 0 .. MaxQty /\ \A j \in OrderId : ord[j] \in Order
  BY DEF TypeOK, BrokerTypeOK
<1>1. Wanes
  BY WanesBroker DEF TypeOK
<1>2. CASE Clean
  BY <1>1, <1>2, CleanWanes DEF BootSafe
<1>3. CASE held = 0 /\ NoBuys
  <2>1. NoBuys'
    BY <1>1, <1>3 DEF NoBuys, Open, Wanes
  <2>2. held' = 0
    BY <1>0, <1>3, MaxQtyAssumption
       DEF NoBuys, Open, BrokerNext, FillBuy, FillSell, RefuseSell, AcknowledgeCancel,
           BrokerCancels, QuantityGrows, OperatorCloses, Order
  <2>3. QED
    BY <2>1, <2>2 DEF BootSafe
<1>4. CASE OneStop
  BY <1>4, OneStopBroker DEF BootSafe
<1>5. QED
  BY <1>2, <1>3, <1>4 DEF BootSafe

\* The broker, the clock, the operator and a crash keep OrphanInv.
LEMMA EnvironmentOrphan ==
  ASSUME Inv, OrphanInv, Broker \/ Clock \/ ToggleForceExit \/ Crash \/ UNCHANGED vars
  PROVE  OrphanInv'
<1>0. TypeOK /\ BrokerTypeOK
  BY DEF Inv, TypeOK
<1>1. CASE Broker
  <2>1. Wanes
    BY <1>0, <1>1, WanesBroker DEF Broker
  <2>2. Positioned'
    BY <1>1 DEF Broker, engineVars, OrphanInv, Positioned, ForConfirm
  <2>3. SafeStart => SafeStart'
    BY <1>0, <1>1, BootSafeBroker DEF Broker, engineVars, SafeStart
  <2>4. Clean \/ OneStop => (Clean \/ OneStop)'
    BY <1>0, <1>1, <2>1, CleanWanes, OneStopBroker DEF Broker
  <2>5. Clean => Clean'
    BY <2>1, CleanWanes
  <2>6. Dropped'
    BY <1>1, <2>3, <2>4, <2>5 DEF Broker, engineVars, OrphanInv, Dropped
  <2>7. QED
    BY <2>2, <2>6 DEF OrphanInv
<1>2. CASE Clock
  <2>1. Wanes
    BY <1>0, <1>2, WanesUnchanged, WanesNewDay DEF Clock, NextPhase
  <2>2. Positioned'
    BY <1>2 DEF Clock, OrphanInv, Positioned, ForConfirm, AuditLabels, ExitLabels
  <2>3. QED
    BY <1>2, <2>1, <2>2, QuietDropped DEF Clock, OrphanInv
<1>3. CASE ToggleForceExit
  BY <1>3 DEF ToggleForceExit, OrphanInv, Positioned, Dropped, ForConfirm, SafeStart,
     BootSafe, Clean, NoBuys, OneStop, Open
<1>4. CASE Crash
  <2>1. /\ UNCHANGED << ord, held, disk >> /\ pc' = "boot" /\ ~st'.tracked
        /\ pc = "syncSave" \/ disk = st
    BY <1>4 DEF Crash, Call, Untracked, Inv, PersistedAtYields
  <2>2. SafeStart'
    BY <1>4, <2>1 DEF Crash, OrphanInv, Dropped, SafeStart, BootSafe, Clean, OneStop, Open
  <2>3. QED
    BY <2>1, <2>2 DEF OrphanInv, Positioned, Dropped, ForConfirm, AuditLabels, ExitLabels
<1>5. CASE UNCHANGED vars
  BY <1>5 DEF vars, brokerVars, engineVars, OrphanInv, Positioned, Dropped, ForConfirm,
     SafeStart, BootSafe, Clean, NoBuys, OneStop, Open
<1>6. QED
  BY <1>1, <1>2, <1>3, <1>4, <1>5

\* Every step keeps OrphanInv.
LEMMA OrphanStep ==
  ASSUME Inv, OrphanInv, "orphanCancelRaises" \notin Faults, [Next]_vars
  PROVE  OrphanInv'
BY BootOrphan, CycleOrphan, EntryOrphan, AuditOrphan, ExitOrphan, EnvironmentOrphan
   DEF Next, Engine

\* No sync, exit, crash or restart leaves an exit order of this engine working for a
\* symbol that is flat and no longer tracked (_cancel_orphaned_exit_orders on every path
\* that drops a record), unless a cancel of the cleanup itself raises.  An unknown symbol
\* must be found with nothing working, flat without a BUY, or with its one stop.
THEOREM NoOrphans ==
  ASSUME "orphanCancelRaises" \notin Faults
  PROVE  Spec /\ SafeStart => []NoOrphanStop
<1>1. Init /\ SafeStart => OrphanInv
  BY DEF Init, Untracked, OrphanInv, Positioned, Dropped, ForConfirm, AuditLabels,
     ExitLabels
<1>2. Inv /\ OrphanInv /\ [Next]_vars => OrphanInv'
  BY OrphanStep
<1>3. OrphanInv => NoOrphanStop
  BY DEF OrphanInv, Dropped, NoOrphanStop, AtRest, Clean, OpenSells, Open
<1>4. QED
  BY <1>1, <1>2, <1>3, SpecInv, PTL DEF Spec

-----------------------------------------------------------------------------
(* Between two cycles a tracked position is covered or about to be audited. *)

\* The events under which the engine keeps that promise.
Gentle ==
  Faults \cap { "slowCancel", "exitTimeout", "brokerCancel", "qtyChange", "forceExit",
                "entryPlaceRaises", "buyCancelRaises", "orphanCancelRaises" } = {}

Sells(i)  == Open(i) /\ ord[i].type \in {"TRAIL", "MKT"}
SellsGone == \A i \in OrderId : ord[i].own => ~Sells(i)
Guarded   == st.tracked /\ held > 0 => Protected \/ NeedsAudit(st)
Done(i)   == ord[i].status = "filled" => held = 0

\* No SELL can sell a part of the position, and another client's is a stop.
WholeBook ==
  \A i \in OrderId :
    /\ Sells(i) => ord[i].qty >= held
    /\ Open(i) /\ ~ord[i].own =>
         ord[i].type = "TRAIL" /\ ord[i].qty = MaxQty /\ ord[i].status = "submitted"

\* What the engine may find when it starts.
WholeStart ==
  /\ SafeStart
  /\ \A i \in OrderId : Open(i) =>
       /\ ord[i].type = "TRAIL" /\ ord[i].qty >= held
       /\ ~ord[i].own => ord[i].qty = MaxQty /\ ord[i].status = "submitted"

\* There is one BUY at most, for a symbol that is flat and has no record.
Buys ==
  \A i \in OrderId : Open(i) /\ ord[i].type = "BUY" =>
    /\ ord[i].own /\ held = 0 /\ ~disk.tracked /\ SellsGone
    /\ pc \in {"boot", "bootSync", "buySent", "noFill"}
    /\ pc = "buySent" => i = cur
    /\ pc \in {"bootSync", "noFill"} => ord[i].status = "pendingCancel"
    /\ \A j \in OrderId : Open(j) /\ ord[j].type = "BUY" => i = j

\* From the first sync on, the record says what is held.
Recorded ==
  /\ pc \in {"buySent", "noFill"} => ~st.tracked
  /\ pc \notin {"boot", "bootSync"} /\ ~st.tracked => SellsGone
  /\ pc \notin {"boot", "bootSync", "buySent", "noFill"} /\ ~st.tracked => held = 0
  /\ pc \in {"syncRemove", "exitGone"} => held = 0
  /\ pc \notin {"boot", "bootSync"} /\ st.tracked /\ held > 0 => st.qty = held
  /\ (pc \in {"stopPlace", "stopSent", "exitWait", "exitSent"} \/ ForConfirm) /\ held > 0
       => want = held
  /\ st.tracked /\ st.pendingExit /\ held > 0 => pc \in {"bootSync", "exitSent"}
  /\ pc \in AuditLabels =>
       ret \in {"bootDone", "idle", "auditDone", "chkDone", "entry", "confirm2"}
  /\ pc \in {"syncRemove", "syncSave"} =>
       ret \in {"bootAudit", "gate", "chkAudit", "noFillAudit", "othersAudit"}

\* Exits happen in market hours, and without FORCE_EXIT.
Sessions ==
  /\ pc \in {"manage"} \cup ExitLabels => phase = "session"
  /\ ~forceExit

\* A position that is held does not count as missing once a sync has seen it.
Counted ==
  /\ pc \in {"boot", "bootSync"} => miss = 0
  /\ /\ \/ pc \in {"bootAudit", "gate", "auditDone", "check", "chkAudit", "chkDone", "manage",
                   "entry"} \cup ExitLabels
        \/ pc = "syncSave" /\ ret \in {"bootAudit", "gate", "chkAudit"}
        \/ pc \in AuditLabels /\ ret \in {"auditDone", "chkDone", "entry"}
     /\ st.tracked /\ held > 0
     => miss = 0

\* Where a position that is neither covered nor flagged would stay so.
AtEase ==
  \/ pc \in {"idle", "gate", "auditDone", "check", "chkAudit", "chkDone", "manage", "entry",
             "others", "othersAudit", "noFillAudit", "bootDone"}
  \/ pc = "syncSave" /\ ret # "bootAudit"
  \/ pc \in {"audit", "audSym"} /\ miss > 0 /\ ret # "confirm2"

Rested == AtEase => Guarded

\* The stop after a fill is the only SELL of the engine.
AtStop ==
  /\ pc = "stopPlace" => SellsGone
  /\ pc = "stopSent" =>
       /\ stopTrade \in OrderId
       /\ ord[stopTrade].type = "TRAIL" /\ ord[stopTrade].qty = want
       /\ ord[stopTrade].status \in {"submitted", "filled", "cancelled"}
       /\ Done(stopTrade)
       /\ \A i \in OrderId \ {stopTrade} : ord[i].own => ~Sells(i)
  /\ pc = "buySent" =>
       /\ ord[cur].qty = want /\ ord[cur].own
       /\ ord[cur].status = "filled" /\ held > 0 => want = held

\* The audit after a refused stop meets no other stop of the engine.
AtConfirm ==
  /\ pc = "confirm2" => \A i \in OrderId : Sells(i) => ord[i].status = "submitted"
  /\ ret = "confirm2" =>
       /\ pc \in {"audit", "audSym", "audKeep", "audPlace"} => SellsGone
       /\ pc \in {"audSym", "audKeep"} => \A i \in snap : ~ord[i].own
       /\ pc \notin {"gateCancelled", "gatePlaced", "gateRestore", "gateRestored"}
       /\ pc = "audPlaced" => \A i \in OrderId \ {neu} : ord[i].own => ~Sells(i)

\* What an audit works on: a stop that has filled has closed the position.
AtAudit ==
  /\ pc \in {"audSym", "audKeep"} => \A i \in snap : Done(i)
  /\ pc = "audKeep" => \A i \in snap : ord[i].type = "TRAIL" /\ ord[i].qty = st.qty
  /\ pc \in {"gateCancelled", "gatePlaced", "gateRestore", "gateRestored"} =>
       ord[cur].own /\ ord[cur].status # "submitted" /\ Done(cur)
  /\ pc \in {"gatePlaced", "gateRestore", "gateRestored"} => ord[cur].status # "pendingCancel"
  /\ pc \in {"gatePlaced", "gateRestored", "audPlaced"} =>
       /\ ord[neu].type = "TRAIL" /\ ord[neu].qty = st.qty
       /\ ord[neu].status \in {"submitted", "filled", "cancelled"} /\ Done(neu)
  /\ pc = "exitSent" => ord[cur].type = "MKT" /\ Done(cur)

Working == AtStop /\ AtConfirm /\ AtAudit
Records == Recorded /\ Sessions /\ Counted
GapInv  == Buys /\ WholeBook /\ Records /\ Rested /\ Working

-----------------------------------------------------------------------------
(* What the helpers do to the parts of the invariant. *)

\* A placed order goes to a finished slot nobody watches, and works or is refused.
LEMMA Placed ==
  ASSUME BrokerTypeOK, NEW i \in OrderId, NEW o \in Order, NEW f, NEW w,
         o.own, o.status = "submitted", Place(i, o, f, w)
  PROVE  /\ \A j \in OrderId \ {i} : ord'[j] = ord[j]
         /\ ord'[i].type = o.type /\ ord'[i].qty = o.qty /\ ord'[i].own
         /\ ord'[i].status \in {"submitted", "cancelled"}
         /\ ~Open(i) /\ i \notin w
<1>1. ord \in [OrderId -> Order]
  BY DEF BrokerTypeOK
<1>2. ~Open(i) /\ i \notin w
  BY DEF Place, Slots, Open
<1>3. CASE ord' = [ord EXCEPT ![i] = [o EXCEPT !.status = "cancelled"]]
  BY <1>1, <1>2, <1>3 DEF Order
<1>4. CASE ord' = [ord EXCEPT ![i] =
                     [o EXCEPT !.status = IF Oversells(o) THEN "cancelled" ELSE @]]
  BY <1>1, <1>2, <1>4 DEF Order
<1>5. QED
  BY <1>3, <1>4 DEF Place

\* The book stays whole while no order is revived and the position does not grow.
LEMMA BookWanes ==
  ASSUME TypeOK, WholeBook, Wanes, held' \in 0 .. held
  PROVE  WholeBook'
BY DEF TypeOK, BrokerTypeOK, Order, WholeBook, Wanes, Sells, Open

\* A step that revives no order keeps the BUYs, the SELLs of this engine and the
\* open orders as few as they are.
LEMMA FewerWanes ==
  ASSUME Wanes
  PROVE  /\ NoBuys => NoBuys'
         /\ SellsGone => SellsGone'
         /\ \A i \in OrderId : Sells(i)' => Sells(i)
         /\ \A i \in OrderId : Open(i)' => Open(i)
<1>1. \A i \in OrderId : Open(i)' => Open(i)
  BY DEF Wanes, Open
<1>2. \A i \in OrderId : Sells(i)' => Sells(i)
  BY <1>1 DEF Wanes, Sells
<1>3. QED
  BY <1>1, <1>2 DEF Wanes, NoBuys, SellsGone

\* Without an open BUY there is nothing to say about BUYs.
LEMMA NoBuysBuys ==
  NoBuys => Buys
BY DEF NoBuys, Buys

\* Away from an entry and from the start there is no open BUY.
LEMMA BuysNoBuys ==
  ASSUME Buys, pc \notin {"boot", "bootSync", "buySent", "noFill"}
  PROVE  NoBuys
BY DEF NoBuys, Buys

\* A SELL for the whole position joins the book.
LEMMA SellPlaced ==
  ASSUME WholeBook, NoBuys, NEW i \in OrderId, held' = held,
         \A j \in OrderId \ {i} : ord'[j] = ord[j],
         ord'[i].own, ord'[i].type \in {"TRAIL", "MKT"}, ord'[i].qty >= held
  PROVE  WholeBook' /\ NoBuys'
BY DEF WholeBook, NoBuys, Sells, Open

\* With the orders, the position and the record as they are, the BUYs and the book are
\* as they were.
LEMMA QuietBook ==
  ASSUME Buys, WholeBook, UNCHANGED << held, ord >>,
         pc \notin {"boot", "bootSync", "buySent", "noFill"}
  PROVE  Buys' /\ WholeBook' /\ NoBuys'
<1>1. NoBuys
  BY BuysNoBuys
<1>2. NoBuys' /\ WholeBook'
  BY <1>1 DEF NoBuys, Open, WholeBook, Sells
<1>3. QED
  BY <1>2 DEF NoBuys, Buys

\* The steps of a cycle that only move on.
LEMMA CycleGap ==
  ASSUME Inv, OrphanInv, GapInv, Gentle,
         BootAudit \/ BootDone \/ CycleForceExit \/ MaybeAudit \/ AuditDone
           \/ CheckpointCovered \/ CheckpointAudit \/ CheckpointDone \/ CheckpointsOver
           \/ Manage
  PROVE  GapInv'
<1>1. /\ UNCHANGED << phase, held, ord, st, disk, miss, forceExit, locals >>
      /\ pc \notin {"boot", "bootSync", "buySent", "noFill"}
  BY DEF BootAudit, BootDone, CycleForceExit, MaybeAudit, AuditDone, CheckpointCovered,
     CheckpointAudit, CheckpointDone, CheckpointsOver, Manage, brokerVars
<1>2. Buys' /\ WholeBook'
  BY <1>1, QuietBook DEF GapInv
<1>3. Records'
  BY <1>1 DEF BootAudit, BootDone, CycleForceExit, MaybeAudit, AuditDone, CheckpointCovered,
     CheckpointAudit, CheckpointDone, CheckpointsOver, Manage, Goto, Call, locals,
     GapInv, Records, Recorded, Sessions, Counted, ForConfirm, AuditLabels, ExitLabels,
     SellsGone, Sells, Open
<1>4. Rested'
  BY <1>1 DEF BootAudit, BootDone, CycleForceExit, MaybeAudit, AuditDone, CheckpointCovered,
     CheckpointAudit, CheckpointDone, CheckpointsOver, Manage, Goto, Call,
     GapInv, Records, Recorded, Sessions, Counted, Rested, AtEase, Guarded, Protected,
     AuditLabels, ExitLabels
<1>5. Working'
  BY <1>1 DEF BootAudit, BootDone, CycleForceExit, MaybeAudit, AuditDone, CheckpointCovered,
     CheckpointAudit, CheckpointDone, CheckpointsOver, Manage, Goto, Call, 
     Working, AtStop, AtConfirm, AtAudit
<1>6. QED
  BY <1>2, <1>3, <1>4, <1>5 DEF GapInv

\* The five places a sync is called from, and where each goes on.
SyncSites == { << "bootSync", "bootAudit" >>, << "idle", "gate" >>, << "check", "chkAudit" >>,
               << "noFill", "noFillAudit" >>, << "others", "othersAudit" >> }

\* Where every cancel of this engine has landed, Clean means that no SELL is left.
LEMMA CleanLanded ==
  ASSUME Clean, CancelsLanded, Gentle
  PROVE  SellsGone
BY DEF Clean, CancelsLanded, Gentle, SellsGone, Sells, Open

\* A sync, wherever it is called, flags what it finds and keeps what is covered.
LEMMA SyncGap ==
  ASSUME Inv, OrphanInv, GapInv, Gentle,
         NEW label \in Returns, << pc, label >> \in SyncSites,
         pc = "check" \/ CancelsLanded, Sync(label)
  PROVE  GapInv'
<1>0. /\ TypeOK /\ BrokerTypeOK /\ disk = st /\ held \in 0 .. MaxQty
      /\ UNCHANGED << phase, held, forceExit, locals >>
  BY DEF Inv, PersistedAtYields, TypeOK, BrokerTypeOK, SyncSites, Sync
<1>1. NoBuys
  <2>1. CASE pc \in {"bootSync", "noFill"}
    BY <1>0, <2>1 DEF GapInv, Buys, NoBuys, CancelsLanded, Gentle
  <2>2. CASE pc \in {"idle", "check", "others"}
    BY <2>2, BuysNoBuys DEF GapInv
  <2>3. QED
    BY <2>1, <2>2 DEF SyncSites
<1>2. CASE SyncAdds(label)
  <2>1. /\ pc \in {"bootSync", "noFill"} /\ ~st.tracked /\ held > 0 /\ ord' = ord
        /\ st' = Recovered(held) /\ miss' = miss
        /\ (pc' = label /\ ret' = ret) \/ (pc' = "syncSave" /\ ret' = label)
    BY <1>0, <1>2 DEF SyncAdds, SyncEnds, SyncSites, GapInv, Records, Recorded, Goto, Call
  <2>2. NoBuys' /\ WholeBook'
    BY <1>0, <1>1, <2>1 DEF GapInv, NoBuys, WholeBook, Sells, Open
  <2>3. Records'
    BY <1>0, <2>1 DEF GapInv, Records, Recorded, Sessions, Counted, Recovered, SyncSites,
       ForConfirm, AuditLabels, ExitLabels
  <2>4. Rested'
    BY <1>0, <2>1 DEF Recovered, Rested, Guarded, NeedsAudit
  <2>5. Working'
    BY <1>0, <2>1 DEF SyncSites, Working, AtStop, AtConfirm, AtAudit
  <2>6. QED
    BY <2>2, <2>3, <2>4, <2>5, NoBuysBuys DEF GapInv, NoBuys, Buys
<1>3. CASE SyncUpdates(label)
  <2>1. /\ held > 0 /\ st.tracked /\ ord' = ord
        /\ st' = [st EXCEPT !.pendingExit = FALSE, !.qty = held]
        /\ miss' = 0
        /\ (pc' = label /\ ret' = ret) \/ (pc' = "syncSave" /\ ret' = label)
    BY <1>0, <1>3 DEF SyncUpdates, SyncEnds, Goto, Call
  <2>2. NoBuys' /\ WholeBook'
    BY <1>0, <1>1, <2>1 DEF GapInv, NoBuys, WholeBook, Sells, Open
  <2>3. st'.tracked /\ st'.qty = held /\ ~st'.pendingExit
    BY <1>0, <2>1 DEF TypeOK, Position
  <2>4. Records'
    BY <1>0, <2>1, <2>3 DEF GapInv, Records, Recorded, Sessions, Counted, SyncSites,
       ForConfirm, AuditLabels, ExitLabels
  <2>5. Rested'
    <3>1. CASE pc = "bootSync"
      BY <2>1, <3>1 DEF SyncSites, Rested, AtEase
    <3>2. CASE pc # "bootSync"
      <4>1. ~st.pendingExit /\ st.qty = held /\ AtEase
        BY <1>0, <2>1, <3>2 DEF GapInv, Records, Recorded, SyncSites, AtEase
      <4>2. st' = st
        BY <1>0, <2>1, <4>1 DEF TypeOK, Position
      <4>3. QED
        BY <1>0, <2>1, <4>1, <4>2 DEF GapInv, Rested, Guarded, Protected
    <3>3. QED
      BY <3>1, <3>2
  <2>6. Working'
    BY <1>0, <2>1 DEF SyncSites, Working, AtStop, AtConfirm, AtAudit
  <2>7. QED
    BY <2>2, <2>4, <2>5, <2>6 DEF GapInv, NoBuys, Buys
<1>4. CASE SyncDefers(label)
  <2>1. held = 0 /\ st.tracked /\ ord' = ord /\ st' = st /\ pc' = label /\ ret' = ret
    BY <1>0, <1>4 DEF SyncDefers, Goto
  <2>2. NoBuys' /\ WholeBook'
    BY <1>0, <1>1, <2>1 DEF GapInv, NoBuys, WholeBook, Sells, Open
  <2>3. Records'
    BY <1>0, <2>1 DEF GapInv, Records, Recorded, Sessions, Counted, SyncSites, AuditLabels,
       ExitLabels
  <2>4. Rested' /\ Working'
    BY <1>0, <2>1 DEF SyncSites, Rested, Guarded, Working, AtStop, AtConfirm, AtAudit
  <2>5. QED
    BY <2>2, <2>3, <2>4 DEF GapInv, NoBuys, Buys
<1>5. CASE SyncCancelsOrphans(label)
  <2>1. /\ held = 0 /\ st.tracked /\ st' = st /\ pc' = "syncRemove" /\ ret' = label
        /\ RequestCancel(OpenSells)
    BY <1>0, <1>5 DEF SyncCancelsOrphans, CancelOrphans, Call, Gentle, Fault
  <2>2. NoBuys' /\ WholeBook'
    BY <1>0, <1>1, <2>1, WanesRequest, BookWanes, FewerWanes DEF GapInv
  <2>3. Records'
    BY <1>0, <2>1 DEF GapInv, Records, Recorded, Sessions, Counted, SyncSites, AuditLabels,
       ExitLabels
  <2>4. Rested' /\ Working'
    BY <1>0, <2>1 DEF SyncSites, Rested, Guarded, Working, AtStop, AtConfirm, AtAudit
  <2>5. QED
    BY <2>2, <2>3, <2>4 DEF GapInv, NoBuys, Buys
<1>6. CASE SyncSkips(label)
  <2>1. held = 0 /\ ord' = ord /\ st' = st /\ pc' = label /\ ret' = ret
    BY <1>0, <1>6 DEF SyncSkips, Goto
  <2>2. NoBuys' /\ WholeBook'
    BY <1>0, <1>1, <2>1 DEF GapInv, NoBuys, WholeBook, Sells, Open
  <2>3. ~st.tracked => SellsGone
    <3>1. CASE pc = "bootSync"
      BY <1>0, <2>1, <3>1, CleanLanded DEF OrphanInv, Dropped, OneStop
    <3>2. CASE pc # "bootSync"
      BY <3>2 DEF SyncSites, GapInv, Records, Recorded
    <3>3. QED
      BY <3>1, <3>2
  <2>4. Records'
    BY <1>0, <2>1, <2>3 DEF GapInv, Records, Recorded, Sessions, Counted, SyncSites,
       AuditLabels, ExitLabels, SellsGone, Sells, Open
  <2>5. Rested' /\ Working'
    BY <1>0, <2>1 DEF SyncSites, Rested, Guarded, Working, AtStop, AtConfirm, AtAudit
  <2>6. QED
    BY <2>2, <2>4, <2>5 DEF GapInv, NoBuys, Buys
<1>7. QED
  BY <1>2, <1>3, <1>4, <1>5, <1>6 DEF Sync

\* The start of the engine and the ends of a sync.
LEMMA BootGap ==
  ASSUME Inv, OrphanInv, GapInv, Gentle, Boot \/ BootSync \/ SyncRemove \/ SyncSave
  PROVE  GapInv'
<1>0. TypeOK /\ BrokerTypeOK /\ st \in Position /\ held \in 0 .. MaxQty
  BY DEF Inv, TypeOK, BrokerTypeOK
<1>1. CASE Boot
  <2>1. /\ pc = "boot" /\ pc' = "bootSync" /\ st' = disk
        /\ UNCHANGED << phase, held, disk, miss, forceExit, ret, locals >>
    BY <1>1 DEF Boot, Goto
  <2>2. \/ ~disk.tracked /\ held = 0 /\ RequestCancel({ i \in OrderId : Open(i) })
        \/ ~(~disk.tracked /\ held = 0) /\ ord' = ord
    BY <1>1 DEF Boot, CancelOrphans, Gentle, Fault
  <2>3. Wanes
    BY <1>0, <2>2, WanesRequest, WanesUnchanged
  <2>4. Buys'
    <3>1. CASE ~disk.tracked /\ held = 0
      <4>1. \A i \in OrderId : ord'[i].status # ord[i].status
               => ord'[i].status = "pendingCancel"
        BY <1>0, <2>2, <3>1, WanesRequest
      <4>2. \A i \in OrderId : ord[i].own /\ Open(i) => ord'[i].status # "submitted"
        BY <1>0, <2>2, <3>1, WanesRequest
      <4>3. SellsGone => SellsGone'
        BY <2>3, FewerWanes
      <4>4. QED
        BY <2>1, <2>3, <3>1, <4>1, <4>2, <4>3 DEF GapInv, Buys, Open, Wanes
    <3>2. CASE ~(~disk.tracked /\ held = 0)
      BY <2>1, <2>2, <3>2 DEF GapInv, Buys, Open, SellsGone, Sells
    <3>3. QED
      BY <3>1, <3>2
  <2>5. WholeBook'
    BY <1>0, <2>1, <2>3, BookWanes DEF GapInv
  <2>6. Records'
    BY <2>1 DEF GapInv, Records, Recorded, Sessions, Counted, ForConfirm, AuditLabels,
       ExitLabels
  <2>7. Rested' /\ Working'
    BY <2>1 DEF Rested, AtEase, Working, AtStop, AtConfirm, AtAudit
  <2>8. QED
    BY <2>4, <2>5, <2>6, <2>7 DEF GapInv
<1>2. CASE BootSync
  BY <1>2, SyncGap DEF BootSync, SyncSites, Returns
<1>3. CASE SyncRemove
  <2>1. /\ pc = "syncRemove" /\ pc' \in {ret, "syncSave"} /\ st' = Untracked /\ miss' = 0
        /\ UNCHANGED << phase, held, ord, forceExit, ret, locals >>
    BY <1>3 DEF SyncRemove, SyncEnds, brokerVars, Goto, Call
  <2>2. held = 0 /\ SellsGone
    BY <1>3, CleanLanded DEF SyncRemove, OrphanInv, Dropped, GapInv, Records, Recorded
  <2>3. ret \in {"bootAudit", "gate", "chkAudit", "noFillAudit", "othersAudit"}
    BY <2>1 DEF GapInv, Records, Recorded
  <2>4. NoBuys' /\ WholeBook'
    BY <2>1, QuietBook DEF GapInv
  <2>5. Records'
    BY <2>1, <2>2, <2>3 DEF GapInv, Records, Recorded, Sessions, Counted, Returns, Untracked,
       AuditLabels, ExitLabels, SellsGone, Sells, Open
  <2>6. Rested' /\ Working'
    BY <2>1, <2>2, <2>3 DEF Untracked, Rested, Guarded, Working, AtStop, AtConfirm, AtAudit
  <2>7. QED
    BY <2>4, <2>5, <2>6 DEF GapInv, NoBuys, Buys
<1>4. CASE SyncSave
  <2>1. /\ pc = "syncSave" /\ pc' = ret
        /\ UNCHANGED << phase, held, ord, st, miss, forceExit, ret, locals >>
    BY <1>4 DEF SyncSave, brokerVars, Goto
  <2>2. ret \in {"bootAudit", "gate", "chkAudit", "noFillAudit", "othersAudit"}
    BY <2>1 DEF GapInv, Records, Recorded
  <2>3. Buys' /\ WholeBook'
    BY <2>1, QuietBook DEF GapInv
  <2>4. Records'
    BY <2>1, <2>2 DEF GapInv, Records, Recorded, Sessions, Counted, ForConfirm, AuditLabels,
       ExitLabels, SellsGone, Sells, Open
  <2>5. Rested'
    BY <2>1, <2>2 DEF GapInv, Rested, AtEase, Guarded, Protected
  <2>6. Working'
    BY <2>1, <2>2 DEF Working, AtStop, AtConfirm, AtAudit
  <2>7. QED
    BY <2>3, <2>4, <2>5, <2>6 DEF GapInv
<1>5. QED
  BY <1>1, <1>2, <1>3, <1>4

\* The steps of an entry that only move on.
LEMMA EntryMovesGap ==
  ASSUME Inv, OrphanInv, GapInv, Gentle,
         EntrySkip \/ NoFillAudit \/ StopPreflightFails \/ StopRejected \/ OthersDone
           \/ OthersAudit
  PROVE  GapInv'
<1>1. /\ UNCHANGED << phase, held, ord, st, disk, miss, forceExit, snap, neu, stopTrade >>
      /\ pc \notin {"boot", "bootSync", "buySent", "noFill"}
  BY DEF EntrySkip, NoFillAudit, StopPreflightFails, StopRejected, OthersDone, OthersAudit,
     brokerVars, locals
<1>2. Buys' /\ WholeBook'
  BY <1>1, QuietBook DEF GapInv
<1>3. Records'
  BY <1>1 DEF EntrySkip, NoFillAudit, StopPreflightFails, StopRejected, OthersDone,
     OthersAudit, Goto, Call, locals, GapInv, Records, Recorded, Sessions, Counted,
     ForConfirm, AuditLabels, ExitLabels, SellsGone, Sells, Open
<1>4. Rested'
  BY <1>1 DEF EntrySkip, NoFillAudit, StopPreflightFails, StopRejected, OthersDone,
     OthersAudit, Goto, Call, GapInv, Rested, AtEase, Guarded, Protected
<1>5. Working'
  BY <1>1 DEF EntrySkip, NoFillAudit, StopPreflightFails, StopRejected, OthersDone,
     OthersAudit, Goto, Call, locals, GapInv, Working, AtStop, AtConfirm, AtAudit, SellsGone,
     Sells, Open
<1>6. QED
  BY <1>2, <1>3, <1>4, <1>5 DEF GapInv

\* The BUY of an entry, for a symbol that is flat and has no SELL left.
LEMMA BuyGap ==
  ASSUME Inv, OrphanInv, GapInv, Gentle, EntryBuy
  PROVE  GapInv'
<1>0. TypeOK /\ BrokerTypeOK /\ disk = st /\ held = 0 /\ SellsGone /\ NoBuys
  BY BuysNoBuys DEF EntryBuy, Inv, PersistedAtYields, TypeOK, GapInv, Records, Recorded
<1>1. PICK i \in OrderId, q \in 1 .. MaxQty :
        /\ Place(i, NewOrder("BUY", q, "none", FALSE), "none", Watched)
        /\ cur' = i /\ want' = q
  BY DEF EntryBuy
<1> DEFINE o == NewOrder("BUY", q, "none", FALSE)
<1>2. o \in Order /\ o.type = "BUY" /\ o.qty = q /\ o.own /\ o.status = "submitted"
  BY MaxQtyAssumption DEF NewOrder, Order
<1> HIDE DEF o
<1>3. /\ \A j \in OrderId \ {i} : ord'[j] = ord[j]
      /\ ord'[i].type = "BUY" /\ ord'[i].qty = q /\ ord'[i].own
      /\ ord'[i].status \in {"submitted", "cancelled"}
  <2>1. Place(i, o, "none", Watched)
    BY <1>1 DEF o
  <2>2. QED
    BY <1>0, <1>2, <2>1, Placed
<1>4. /\ ~st.tracked /\ pc' = "buySent"
      /\ UNCHANGED << phase, held, st, disk, miss, forceExit, ret >>
  BY DEF EntryBuy, Goto
<1>5. Buys' /\ SellsGone'
  BY <1>0, <1>1, <1>3, <1>4 DEF Buys, NoBuys, SellsGone, Sells, Open
<1>6. WholeBook'
  BY <1>3, <1>4 DEF GapInv, WholeBook, Sells, Open
<1>7. Records'
  BY <1>0, <1>4, <1>5 DEF GapInv, Records, Recorded, Sessions, Counted, ForConfirm,
     AuditLabels, ExitLabels
<1>8. Rested' /\ Working'
  BY <1>0, <1>1, <1>3, <1>4 DEF Rested, AtEase, Working, AtStop, AtConfirm, AtAudit
<1>9. QED
  BY <1>5, <1>6, <1>7, <1>8 DEF GapInv

\* The two ends of the wait for the BUY.
LEMMA FillGap ==
  ASSUME Inv, OrphanInv, GapInv, Gentle, EntryFilled \/ EntryNotFilled
  PROVE  GapInv'
<1>0. TypeOK /\ BrokerTypeOK /\ disk = st /\ held \in 0 .. MaxQty
  BY DEF EntryFilled, EntryNotFilled, Inv, PersistedAtYields, TypeOK, BrokerTypeOK
<1>1. CASE EntryFilled
  <2>1. /\ pc = "buySent" /\ pc' = "stopPlace" /\ ord[cur].status = "filled"
        /\ st' = [ tracked |-> TRUE, qty |-> want, prot |-> "pending", stopSet |-> TRUE,
                   stopId |-> 0, pendingExit |-> FALSE ]
        /\ UNCHANGED << phase, held, ord, miss, forceExit, ret, want >>
    BY <1>1 DEF EntryFilled, Save, Goto, brokerVars
  <2>2. NoBuys' /\ WholeBook' /\ SellsGone'
    BY <2>1 DEF GapInv, Buys, NoBuys, Open, WholeBook, Sells, SellsGone, Records, Recorded
  <2>3. Records'
    BY <2>1 DEF GapInv, Records, Recorded, Sessions, Counted, Working, AtStop, ForConfirm,
       AuditLabels, ExitLabels
  <2>4. Rested' /\ Working'
    BY <2>1, <2>2 DEF Rested, AtEase, Working, AtStop, AtConfirm, AtAudit
  <2>5. QED
    BY <2>2, <2>3, <2>4 DEF GapInv, NoBuys, Buys
<1>2. CASE EntryNotFilled
  <2>1. /\ pc = "buySent" /\ pc' = "noFill" /\ RequestCancel({cur})
        /\ UNCHANGED << phase, held, st, disk, miss, forceExit, ret, locals >>
    BY <1>2 DEF EntryNotFilled, Gentle, Fault, Goto
  <2>2. /\ Wanes
        /\ \A i \in OrderId : ord[i].own /\ i = cur => ord'[i].status # "submitted"
    BY <1>0, <2>1, WanesRequest
  <2>3. SellsGone'
    BY <2>1, <2>2, FewerWanes DEF GapInv, Records, Recorded
  <2>4. Buys'
    BY <2>1, <2>2, <2>3 DEF GapInv, Buys, Wanes, Open
  <2>5. WholeBook'
    BY <1>0, <2>1, <2>2, BookWanes DEF GapInv
  <2>6. Records'
    BY <2>1, <2>3 DEF GapInv, Records, Recorded, Sessions, Counted, ForConfirm, AuditLabels,
       ExitLabels
  <2>7. Rested' /\ Working'
    BY <2>1 DEF Rested, AtEase, Working, AtStop, AtConfirm, AtAudit
  <2>8. QED
    BY <2>4, <2>5, <2>6, <2>7 DEF GapInv
<1>3. QED
  BY <1>1, <1>2

\* The stop after a fill.
LEMMA StopPlaceGap ==
  ASSUME Inv, OrphanInv, GapInv, Gentle, StopPlace
  PROVE  GapInv'
<1>0. /\ TypeOK /\ BrokerTypeOK /\ disk = st /\ NoBuys /\ SellsGone /\ st.tracked
      /\ want \in 0 .. MaxQty /\ held \in 0 .. MaxQty
  BY BuysNoBuys DEF StopPlace, Inv, PersistedAtYields, TypeOK, BrokerTypeOK, GapInv, Working,
     AtStop, OrphanInv, Positioned
<1>1. PICK i \in OrderId :
        /\ Place(i, NewOrder("TRAIL", want, GateNow, FALSE), "entryStopReject", Watched)
        /\ stopTrade' = i
  BY DEF StopPlace
<1>2. /\ pc = "stopPlace" /\ pc' = "stopSent"
      /\ UNCHANGED << phase, held, st, disk, miss, forceExit, ret, want >>
  BY DEF StopPlace, Goto
<1> DEFINE o == NewOrder("TRAIL", want, GateNow, FALSE)
<1>3. o \in Order /\ o.type = "TRAIL" /\ o.qty = want /\ o.own /\ o.status = "submitted"
  BY <1>0 DEF NewOrder, Order, GateNow
<1> HIDE DEF o
<1>5. /\ \A j \in OrderId \ {i} : ord'[j] = ord[j]
      /\ ord'[i].type = "TRAIL" /\ ord'[i].qty = want /\ ord'[i].own
      /\ ord'[i].status \in {"submitted", "cancelled"}
  <2>1. Place(i, o, "entryStopReject", Watched)
    BY <1>1 DEF o
  <2>2. QED
    BY <1>0, <1>3, <2>1, Placed
<1>6. want >= held
  BY <1>0, <1>2 DEF GapInv, Records, Recorded
<1>7. WholeBook' /\ NoBuys'
  BY <1>0, <1>2, <1>5, <1>6, SellPlaced DEF GapInv
<1>8. Records'
  BY <1>0, <1>2 DEF GapInv, Records, Recorded, Sessions, Counted, ForConfirm,
     AuditLabels, ExitLabels
<1>9. Rested' /\ Working'
  BY <1>0, <1>1, <1>2, <1>5 DEF Rested, AtEase, Working, AtStop, AtConfirm, AtAudit, Done,
     SellsGone, Sells, Open
<1>10. QED
  BY <1>7, <1>8, <1>9 DEF GapInv, NoBuys, Buys

\* The verdicts on the stop after a fill.
LEMMA VerdictGap ==
  ASSUME Inv, OrphanInv, GapInv, Gentle,
         StopAccepted \/ StopConfirmedAfterAudit \/ StopUnconfirmedAfterAudit
  PROVE  GapInv'
<1>0. TypeOK /\ BrokerTypeOK /\ disk = st /\ st \in Position /\ st.tracked
  BY DEF StopAccepted, StopConfirmedAfterAudit, StopUnconfirmedAfterAudit, Inv,
     PersistedAtYields, TypeOK, OrphanInv, Positioned, ForConfirm
<1>1. /\ pc \in {"stopSent", "confirm2"} /\ pc' = "others"
      /\ UNCHANGED << phase, held, ord, miss, forceExit, ret, cur, neu, snap >>
  BY DEF StopAccepted, StopConfirmedAfterAudit, StopUnconfirmedAfterAudit, brokerVars, Goto
<1>2. /\ st'.tracked /\ st'.qty = st.qty /\ (st'.pendingExit => st.pendingExit)
  <2>1. CASE StopAccepted
    BY <1>0, <2>1 DEF StopAccepted, Save, Confirmed, Position
  <2>2. CASE StopConfirmedAfterAudit
    BY <1>0, <2>2 DEF StopConfirmedAfterAudit, Save, Position
  <2>3. CASE StopUnconfirmedAfterAudit
    BY <1>0, <2>3 DEF StopUnconfirmedAfterAudit, Save, Unconfirmed, Position
  <2>4. QED
    BY <2>1, <2>2, <2>3
<1>3. NoBuys' /\ WholeBook'
  BY <1>1, QuietBook DEF GapInv
<1>4. Records'
  BY <1>0, <1>1, <1>2 DEF GapInv, Records, Recorded, Sessions, Counted, ForConfirm,
     AuditLabels, ExitLabels
<1>5. held > 0 => Protected \/ NeedsAudit(st')
  <2>1. CASE StopAccepted
    BY <2>1 DEF StopAccepted, GapInv, Records, Recorded, Working, AtStop, Protected, Done
  <2>2. CASE StopConfirmedAfterAudit
    BY <2>2 DEF StopConfirmedAfterAudit, GapInv, Records, Recorded, Working, AtConfirm,
       Protected, ForConfirm, Matching, Sells
  <2>3. CASE StopUnconfirmedAfterAudit
    <3>1. held > 0 => ~st.pendingExit
      BY <1>1 DEF GapInv, Records, Recorded
    <3>2. st' = Unconfirmed(st)
      BY <2>3 DEF StopUnconfirmedAfterAudit, Save
    <3>3. st'.prot = "unconfirmed"
      BY <1>0, <3>2 DEF Unconfirmed, Position
    <3>4. QED
      BY <1>2, <3>1, <3>3 DEF NeedsAudit
  <2>4. QED
    BY <2>1, <2>2, <2>3
<1>6. Rested'
  BY <1>1, <1>5 DEF Rested, Guarded, Protected
<1>7. Working'
  BY <1>1 DEF Working, AtStop, AtConfirm, AtAudit
<1>8. QED
  BY <1>3, <1>4, <1>6, <1>7 DEF GapInv, NoBuys, Buys

\* An entry keeps GapInv.
LEMMA EntryGap ==
  ASSUME Inv, OrphanInv, GapInv, Gentle, Entry
  PROVE  GapInv'
<1>1. CASE NoFillSync \/ OthersNotFilled
  BY <1>1, SyncGap DEF NoFillSync, OthersNotFilled, SyncSites, Returns
<1>2. CASE StopPlaceRaises
  BY <1>2 DEF StopPlaceRaises, Gentle, Fault
<1>3. QED
  BY <1>1, <1>2, EntryMovesGap, BuyGap, FillGap, StopPlaceGap, VerdictGap DEF Entry

Deep == AuditLabels \ {"audit"}

\* An audit that ends has covered the position or flagged it.
LEMMA AuditEnds ==
  ASSUME Inv, OrphanInv, GapInv, Gentle, pc \in Deep,
         UNCHANGED << phase, held, miss, forceExit, ret, want >>, Wanes,
         st'.tracked, st'.qty = st.qty, st'.pendingExit => st.pendingExit,
         pc' = ret,
         held > 0 => Protected' \/ st'.prot = "unconfirmed",
         ret = "confirm2" => \A i \in OrderId : Sells(i)' => ord'[i].status = "submitted"
  PROVE  GapInv'
<1>0. TypeOK /\ held \in 0 .. MaxQty /\ st.tracked
  BY DEF Inv, TypeOK, BrokerTypeOK, OrphanInv, Positioned, Deep
<1>1. NoBuys' /\ WholeBook'
  BY <1>0, BuysNoBuys, FewerWanes, BookWanes DEF GapInv, Deep, AuditLabels
<1>2. ret \in {"bootDone", "idle", "auditDone", "chkDone", "entry", "confirm2"}
  BY DEF Deep, GapInv, Records, Recorded
<1>3. Records'
  BY <1>0, <1>2 DEF Deep, GapInv, Records, Recorded, Sessions, Counted, ForConfirm,
     AuditLabels, ExitLabels
<1>4. Rested'
  BY <1>0 DEF Deep, GapInv, Records, Recorded, Rested, Guarded, NeedsAudit, AuditLabels
<1>5. Working'
  BY <1>2 DEF Working, AtStop, AtConfirm, AtAudit
<1>6. QED
  BY <1>1, <1>3, <1>4, <1>5 DEF GapInv, NoBuys, Buys

\* Its verdict on an order that neither is being cancelled nor has filled in vain.
LEMMA JudgeGap ==
  ASSUME Inv, OrphanInv, GapInv, Gentle, pc \in Deep, NEW i \in OrderId, Judge(i), Wanes,
         ord'[i].status = ord[i].status, ord[i].status # "pendingCancel", Done(i),
         ret = "confirm2" => SellsGone
  PROVE  GapInv'
<1>0. /\ TypeOK /\ BrokerTypeOK /\ st \in Position /\ st.tracked /\ held \in 0 .. MaxQty
      /\ ord[i] \in Order /\ held' = held
      /\ UNCHANGED << phase, held, miss, forceExit, ret, want >> /\ pc' = ret
  BY DEF Inv, TypeOK, BrokerTypeOK, OrphanInv, Positioned, Deep, Judge, Goto
<1>1. held > 0 => st.qty = held
  BY <1>0 DEF Deep, AuditLabels, GapInv, Records, Recorded
<1>2. st'.tracked /\ st'.qty = st.qty /\ st'.pendingExit = st.pendingExit
  <2>1. CASE st' = Confirmed(st, i)
    BY <1>0, <2>1 DEF Confirmed, Position
  <2>2. CASE st' = Unconfirmed(st)
    BY <1>0, <2>2 DEF Unconfirmed, Position
  <2>3. QED
    BY <2>1, <2>2 DEF Judge, Save
<1>3. held > 0 => Protected' \/ st'.prot = "unconfirmed"
  <2>1. CASE Matching(i, st.qty)
    BY <1>0, <1>1, <2>1 DEF Matching, Order, Done, Protected, Wanes
  <2>2. CASE ~Matching(i, st.qty)
    BY <1>0, <2>2 DEF Judge, Save, Unconfirmed, Position
  <2>3. QED
    BY <2>1, <2>2
<1>4. WholeBook' /\ (SellsGone => SellsGone')
  BY <1>0, BookWanes, FewerWanes DEF GapInv
<1>5. ret = "confirm2" => \A j \in OrderId : Sells(j)' => ord'[j].status = "submitted"
  BY <1>4 DEF WholeBook, SellsGone, Sells
<1>6. QED
  BY <1>0, <1>2, <1>3, <1>5, AuditEnds

\* Every end of an audit is a verdict.
LEMMA AuditEndsGap ==
  ASSUME Inv, OrphanInv, GapInv, Gentle,
         AuditKeep \/ GateReplaced \/ GateRestoreRaises \/ GateRestored \/ AuditCannotPlace
           \/ AuditPlaced
  PROVE  GapInv'
<1>0. /\ TypeOK /\ BrokerTypeOK /\ st \in Position /\ st.tracked /\ held \in 0 .. MaxQty
      /\ pc \in Deep /\ LocalsOK
  BY DEF Inv, TypeOK, BrokerTypeOK, OrphanInv, Positioned, Deep, AuditLabels, AuditKeep,
     GateReplaced, GateRestoreRaises, GateRestored, AuditCannotPlace, AuditPlaced
<1>1. CASE AuditKeep
  <2>1. PICK i \in snap : RequestCancel(snap \ {i}) /\ Judge(i)
    BY <1>1 DEF AuditKeep
  <2>2. i \in OrderId
    BY <1>0 DEF TypeOK
  <2>3. ord'[i].status = ord[i].status /\ Wanes
    BY <1>0, <2>1, <2>2, RequestCancelTyped, WanesRequest
  <2>4. Done(i) /\ (ret = "confirm2" => SellsGone)
    BY <1>1 DEF AuditKeep, GapInv, Working, AtAudit, AtConfirm
  <2>5. ord[i].status # "pendingCancel"
    BY <1>1, <2>2 DEF AuditKeep, CancelsLanded, Gentle, GapInv, WholeBook, Open
  <2>6. QED
    BY <1>0, <2>1, <2>2, <2>3, <2>4, <2>5, JudgeGap
<1>2. CASE GateReplaced \/ GateRestoreRaises \/ GateRestored
  <2>1. Wanes
    BY <1>2, WanesUnchanged DEF GateReplaced, GateRestoreRaises, GateRestored
  <2>2. ret # "confirm2"
    BY <1>2 DEF GateReplaced, GateRestoreRaises, GateRestored, GapInv, Working, AtConfirm
  <2>3. PICK i \in OrderId : /\ Judge(i) /\ ord[i].status # "pendingCancel" /\ Done(i)
    BY <1>0, <1>2 DEF GateReplaced, GateRestoreRaises, GateRestored, LocalsOK, GapInv, Working,
       AtAudit
  <2>4. ord'[i].status = ord[i].status
    BY <1>2 DEF GateReplaced, GateRestoreRaises, GateRestored
  <2>5. QED
    BY <1>0, <2>1, <2>2, <2>3, <2>4, JudgeGap
<1>3. CASE AuditCannotPlace
  <2>1. /\ Wanes /\ pc = "audPlace" /\ pc' = ret /\ st' = Unconfirmed(st)
        /\ UNCHANGED << phase, held, ord, miss, forceExit, ret, want >>
    BY <1>3, WanesUnchanged DEF AuditCannotPlace, Goto, Save
  <2>2. st'.tracked /\ st'.qty = st.qty /\ st'.pendingExit = st.pendingExit
          /\ st'.prot = "unconfirmed"
    BY <1>0, <2>1 DEF Unconfirmed, Position
  <2>3. ret = "confirm2" => SellsGone
    BY <2>1 DEF GapInv, Working, AtConfirm
  <2>4. ret = "confirm2" => \A i \in OrderId : Sells(i)' => ord'[i].status = "submitted"
    BY <2>1, <2>3 DEF GapInv, WholeBook, SellsGone, Sells, Open
  <2>5. QED
    BY <1>0, <2>1, <2>2, <2>4, AuditEnds
<1>4. CASE AuditPlaced
  <2>1. /\ Wanes /\ pc = "audPlaced" /\ pc' = ret /\ neu \in OrderId
        /\ UNCHANGED << phase, held, ord, miss, forceExit, ret, want >>
    BY <1>0, <1>4, WanesUnchanged DEF AuditPlaced, Goto, brokerVars, LocalsOK
  <2>2. \/ /\ ord[neu].status = "cancelled"
           /\ st' = [Unconfirmed(st) EXCEPT !.stopId = neu]
        \/ /\ ord[neu].status # "cancelled" /\ st' = Confirmed(st, neu)
    BY <1>4 DEF AuditPlaced, Save
  <2>3. st'.tracked /\ st'.qty = st.qty /\ st'.pendingExit = st.pendingExit
          /\ (ord[neu].status = "cancelled" => st'.prot = "unconfirmed")
    <3>1. CASE ord[neu].status = "cancelled"
      BY <1>0, <2>2, <3>1 DEF Unconfirmed, Position
    <3>2. CASE ord[neu].status # "cancelled"
      BY <1>0, <2>2, <3>2 DEF Confirmed, Position
    <3>3. QED
      BY <3>1, <3>2
  <2>4. held > 0 => Protected' \/ st'.prot = "unconfirmed"
    BY <1>0, <2>1, <2>3 DEF GapInv, Working, AtAudit, Done, Protected, Records, Recorded, Deep
  <2>5. ret = "confirm2" => \A i \in OrderId : Sells(i)' => ord'[i].status = "submitted"
    BY <1>0, <2>1 DEF GapInv, WholeBook, Working, AtConfirm, AtAudit, Sells, Open
  <2>6. QED
    BY <1>0, <2>1, <2>3, <2>4, <2>5, AuditEnds
<1>5. QED
  BY <1>1, <1>2, <1>3, <1>4

\* The steps of an audit that only move on; it skips no held position but one it counts missing.
LEMMA AuditMovesGap ==
  ASSUME Inv, OrphanInv, GapInv, Gentle,
         AuditScan \/ AuditSkip \/ NoneLeft \/ GateReplaceRaises \/ GateReplaceRejected
  PROVE  GapInv'
<1>0. /\ TypeOK /\ held \in 0 .. MaxQty /\ ret \in Returns
  BY DEF Inv, TypeOK, BrokerTypeOK
<1>1. /\ UNCHANGED << phase, held, ord, st, disk, miss, forceExit, ret, cur, neu, stopTrade,
                      want >>
      /\ pc \in AuditLabels
  BY DEF AuditScan, AuditSkip, NoneLeft, GateReplaceRaises, GateReplaceRejected, brokerVars,
     locals, AuditLabels
<1>2. NoBuys' /\ WholeBook'
  BY <1>1, QuietBook DEF GapInv, AuditLabels
<1>3. CASE AuditScan
  <2>1. Records'
    BY <1>0, <1>1, <1>3 DEF AuditScan, Goto, Returns, OrphanInv, Positioned, GapInv, Records,
       Recorded, Sessions, Counted, ForConfirm, AuditLabels, ExitLabels, SellsGone, Sells, Open
  <2>2. ~st.tracked => held = 0 /\ ret # "confirm2"
    BY <1>3 DEF AuditScan, OrphanInv, Positioned, ForConfirm, AuditLabels, GapInv, Records,
       Recorded
  <2>3. Rested'
    BY <1>1, <1>3, <2>2 DEF AuditScan, Goto, GapInv, Rested, AtEase, Guarded, Protected
  <2>4. Working'
    <3>1. CASE st.tracked
      BY <1>1, <1>3, <3>1 DEF AuditScan, Goto, GapInv, Working, AtStop, AtConfirm, AtAudit,
         OpenSells, SellsGone, Sells, Open, Done
    <3>2. CASE ~st.tracked
      BY <1>0, <1>1, <1>3, <2>2, <3>2 DEF AuditScan, Goto, Returns, Working, AtStop, AtConfirm,
         AtAudit
    <3>3. QED
      BY <3>1, <3>2
  <2>5. QED
    BY <1>2, <2>1, <2>3, <2>4 DEF GapInv, NoBuys, Buys
<1>4. CASE AuditSkip
  <2>1. pc = "audSym" /\ pc' = ret /\ st.tracked
    BY <1>4 DEF AuditSkip, Goto, OrphanInv, Positioned, AuditLabels
  <2>2. ret \in {"bootDone", "idle", "auditDone", "chkDone", "entry", "confirm2"}
    BY <1>1 DEF GapInv, Records, Recorded
  <2>3. Records'
    BY <1>0, <1>1, <2>1, <2>2 DEF GapInv, Records, Recorded, Sessions, Counted, ForConfirm,
       AuditLabels, ExitLabels
  <2>4. held > 0 => miss > 0
    BY <1>0, <1>1, <1>4, <2>1 DEF AuditSkip, Skipped, GapInv, Records, Recorded
  <2>5. Rested'
    BY <1>1, <2>1, <2>2, <2>4 DEF GapInv, Rested, AtEase, Guarded, Protected
  <2>6. Working'
    <3>1. ret = "confirm2" => SellsGone
      BY <2>1 DEF GapInv, Working, AtConfirm
    <3>2. ret = "confirm2" => \A i \in OrderId : Sells(i)' => ord'[i].status = "submitted"
      BY <1>1, <3>1 DEF GapInv, WholeBook, SellsGone, Sells, Open
    <3>3. QED
      BY <2>1, <2>2, <3>2, <1>1 DEF Working, AtStop, AtConfirm, AtAudit
  <2>7. QED
    BY <1>2, <2>3, <2>5, <2>6 DEF GapInv, NoBuys, Buys
<1>5. CASE NoneLeft \/ GateReplaceRaises \/ GateReplaceRejected
  <2>1. Records'
    BY <1>1, <1>5 DEF NoneLeft, GateReplaceRaises, GateReplaceRejected, Goto, GapInv, Records,
       Recorded, Sessions, Counted, ForConfirm, AuditLabels, ExitLabels, SellsGone, Sells, Open
  <2>2. Rested'
    BY <1>5 DEF NoneLeft, GateReplaceRaises, GateReplaceRejected, Goto, Rested, AtEase
  <2>3. Working'
    BY <1>1, <1>5 DEF NoneLeft, GateReplaceRaises, GateReplaceRejected, Goto, CancelsLanded,
       Gentle, LocalsOK, Inv, GapInv, Working, AtStop, AtConfirm, AtAudit, SellsGone, Sells,
       Open, Done
  <2>4. QED
    BY <1>2, <2>1, <2>2, <2>3 DEF GapInv, NoBuys, Buys
<1>6. QED
  BY <1>3, <1>4, <1>5

\* The steps of an audit that cancel.
LEMMA AuditCancelsGap ==
  ASSUME Inv, OrphanInv, GapInv, Gentle, AuditSweep \/ AuditConvert \/ AuditRegate
  PROVE  GapInv'
<1>0. /\ TypeOK /\ BrokerTypeOK /\ held \in 0 .. MaxQty /\ snap \subseteq OrderId
      /\ pc \in {"audSym", "audKeep"}
      /\ UNCHANGED << phase, held, st, disk, miss, forceExit, ret, neu, stopTrade, want >>
  BY DEF Inv, TypeOK, BrokerTypeOK, AuditSweep, AuditConvert, AuditRegate
<1>1. PICK S \in SUBSET OrderId : S \subseteq snap /\ (RequestCancel(S) \/ ord' = ord)
  BY <1>0 DEF AuditSweep, AuditConvert, AuditRegate
<1>2. Wanes
  BY <1>0, <1>1, WanesRequest, WanesUnchanged
<1>3. NoBuys' /\ WholeBook' /\ (SellsGone => SellsGone')
  BY <1>0, <1>2, BuysNoBuys, FewerWanes, BookWanes DEF GapInv
<1>4. pc' \in {"audKeep", "audPlace", "gateCancelled"}
  BY DEF AuditSweep, AuditConvert, AuditRegate, Goto
<1>5. Records'
  BY <1>0, <1>3, <1>4 DEF GapInv, Records, Recorded, Sessions, Counted, ForConfirm,
     AuditLabels, ExitLabels
<1>6. Rested'
  BY <1>4 DEF Rested, AtEase
<1>7. Working'
  <2>1. CASE AuditSweep
    <3>1. /\ pc = "audSym" /\ pc' = "audKeep"
          /\ snap' = { i \in snap : Matching(i, st.qty) }
      BY <2>1 DEF AuditSweep, Goto
    <3>2. RequestCancel(snap \ snap') \/ ord' = ord
      BY <2>1 DEF AuditSweep
    <3>3. \A i \in snap' : ord'[i] = ord[i]
      BY <1>0, <3>1, <3>2, RequestCancelTyped
    <3>4. QED
      BY <1>0, <1>3, <3>1, <3>3 DEF GapInv, Working, AtStop, AtConfirm, AtAudit, Matching,
         Done
  <2>2. CASE AuditConvert
    BY <1>0, <1>3, <2>2 DEF AuditConvert, Goto, GapInv, Working, AtStop, AtConfirm, AtAudit
  <2>3. CASE AuditRegate
    <3>1. /\ pc = "audKeep" /\ pc' = "gateCancelled" /\ RequestCancel(snap)
          /\ cur' \in snap /\ ord[cur'].own
      BY <2>3 DEF AuditRegate, Goto
    <3>2. /\ ord'[cur'].own /\ ord'[cur'].status # "submitted"
          /\ (ord'[cur'].status = "filled" => ord[cur'].status = "filled")
      BY <1>0, <3>1, WanesRequest DEF Wanes
    <3>3. ret # "confirm2"
      BY <3>1 DEF GapInv, Working, AtConfirm
    <3>4. QED
      BY <1>0, <3>1, <3>2, <3>3 DEF GapInv, Working, AtStop, AtConfirm, AtAudit, Done
  <2>4. QED
    BY <2>1, <2>2, <2>3
<1>8. QED
  BY <1>3, <1>5, <1>6, <1>7 DEF GapInv, NoBuys, Buys

\* The steps of an audit that place a TRAIL for the tracked quantity.
LEMMA AuditPlacesGap ==
  ASSUME Inv, OrphanInv, GapInv, Gentle, GateReplace \/ GateRestore \/ AuditPlace
  PROVE  GapInv'
<1>0. /\ TypeOK /\ BrokerTypeOK /\ held \in 0 .. MaxQty /\ ord \in [OrderId -> Order]
      /\ st \in Position /\ st.tracked /\ LocalsOK /\ CancelsLanded
      /\ pc \in {"gateCancelled", "gateRestore", "audPlace"}
      /\ UNCHANGED << phase, held, st, disk, miss, forceExit, ret, cur, stopTrade, snap, want >>
  BY DEF Inv, TypeOK, BrokerTypeOK, GateReplace, GateRestore, AuditPlace, PlaceCopy,
     OrphanInv, Positioned, AuditLabels
<1>1. PICK i \in OrderId, gate \in {"none", "today", "stale"}, dollar \in BOOLEAN :
        /\ Place(i, NewOrder("TRAIL", st.qty, gate, dollar), "stopReject", Watched)
        /\ neu' = i
  <2>1. GateNow \in {"none", "today", "stale"} /\ FALSE \in BOOLEAN
    BY DEF GateNow
  <2>2. CASE AuditPlace
    BY <2>1, <2>2 DEF AuditPlace
  <2>3. CASE GateReplace \/ GateRestore
    <3>1. ord[cur].dollar \in BOOLEAN
      BY <1>0, <2>3 DEF GateReplace, GateRestore, LocalsOK, Order
    <3>2. QED
      BY <2>1, <2>3, <3>1 DEF GateReplace, GateRestore, PlaceCopy
  <2>4. QED
    BY <2>2, <2>3
<1>2. << pc, pc' >> \in { << "gateCancelled", "gatePlaced" >>, << "gateRestore", "gateRestored" >>,
                          << "audPlace", "audPlaced" >> }
  BY DEF GateReplace, GateRestore, AuditPlace, PlaceCopy, Goto
<1> DEFINE o == NewOrder("TRAIL", st.qty, gate, dollar)
<1>3. o \in Order /\ o.type = "TRAIL" /\ o.qty = st.qty /\ o.own /\ o.status = "submitted"
  BY <1>0 DEF NewOrder, Order, Position
<1> HIDE DEF o
<1>4. /\ \A j \in OrderId \ {i} : ord'[j] = ord[j]
      /\ ord'[i].type = "TRAIL" /\ ord'[i].qty = st.qty /\ ord'[i].own
      /\ ord'[i].status \in {"submitted", "cancelled"}
      /\ i \notin Watched
  <2>1. Place(i, o, "stopReject", Watched)
    BY <1>1 DEF o
  <2>2. QED
    BY <1>0, <1>3, <2>1, Placed
<1>5. st.qty \in 0 .. MaxQty /\ (held > 0 => st.qty = held)
  BY <1>0 DEF Position, GapInv, Records, Recorded
<1>6. WholeBook' /\ NoBuys'
  BY <1>0, <1>4, <1>5, BuysNoBuys, SellPlaced DEF GapInv
<1>7. Records'
  BY <1>0, <1>2 DEF GapInv, Records, Recorded, Sessions, Counted, ForConfirm, AuditLabels,
     ExitLabels
<1>8. Rested'
  BY <1>2 DEF Rested, AtEase
<1>9. Working'
  <2>1. AtStop'
    BY <1>2 DEF AtStop
  <2>2. AtConfirm'
    BY <1>0, <1>1, <1>2, <1>4 DEF GapInv, Working, AtConfirm, SellsGone, Sells, Open
  <2>3. pc \in {"gateCancelled", "gateRestore"} => cur \in OrderId /\ ord'[cur] = ord[cur]
    BY <1>0, <1>4 DEF LocalsOK, Watched
  <2>4. AtAudit'
    BY <1>0, <1>1, <1>2, <1>4, <2>3 DEF GapInv, Working, AtAudit, CancelsLanded, Gentle, Done
  <2>5. QED
    BY <2>1, <2>2, <2>4 DEF Working
<1>10. QED
  BY <1>6, <1>7, <1>8, <1>9 DEF GapInv, NoBuys, Buys

\* An audit keeps GapInv.
LEMMA AuditGap ==
  ASSUME Inv, OrphanInv, GapInv, Gentle, Audit
  PROVE  GapInv'
BY AuditEndsGap, AuditMovesGap, AuditCancelsGap, AuditPlacesGap DEF Audit

\* An exit whose sale did not come about leaves the position to an audit.
LEMMA ExitFailsGap ==
  ASSUME Inv, OrphanInv, GapInv, Gentle, pc \in {"exitWait", "exitSent"}, ExitFails
  PROVE  GapInv'
<1>0. /\ TypeOK /\ st \in Position /\ st.tracked /\ pc \in ExitLabels
      /\ ret \in {"idle", "entry"} /\ held \in 0 .. MaxQty
  BY DEF Inv, TypeOK, BrokerTypeOK, OrphanInv, Positioned, ExitLabels
<1>1. /\ pc' = "audit" /\ st' = [st EXCEPT !.pendingExit = FALSE]
      /\ UNCHANGED << phase, held, ord, miss, forceExit, ret, neu, stopTrade, snap >>
  BY DEF ExitFails, Goto, Save
<1>2. st'.tracked /\ st'.qty = st.qty /\ ~st'.pendingExit
  BY <1>0, <1>1 DEF Position
<1>3. NoBuys' /\ WholeBook'
  BY <1>1, QuietBook DEF GapInv
<1>4. Records'
  BY <1>0, <1>1, <1>2 DEF GapInv, Records, Recorded, Sessions, Counted, ForConfirm,
     AuditLabels, ExitLabels
<1>5. Rested'
  BY <1>0, <1>1 DEF GapInv, Records, Counted, Rested, AtEase, Guarded
<1>6. Working'
  BY <1>0, <1>1 DEF Working, AtStop, AtConfirm, AtAudit
<1>7. QED
  BY <1>3, <1>4, <1>5, <1>6 DEF GapInv, NoBuys, Buys

\* liquidate keeps GapInv: a filled market exit has closed the position.
LEMMA ExitGap ==
  ASSUME Inv, OrphanInv, GapInv, Gentle, Exit
  PROVE  GapInv'
<1>0. /\ TypeOK /\ BrokerTypeOK /\ disk = st /\ st \in Position /\ st.tracked
      /\ held \in 0 .. MaxQty /\ want \in 0 .. MaxQty
      /\ pc \in ExitLabels /\ ret \in {"idle", "entry"} /\ phase = "session"
      /\ UNCHANGED << phase, held, miss, forceExit, ret >>
  <2>1. pc \in ExitLabels /\ UNCHANGED << phase, held, miss, forceExit, ret >>
    BY DEF Exit, ExitNoPosition, ExitGone, ExitCancel, ExitDeferred, ExitPlace,
       ExitPlaceRaises, ExitRejected, ExitSettled, ExitFails, ExitLabels, brokerVars
  <2>2. QED
    BY <2>1 DEF Inv, PersistedAtYields, TypeOK, BrokerTypeOK, OrphanInv, Positioned, GapInv,
       Records, Sessions, ExitLabels
<1>1. NoBuys
  BY <1>0, BuysNoBuys DEF GapInv, ExitLabels
<1>2. CASE ExitNoPosition
  <2>1. /\ held = 0 /\ pc' = "exitGone" /\ RequestCancel(OpenSells)
        /\ UNCHANGED << st, disk, locals >>
    BY <1>2 DEF ExitNoPosition, CancelOrphans, Gentle, Fault, Goto
  <2>2. NoBuys' /\ WholeBook'
    BY <1>0, <1>1, <2>1, WanesRequest, BookWanes, FewerWanes DEF GapInv
  <2>3. Records'
    BY <1>0, <2>1 DEF GapInv, Records, Recorded, Sessions, Counted, ForConfirm, AuditLabels,
       ExitLabels
  <2>4. Rested' /\ Working'
    BY <1>0, <2>1 DEF Rested, Guarded, Working, AtStop, AtConfirm, AtAudit
  <2>5. QED
    BY <2>2, <2>3, <2>4 DEF GapInv, NoBuys, Buys
<1>3. CASE ExitGone
  <2>1. /\ pc = "exitGone" /\ pc' = ret /\ st' = Untracked /\ ord' = ord
    BY <1>3 DEF ExitGone, brokerVars, Save, Goto
  <2>2. held = 0 /\ SellsGone
    BY <1>3, CleanLanded DEF ExitGone, OrphanInv, Dropped, GapInv, Records, Recorded
  <2>3. NoBuys' /\ WholeBook'
    BY <1>0, <2>1, QuietBook DEF GapInv
  <2>4. Records'
    BY <1>0, <2>1, <2>2 DEF GapInv, Records, Recorded, Sessions, Counted, ForConfirm,
       Untracked, AuditLabels, ExitLabels, SellsGone, Sells, Open
  <2>5. Rested' /\ Working'
    BY <1>0, <2>1, <2>2 DEF Rested, Guarded, Working, AtStop, AtConfirm, AtAudit
  <2>6. QED
    BY <2>3, <2>4, <2>5 DEF GapInv, NoBuys, Buys
<1>4. CASE ExitCancel
  <2>1. /\ held > 0 /\ pc = "exit" /\ pc' = "exitWait" /\ want' = held
        /\ UNCHANGED << st, disk >>
        /\ RequestCancel({ i \in OrderId : Open(i) }) \/ ord' = ord
    BY <1>4 DEF ExitCancel, Goto
  <2>2. NoBuys' /\ WholeBook'
    BY <1>0, <1>1, <2>1, WanesRequest, WanesUnchanged, BookWanes, FewerWanes DEF GapInv
  <2>3. Records'
    BY <1>0, <2>1 DEF GapInv, Records, Recorded, Sessions, Counted, ForConfirm, AuditLabels,
       ExitLabels
  <2>4. Rested' /\ Working'
    BY <1>0, <2>1 DEF Rested, AtEase, Working, AtStop, AtConfirm, AtAudit
  <2>5. QED
    BY <2>2, <2>3, <2>4 DEF GapInv, NoBuys, Buys
<1>5. CASE ExitDeferred \/ ExitPlaceRaises \/ ExitRejected
  BY <1>5, ExitFailsGap DEF ExitDeferred, ExitPlaceRaises, ExitRejected
<1>6. CASE ExitPlace
  <2>1. PICK i \in OrderId :
          /\ Place(i, NewOrder("MKT", want, "none", FALSE), "exitReject", Watched)
          /\ cur' = i
    BY <1>6 DEF ExitPlace
  <2>2. /\ pc = "exitWait" /\ pc' = "exitSent" /\ st' = [st EXCEPT !.pendingExit = TRUE]
        /\ UNCHANGED << neu, stopTrade, snap, want >>
    BY <1>6 DEF ExitPlace, Goto, Save
  <2>3. st'.tracked /\ st'.qty = st.qty
    BY <1>0, <2>2 DEF Position
  <2> DEFINE o == NewOrder("MKT", want, "none", FALSE)
  <2>4. o \in Order /\ o.type = "MKT" /\ o.qty = want /\ o.own /\ o.status = "submitted"
    BY <1>0 DEF NewOrder, Order
  <2> HIDE DEF o
  <2>5. /\ \A j \in OrderId \ {i} : ord'[j] = ord[j]
        /\ ord'[i].type = "MKT" /\ ord'[i].qty = want /\ ord'[i].own
        /\ ord'[i].status \in {"submitted", "cancelled"}
    <3>1. Place(i, o, "exitReject", Watched)
      BY <2>1 DEF o
    <3>2. QED
      BY <1>0, <2>4, <3>1, Placed
  <2>6. want >= held
    BY <1>0, <2>2 DEF GapInv, Records, Recorded
  <2>7. WholeBook' /\ NoBuys'
    BY <1>0, <1>1, <2>5, <2>6, SellPlaced DEF GapInv
  <2>8. Records'
    BY <1>0, <2>2, <2>3 DEF GapInv, Records, Recorded, Sessions, Counted, ForConfirm,
       AuditLabels, ExitLabels
  <2>9. Rested' /\ Working'
    BY <1>0, <2>1, <2>2, <2>5 DEF Rested, AtEase, Working, AtStop, AtConfirm, AtAudit, Done
  <2>10. QED
    BY <2>7, <2>8, <2>9 DEF GapInv, NoBuys, Buys
<1>7. CASE ExitSettled
  <2>1. /\ pc = "exitSent" /\ pc' = ret /\ st' = [st EXCEPT !.pendingExit = TRUE]
        /\ ord' = ord /\ ord[cur].status = "filled"
    BY <1>0, <1>7 DEF ExitSettled, Gentle, Fault, Save, Goto
  <2>2. held = 0
    BY <2>1 DEF GapInv, Working, AtAudit, Done
  <2>3. st'.tracked
    BY <1>0, <2>1 DEF Position
  <2>4. NoBuys' /\ WholeBook'
    BY <1>0, <2>1, QuietBook DEF GapInv
  <2>5. Records'
    BY <1>0, <2>1, <2>2, <2>3 DEF GapInv, Records, Recorded, Sessions, Counted, ForConfirm,
       AuditLabels, ExitLabels
  <2>6. Rested' /\ Working'
    BY <1>0, <2>1, <2>2 DEF Rested, Guarded, Working, AtStop, AtConfirm, AtAudit
  <2>7. QED
    BY <2>4, <2>5, <2>6 DEF GapInv, NoBuys, Buys
<1>8. QED
  BY <1>2, <1>3, <1>4, <1>5, <1>6, <1>7 DEF Exit

-----------------------------------------------------------------------------
(* The broker, the clock and crashes. *)

\* A fill of the one BUY.
LEMMA FillBuyGap ==
  ASSUME Inv, OrphanInv, GapInv, NEW i \in OrderId, FillBuy(i), UNCHANGED engineVars
  PROVE  GapInv'
<1>0. /\ TypeOK /\ ord[i] \in Order /\ ord \in [OrderId -> Order]
      /\ Open(i) /\ ord[i].type = "BUY" /\ held' = held + ord[i].qty /\ held' <= MaxQty
      /\ UNCHANGED << phase, engineVars >>
  BY DEF Inv, TypeOK, BrokerTypeOK, FillBuy
<1>1. /\ ord'[i] = [ord[i] EXCEPT !.status = "filled"]
      /\ \A j \in OrderId \ {i} : ord'[j] = ord[j]
  BY <1>0 DEF FillBuy
<1>2. /\ ord'[i].status = "filled" /\ ord'[i].type = "BUY" /\ ord'[i].qty = ord[i].qty
      /\ ord'[i].own = ord[i].own
  BY <1>0, <1>1 DEF Order
<1>3. /\ held = 0 /\ ~disk.tracked /\ SellsGone
      /\ pc \in {"boot", "bootSync", "buySent", "noFill"}
      /\ pc = "buySent" => i = cur
      /\ \A j \in OrderId : Open(j) /\ ord[j].type = "BUY" => i = j
  BY <1>0 DEF GapInv, Buys
<1>4. NoBuys' /\ SellsGone'
  BY <1>1, <1>2, <1>3 DEF NoBuys, SellsGone, Sells, Open
<1>5. WholeBook'
  <2>1. ~Sells(i)'
    BY <1>2 DEF Sells, Open
  <2>2. ~Open(i)'
    BY <1>2 DEF Open
  <2>3. ASSUME NEW j \in OrderId \ {i}, Open(j)'
        PROVE  /\ Sells(j)' => ord'[j].qty >= held'
               /\ ~ord'[j].own => /\ ord'[j].type = "TRAIL" /\ ord'[j].qty = MaxQty
                                 /\ ord'[j].status = "submitted"
    <3>1. ord'[j] = ord[j]
      BY <1>1
    <3>2. Open(j)
      BY <2>3, <3>1 DEF Open
    <3>3. ~ord[j].own => /\ ord[j].type = "TRAIL" /\ ord[j].qty = MaxQty
                        /\ ord[j].status = "submitted"
      BY <3>2 DEF GapInv, WholeBook
    <3>4. Sells(j)' => Sells(j)
      BY <3>1, <3>2 DEF Sells
    <3>5. ord[j].own => ~Sells(j)
      BY <1>3 DEF SellsGone
    <3>6. CASE ord[j].own
      BY <3>1, <3>4, <3>5, <3>6
    <3>7. CASE ~ord[j].own
      BY <1>0, <3>1, <3>3, <3>7 DEF TypeOK, BrokerTypeOK
    <3>8. QED
      BY <3>6, <3>7
  <2>4. QED
    BY <2>1, <2>2, <2>3 DEF WholeBook, Sells
<1>6. pc \in {"buySent", "noFill"} => ~st.tracked
  BY DEF GapInv, Records, Recorded
<1>7. pc = "boot" => ~st.tracked
  BY DEF OrphanInv, Dropped
<1>8. Records'
  BY <1>0, <1>3, <1>4, <1>6, <1>7 DEF engineVars, GapInv, Records, Recorded, Sessions, Counted,
     ForConfirm, AuditLabels, ExitLabels
<1>9. Rested'
  BY <1>0, <1>3 DEF engineVars, Rested, AtEase
<1>10. Working'
  <2>1. pc = "buySent" => ord[cur].qty = want /\ ord[cur].own
    BY DEF GapInv, Working, AtStop
  <2>2. ord[i].qty \in 0 .. MaxQty
    BY <1>0 DEF Order
  <2>3. AtStop'
    BY <1>0, <1>2, <1>3, <2>1, <2>2 DEF engineVars, AtStop
  <2>4. (AtConfirm /\ AtAudit)'
    BY <1>0, <1>3 DEF engineVars, AtConfirm, AtAudit
  <2>5. QED
    BY <2>3, <2>4 DEF Working
<1>11. QED
  BY <1>4, <1>5, <1>8, <1>9, <1>10 DEF GapInv, NoBuys, Buys

\* Any other step of the broker closes the position or leaves it, and leaves the stop
\* that covers it.
LEMMA BrokerSells ==
  ASSUME TypeOK, WholeBook, Gentle, BrokerNext, \A i \in OrderId : ~FillBuy(i)
  PROVE  /\ Wanes /\ held' \in {0, held} /\ phase' = phase
         /\ \A i \in OrderId :
              /\ Done(i) => Done(i)'
              /\ ord'[i].status = "pendingCancel" => ord[i].status = "pendingCancel"
         /\ held' > 0 /\ Protected => Protected'
<1>0. /\ BrokerTypeOK /\ held \in 0 .. MaxQty /\ ord \in [OrderId -> Order]
      /\ \A i \in OrderId : ord[i] \in Order
  BY DEF TypeOK, BrokerTypeOK
<1>1. Wanes
  BY <1>0, WanesBroker
<1>2. CASE OperatorCloses
  BY <1>1, <1>2 DEF OperatorCloses, Done
<1>3. CASE QuantityGrows
  BY <1>3 DEF QuantityGrows, Gentle, Fault
<1>4. ASSUME NEW i \in OrderId, FillSell(i)
      PROVE  /\ held' = 0 /\ phase' = phase
             /\ \A j \in OrderId : ord'[j].status = "pendingCancel"
                                     => ord[j].status = "pendingCancel"
  <2>1. ord[i].qty >= held /\ ord[i].qty \in 0 .. MaxQty
    BY <1>0, <1>4 DEF FillSell, OpenSells, WholeBook, Sells, Order
  <2>2. ord[i].qty <= held /\ held' = held - ord[i].qty /\ phase' = phase
    BY <1>4 DEF FillSell
  <2>3. held' = 0
    BY <1>0, <2>1, <2>2
  <2>4. \A j \in OrderId : ord'[j] = IF j = i THEN [ord[i] EXCEPT !.status = "filled"] ELSE ord[j]
    BY <1>0, <1>4 DEF FillSell
  <2>5. QED
    BY <1>0, <2>2, <2>3, <2>4 DEF Order
<1>5. ASSUME NEW i \in OrderId, RefuseSell(i) \/ AcknowledgeCancel(i)
      PROVE  /\ held' = held /\ phase' = phase
             /\ ord'[i].status = "cancelled"
             /\ \A j \in OrderId \ {i} : ord'[j] = ord[j]
             /\ ord[i].qty > held \/ ord[i].status = "pendingCancel"
  <2>1. ord' = [ord EXCEPT ![i].status = "cancelled"] /\ held' = held /\ phase' = phase
    BY <1>5 DEF RefuseSell, AcknowledgeCancel
  <2>2. ord'[i] = [ord[i] EXCEPT !.status = "cancelled"]
    BY <1>0, <2>1
  <2>3. ord'[i].status = "cancelled"
    BY <1>0, <2>2 DEF Order
  <2>4. QED
    BY <1>0, <1>5, <2>1, <2>3 DEF RefuseSell, AcknowledgeCancel
<1>6. CASE \E i \in OrderId : FillSell(i)
  BY <1>1, <1>4, <1>6 DEF Done
<1>7. CASE \E i \in OrderId : RefuseSell(i) \/ AcknowledgeCancel(i)
  <2>1. PICK i \in OrderId : RefuseSell(i) \/ AcknowledgeCancel(i)
    BY <1>7
  <2>2. /\ held' = held /\ phase' = phase
        /\ ord'[i].status = "cancelled"
        /\ \A j \in OrderId \ {i} : ord'[j] = ord[j]
        /\ ord[i].qty > held \/ ord[i].status = "pendingCancel"
    BY <1>5, <2>1
  <2>3. Protected => Protected'
    BY <1>0, <2>2 DEF Protected
  <2>4. QED
    BY <1>1, <2>2, <2>3 DEF Done
<1>8. \A i \in OrderId : ~BrokerCancels(i)
  BY DEF BrokerCancels, Gentle, Fault
<1>9. QED
  BY <1>2, <1>3, <1>6, <1>7, <1>8 DEF BrokerNext

\* The broker keeps GapInv.
LEMMA BrokerGap ==
  ASSUME Inv, OrphanInv, GapInv, Gentle, Broker
  PROVE  GapInv'
<1>0. TypeOK /\ held \in 0 .. MaxQty /\ UNCHANGED engineVars
  BY DEF Inv, TypeOK, BrokerTypeOK, Broker
<1>1. CASE \E i \in OrderId : FillBuy(i)
  BY <1>0, <1>1, FillBuyGap
<1>2. CASE \A i \in OrderId : ~FillBuy(i)
  <2>1. /\ Wanes /\ held' \in {0, held} /\ phase' = phase
        /\ \A i \in OrderId :
             /\ Done(i) => Done(i)'
             /\ ord'[i].status = "pendingCancel" => ord[i].status = "pendingCancel"
        /\ held' > 0 /\ Protected => Protected'
    BY <1>0, <1>2, BrokerSells DEF GapInv, Broker
  <2>2. /\ SellsGone => SellsGone'
        /\ \A i \in OrderId : (Sells(i)' => Sells(i)) /\ (Open(i)' => Open(i))
    BY <2>1, FewerWanes
  <2>3. WholeBook'
    BY <1>0, <2>1, BookWanes DEF GapInv
  <2>4. Buys'
    BY <1>0, <2>1, <2>2 DEF engineVars, GapInv, Buys, Wanes, Open
  <2>5. Records'
    BY <1>0, <2>1, <2>2 DEF engineVars, GapInv, Records, Recorded, Sessions, Counted,
       ForConfirm
  <2>6. Rested'
    BY <1>0, <2>1 DEF engineVars, GapInv, Rested, AtEase, Guarded
  <2>7. Working'
    <3>1. AtStop'
      <4>1. (pc = "stopPlace" => SellsGone)'
        BY <1>0, <2>2 DEF engineVars, GapInv, Working, AtStop
      <4>2. CASE pc = "stopSent"
        BY <1>0, <2>1, <2>2, <4>1, <4>2 DEF engineVars, GapInv, Working, AtStop, Wanes
      <4>3. CASE pc = "buySent"
        <5>1. cur \in OrderId /\ ord[cur].qty = want /\ ord[cur].own
          BY <4>3 DEF Inv, LocalsOK, GapInv, Working, AtStop
        <5>2. ord'[cur].status = "filled" /\ held' > 0 => want = held'
          BY <1>0, <2>1, <4>3, <5>1 DEF Done, GapInv, Working, AtStop
        <5>3. QED
          BY <1>0, <2>1, <4>1, <4>3, <5>1, <5>2 DEF engineVars, AtStop, Wanes
      <4>4. CASE pc \notin {"stopSent", "buySent"}
        BY <1>0, <4>1, <4>4 DEF engineVars, AtStop
      <4>5. QED
        BY <4>2, <4>3, <4>4
    <3>2. AtConfirm'
      BY <1>0, <2>1, <2>2 DEF engineVars, GapInv, Working, AtConfirm, Wanes, Sells, Open,
         Inv, TypeOK
    <3>3. AtAudit'
      BY <1>0, <2>1 DEF engineVars, GapInv, Working, AtAudit, Wanes, Done, Inv, TypeOK,
         LocalsOK
    <3>4. QED
      BY <3>1, <3>2, <3>3 DEF Working
  <2>8. QED
    BY <2>3, <2>4, <2>5, <2>6, <2>7 DEF GapInv
<1>3. QED
  BY <1>1, <1>2

\* The clock and a crash keep GapInv.
LEMMA EnvironmentGap ==
  ASSUME Inv, OrphanInv, GapInv, Gentle, Clock \/ ToggleForceExit \/ Crash \/ UNCHANGED vars
  PROVE  GapInv'
<1>0. TypeOK /\ BrokerTypeOK /\ held \in 0 .. MaxQty /\ (pc \notin {"boot", "syncSave"} => disk = st)
  BY DEF Inv, TypeOK, BrokerTypeOK, PersistedAtYields
<1>1. CASE Clock
  <2>1. /\ pc = "idle" /\ UNCHANGED << held, st, disk, miss, forceExit, pc, ret, locals >>
        /\ NextPhase \/ NewDay
    BY <1>1 DEF Clock, NextPhase, NewDay
  <2>2. /\ Wanes
        /\ \A i \in OrderId : ord[i].type = "TRAIL" => ord'[i].status = ord[i].status
    BY <1>0, <2>1, WanesNewDay, WanesUnchanged DEF NextPhase
  <2>3. NoBuys' /\ WholeBook' /\ (SellsGone => SellsGone')
    BY <1>0, <2>1, <2>2, BuysNoBuys, BookWanes, FewerWanes DEF GapInv
  <2>4. Records'
    BY <2>1, <2>3 DEF GapInv, Records, Recorded, Sessions, Counted, ForConfirm, AuditLabels,
       ExitLabels
  <2>5. Rested'
    BY <2>1, <2>2 DEF GapInv, Rested, AtEase, Guarded, Protected, Wanes
  <2>6. Working'
    BY <2>1 DEF Working, AtStop, AtConfirm, AtAudit
  <2>7. QED
    BY <2>3, <2>4, <2>5, <2>6 DEF GapInv, NoBuys, Buys
<1>2. CASE ToggleForceExit
  BY <1>2 DEF ToggleForceExit, Gentle, Fault
<1>3. CASE Crash
  <2>1. /\ pc # "boot" /\ pc' = "boot" /\ ret' = "idle" /\ ~st'.tracked /\ miss' = 0
        /\ UNCHANGED << phase, held, ord, disk, forceExit >>
    BY <1>3 DEF Crash, Call, Untracked
  <2>2. Buys'
    BY <2>1 DEF GapInv, Buys, SellsGone, Sells, Open
  <2>3. WholeBook'
    BY <2>1 DEF GapInv, WholeBook, Sells, Open
  <2>4. Records'
    BY <2>1 DEF GapInv, Records, Recorded, Sessions, Counted, ForConfirm, AuditLabels,
       ExitLabels
  <2>5. Rested' /\ Working'
    BY <2>1 DEF Rested, AtEase, Working, AtStop, AtConfirm, AtAudit
  <2>6. QED
    BY <2>2, <2>3, <2>4, <2>5 DEF GapInv
<1>4. CASE UNCHANGED vars
  <2>1. Buys' /\ WholeBook'
    BY <1>4 DEF vars, brokerVars, engineVars, GapInv, Buys, WholeBook, SellsGone, Sells, Open
  <2>2. Records'
    BY <1>4 DEF vars, brokerVars, engineVars, GapInv, Records, Recorded, Sessions, Counted,
       ForConfirm, SellsGone, Sells, Open
  <2>3. Rested'
    BY <1>4 DEF vars, brokerVars, engineVars, GapInv, Rested, AtEase, Guarded, Protected
  <2>4. Working'
    BY <1>4 DEF vars, brokerVars, engineVars, GapInv, Working, AtStop, AtConfirm, AtAudit,
       SellsGone, Sells, Open, Done
  <2>5. QED
    BY <2>1, <2>2, <2>3, <2>4 DEF GapInv
<1>5. QED
  BY <1>1, <1>2, <1>3, <1>4

\* The engine starts in the invariants.
LEMMA InitGap ==
  Init /\ WholeStart => OrphanInv /\ GapInv
<1>1. Init /\ WholeStart => OrphanInv
  BY DEF Init, WholeStart, Untracked, OrphanInv, Positioned, Dropped, ForConfirm, AuditLabels,
     ExitLabels
<1>2. Init /\ WholeStart => Buys /\ WholeBook
  BY DEF Init, WholeStart, Buys, WholeBook, Sells
<1>3. Init => Records
  BY DEF Init, Untracked, Records, Recorded, Sessions, Counted, ForConfirm, AuditLabels,
     ExitLabels
<1>4. Init => Rested /\ Working
  BY DEF Init, Rested, AtEase, Working, AtStop, AtConfirm, AtAudit
<1>5. QED
  BY <1>1, <1>2, <1>3, <1>4 DEF GapInv

\* Every step keeps GapInv.
LEMMA GapStep ==
  ASSUME Inv, OrphanInv, GapInv, Gentle, [Next]_vars
  PROVE  GapInv'
<1>1. ASSUME CycleSync \/ CheckpointSync PROVE GapInv'
  BY <1>1, SyncGap DEF CycleSync, CheckpointSync, SyncSites, Returns
<1>2. QED
  BY <1>1, BootGap, CycleGap, EntryGap, AuditGap, ExitGap, BrokerGap, EnvironmentGap
     DEF Next, Engine, Cycle

\* Between two cycles a position the engine tracks is covered, share for share, by a
\* working TRAIL, or flagged for an audit in the very next cycle, whatever is rejected,
\* refused or raised and however often the engine crashes.  Left out are the events of
\* Gentle, which break it or race it by design of the code; the engine must start with
\* stops for the whole position, and another client's for the largest one.
THEOREM NoGap ==
  ASSUME Gentle
  PROVE  Spec /\ WholeStart => []NoSilentGap
<1>1. Gentle /\ "orphanCancelRaises" \notin Faults
  BY DEF Gentle
<1>2. Inv /\ OrphanInv /\ [Next]_vars => OrphanInv'
  BY <1>1, OrphanStep
<1>3. Inv /\ OrphanInv /\ GapInv /\ [Next]_vars => GapInv'
  BY <1>1, GapStep
<1>4. GapInv => NoSilentGap
  BY DEF GapInv, Rested, AtEase, Guarded, NoSilentGap, AtRest
<1>5. QED
  BY <1>2, <1>3, <1>4, InitGap, SpecInv, PTL DEF Spec

-----------------------------------------------------------------------------
(***************************************************************************)
(* An order that an audit has confirmed is not replaced for its gate.  The *)
(* audit spares the order that the record names, so as long as the order   *)
(* works the record must name it.  It stops doing so where the stop after  *)
(* a fill is refused and an audit places another: the record is then given *)
(* the id of the refused one (the run peak_lost).  Hence the hypothesis:   *)
(* that stop is refused only when there is nothing left to protect.        *)
(***************************************************************************)

\* What the engine may find when it starts: one working order at most, its own.
LoneStart ==
  /\ WholeStart
  /\ \A i, j \in OrderId : Open(i) /\ Open(j) => i = j /\ ord[i].own

\* There is one SELL at most, and no order of another client.
Lone ==
  /\ \A i \in OrderId : Open(i) => ord[i].own
  /\ \A i, j \in OrderId : Sells(i) /\ Sells(j) => i = j

\* Where a TRAIL may be waiting for its cancellation: no audit begins with one.
PendingAt == { "boot", "bootSync", "syncRemove", "audKeep", "audPlace", "gateCancelled",
               "exitGone", "exitWait" }

Landed ==
  \A i \in OrderId :
    ord[i].type = "TRAIL" /\ ord[i].status = "pendingCancel" => pc \in PendingAt

\* A confirmed order that works: its trail remembers the peak.
Peaked(i) == i \in confirmedIds /\ ord[i].type = "TRAIL" /\ ord[i].status = "submitted"
NoPeak    == \A i \in OrderId : ~Peaked(i)

\* The record names it.
Keeps(r, i) == r.tracked /\ r.prot = "confirmed" /\ r.stopId = i /\ r.qty = ord[i].qty

Kept ==
  \A i \in OrderId : Peaked(i) =>
    /\ pc # "boot" => Keeps(st, i)
    /\ pc \in {"boot", "syncSave"} => Keeps(disk, i)
    /\ held > 0 => held = ord[i].qty

\* An audit has it in its snapshot, and nothing else that was ever confirmed.
Snapped ==
  pc \in {"audSym", "audKeep"} =>
    /\ \A i, j \in snap : i = j
    /\ \A i \in OrderId : Peaked(i) => i \in snap
    /\ \A i \in snap \cap confirmedIds :
         ord[i].type = "TRAIL" => st.prot = "confirmed" /\ st.stopId = i

\* An audit that places an order has none of these left.
Replacing == { "audPlace", "audPlaced", "gateCancelled", "gatePlaced", "gateRestore",
               "gateRestored" }

Replaced ==
  /\ pc \in Replacing => NoPeak
  /\ pc \in Replacing \cup {"audKeep"} => st.qty > 0

\* The stop after a fill is for what is held, and refused only if nothing is.
Refused ==
  /\ stopTrade # 0 => pc = "stopSent" \/ ForConfirm
  /\ pc \in {"stopPlace", "stopSent"} \/ ForConfirm => want = st.qty
  /\ pc = "stopSent" => (ord[stopTrade].status = "cancelled" => held = 0)
  /\ ForConfirm /\ stopTrade # 0 =>
       held = 0 /\ NoPeak /\ (pc = "audPlaced" => ord[neu].status = "cancelled")

PeakInv == Lone /\ Landed /\ Kept /\ Snapped /\ Replaced /\ Refused

LEMMA InitPeak ==
  Init /\ LoneStart => PeakInv
<1> SUFFICES ASSUME Init, LoneStart PROVE PeakInv
  OBVIOUS
<1>1. Lone /\ Landed
  BY DEF Init, LoneStart, Lone, Sells, Landed, PendingAt
<1>2. Kept /\ Snapped /\ Replaced /\ Refused
  BY DEF Init, Kept, Peaked, Snapped, Replaced, Replacing, Refused, ForConfirm, AuditLabels
<1>3. QED
  BY <1>1, <1>2 DEF PeakInv

\* A step that revives no order, and confirms none, leaves a peak or takes it.
LEMMA PeakWanes ==
  ASSUME Wanes, confirmedIds' = confirmedIds
  PROVE  /\ \A i \in OrderId : Peaked(i)' => Peaked(i) /\ ord'[i].qty = ord[i].qty
         /\ Lone => Lone'
         /\ NoPeak => NoPeak'
<1>1. \A i \in OrderId : (Open(i)' => Open(i)) /\ (Sells(i)' => Sells(i))
  BY FewerWanes
<1>2. \A i \in OrderId : Peaked(i)' => Peaked(i) /\ ord'[i].qty = ord[i].qty
  BY DEF Wanes, Peaked
<1>3. Lone => Lone'
  BY <1>1 DEF Lone, Wanes
<1>4. QED
  BY <1>2, <1>3 DEF NoPeak

\* Without a SELL there is no peak to lose.
LEMMA NoSellNoPeak ==
  ASSUME Lone, SellsGone
  PROVE  NoPeak
BY DEF Lone, SellsGone, NoPeak, Peaked, Sells, Open

LEMMA CleanNoPeak ==
  ASSUME Lone, Clean
  PROVE  NoPeak
BY DEF Lone, Clean, NoPeak, Peaked, Open

\* Where the engine has waited for its cancels, none of a TRAIL is outstanding.
LEMMA NonePending ==
  ASSUME Lone, CancelsLanded, Gentle
  PROVE  \A i \in OrderId : ord[i].status # "pendingCancel"
BY DEF Lone, CancelsLanded, Gentle, Open

\* A step to a place outside the audits and the entry's stop.
LEMMA Resettles ==
  ASSUME PeakInv, held' \in {0, held}, Wanes, confirmedIds' = confirmedIds,
         pc' \notin {"boot", "stopPlace", "stopSent", "confirm2"} \cup AuditLabels
           \/ (pc' = "audit" /\ ret' # "confirm2"),
         pc' \in PendingAt
           \/ \A i \in OrderId : ord'[i].type = "TRAIL" => ord'[i].status # "pendingCancel",
         \A i \in OrderId : Peaked(i)' => Keeps(st', i),
         pc' = "syncSave" => \A i \in OrderId : Peaked(i)' => Keeps(disk', i),
         stopTrade' = 0
  PROVE  PeakInv'
<1>1. \A i \in OrderId : Peaked(i)' => Peaked(i) /\ ord'[i].qty = ord[i].qty
  BY PeakWanes
<1>2. Lone'
  BY PeakWanes DEF PeakInv
<1>3. Landed'
  BY DEF Landed
<1>4. Kept'
  BY <1>1 DEF PeakInv, Kept, Keeps, AuditLabels
<1>5. Snapped' /\ Replaced' /\ Refused'
  BY DEF Snapped, Replaced, Replacing, Refused, ForConfirm, AuditLabels
<1>6. QED
  BY <1>2, <1>3, <1>4, <1>5 DEF PeakInv

\* The steps of a cycle, and of an entry, that only move on.
LEMMA MovesPeak ==
  ASSUME Inv, OrphanInv, PeakInv,
         BootAudit \/ BootDone \/ CycleForceExit \/ MaybeAudit \/ AuditDone
           \/ CheckpointCovered \/ CheckpointAudit \/ CheckpointDone \/ CheckpointsOver
           \/ Manage \/ EntrySkip \/ NoFillAudit \/ OthersDone \/ OthersAudit
  PROVE  PeakInv'
<1>1. /\ UNCHANGED << held, ord, st, stopTrade, confirmedIds >>
      /\ pc \notin {"boot", "stopPlace", "stopSent", "confirm2"} \cup AuditLabels \cup PendingAt
      /\ \/ pc' \notin {"boot", "syncSave", "stopPlace", "stopSent", "confirm2"} \cup AuditLabels
         \/ pc' = "audit" /\ ret' # "confirm2"
  BY DEF BootAudit, BootDone, CycleForceExit, MaybeAudit, AuditDone, CheckpointCovered,
     CheckpointAudit, CheckpointDone, CheckpointsOver, Manage, EntrySkip, NoFillAudit,
     OthersDone, OthersAudit, Goto, Call, brokerVars, locals, AuditLabels, PendingAt
<1>2. Wanes
  BY <1>1, WanesUnchanged
<1>3. \A i \in OrderId : ord'[i].type = "TRAIL" => ord'[i].status # "pendingCancel"
  BY <1>1 DEF PeakInv, Landed
<1>4. \A i \in OrderId : Peaked(i)' => Keeps(st', i)
  BY <1>1 DEF PeakInv, Kept, Keeps, Peaked
<1>5. stopTrade' = 0
  BY <1>1 DEF PeakInv, Refused, ForConfirm
<1>6. QED
  BY <1>1, <1>2, <1>3, <1>4, <1>5, Resettles

\* A sync, wherever it is called, changes nothing that the record says of its stop.
LEMMA SyncPeak ==
  ASSUME Inv, OrphanInv, GapInv, PeakInv, Gentle,
         NEW label \in Returns, << pc, label >> \in SyncSites,
         pc = "check" \/ CancelsLanded, Sync(label)
  PROVE  PeakInv'
<1>0. /\ TypeOK /\ BrokerTypeOK /\ st \in Position /\ disk = st
      /\ UNCHANGED << held, stopTrade, confirmedIds >>
      /\ pc \notin {"boot", "stopPlace", "stopSent", "confirm2"} \cup AuditLabels
  BY DEF Inv, TypeOK, PersistedAtYields, SyncSites, Sync, locals, AuditLabels
<1>1. \A i \in OrderId : ord[i].type = "TRAIL" => ord[i].status # "pendingCancel"
  <2>1. CASE CancelsLanded
    BY <2>1, NonePending DEF PeakInv
  <2>2. CASE pc = "check"
    BY <2>2 DEF PeakInv, Landed, PendingAt
  <2>3. QED
    BY <2>1, <2>2
<1>2. stopTrade' = 0
  BY <1>0 DEF PeakInv, Refused, ForConfirm
<1>3. \/ ord' = ord /\ pc' = label
      \/ ord' = ord /\ pc' = "syncSave" /\ disk' = st
      \/ RequestCancel(OpenSells) /\ pc' = "syncRemove" /\ st' = st
  BY <1>0 DEF Sync, SyncAdds, SyncUpdates, SyncDefers, SyncCancelsOrphans, SyncSkips,
     SyncEnds, CancelOrphans, Gentle, Fault, Goto, Call
<1>4. Wanes
  BY <1>0, <1>3, WanesUnchanged, WanesRequest
<1>5. \A i \in OrderId : Peaked(i)' => Peaked(i)
  BY <1>0, <1>4, PeakWanes
<1>6. ASSUME NEW i \in OrderId, Peaked(i)
      PROVE  Keeps(st, i) /\ Keeps(st', i)
  <2>1. Keeps(st, i) /\ (held > 0 => held = ord[i].qty)
    BY <1>0, <1>6 DEF PeakInv, Kept
  <2>2. CASE SyncAdds(label)
    BY <2>1, <2>2 DEF SyncAdds, Keeps
  <2>3. CASE SyncUpdates(label)
    BY <1>0, <2>1, <2>3 DEF SyncUpdates, Keeps, Position
  <2>4. CASE st' = st
    BY <2>1, <2>4
  <2>5. QED
    BY <2>1, <2>2, <2>3, <2>4 DEF Sync, SyncDefers, SyncCancelsOrphans, SyncSkips
<1>7. pc' \notin {"boot", "stopPlace", "stopSent", "confirm2"} \cup AuditLabels
  BY <1>3 DEF SyncSites, AuditLabels
<1>8. \/ pc' \in PendingAt
      \/ \A i \in OrderId : ord'[i].type = "TRAIL" => ord'[i].status # "pendingCancel"
  BY <1>1, <1>3 DEF PendingAt
<1>9. pc' = "syncSave" => disk' = st
  BY <1>3 DEF SyncSites
<1>10. QED
  BY <1>0, <1>2, <1>4, <1>5, <1>6, <1>7, <1>8, <1>9, Resettles

\* The start of the engine and the ends of a sync.
LEMMA BootPeak ==
  ASSUME Inv, OrphanInv, GapInv, PeakInv, Gentle, Boot \/ SyncRemove \/ SyncSave
  PROVE  PeakInv'
<1>0. BrokerTypeOK
  BY DEF Inv, TypeOK
<1>1. CASE Boot
  <2>1. /\ pc = "boot" /\ pc' = "bootSync" /\ st' = disk
        /\ UNCHANGED << held, stopTrade, confirmedIds >>
    BY <1>1 DEF Boot, Goto, locals
  <2>2. Wanes
    BY <1>0, <1>1, WanesRequest, WanesUnchanged DEF Boot, CancelOrphans
  <2>3. \A i \in OrderId : Peaked(i)' => Keeps(st', i)
    BY <2>1, <2>2, PeakWanes DEF PeakInv, Kept, Keeps
  <2>4. stopTrade' = 0
    BY <2>1 DEF PeakInv, Refused, ForConfirm, AuditLabels
  <2>5. QED
    BY <2>1, <2>2, <2>3, <2>4, Resettles DEF PendingAt, AuditLabels
<1>2. CASE SyncRemove
  <2>1. /\ pc = "syncRemove" /\ pc' \in {ret, "syncSave"} /\ ret' = ret
        /\ UNCHANGED << held, ord, stopTrade, confirmedIds >>
    BY <1>2 DEF SyncRemove, SyncEnds, brokerVars, locals, Goto, Call
  <2>2. ret \in Returns \ {"confirm2"}
    BY <2>1 DEF Inv, TypeOK, OrphanInv, Positioned
  <2>3. NoPeak
    BY <2>1, CleanNoPeak DEF OrphanInv, Dropped, PeakInv
  <2>4. \A i \in OrderId : ~(Peaked(i)')
    BY <2>1, <2>3 DEF NoPeak, Peaked
  <2>5. \A i \in OrderId : ord'[i].status # "pendingCancel"
    BY <1>2, <2>1, NonePending DEF SyncRemove, PeakInv
  <2>6. stopTrade' = 0
    BY <2>1 DEF PeakInv, Refused, ForConfirm, AuditLabels
  <2>7. QED
    BY <2>1, <2>2, <2>4, <2>5, <2>6, WanesUnchanged, Resettles DEF Returns, AuditLabels
<1>3. CASE SyncSave
  <2>1. /\ pc = "syncSave" /\ pc' = ret
        /\ UNCHANGED << held, ord, st, stopTrade, confirmedIds, ret >>
    BY <1>3 DEF SyncSave, brokerVars, locals, Goto
  <2>2. ret \in Returns \ {"confirm2"}
    BY <2>1 DEF Inv, TypeOK, OrphanInv, Positioned
  <2>3. \A i \in OrderId : Peaked(i)' => Keeps(st', i)
    BY <2>1 DEF PeakInv, Kept, Keeps, Peaked
  <2>4. \A i \in OrderId : ord'[i].type = "TRAIL" => ord'[i].status # "pendingCancel"
    BY <2>1 DEF PeakInv, Landed, PendingAt
  <2>5. stopTrade' = 0
    BY <2>1 DEF PeakInv, Refused, ForConfirm, AuditLabels
  <2>6. QED
    BY <2>1, <2>2, <2>3, <2>4, <2>5, WanesUnchanged, Resettles DEF Returns, AuditLabels
<1>4. QED
  BY <1>1, <1>2, <1>3

\* A placed order that is refused was for more than could be sold, or rejected.
LEMMA PlacedOrRefused ==
  ASSUME BrokerTypeOK, NEW i \in OrderId, NEW o \in Order, NEW f, NEW w, Place(i, o, f, w),
         o.status = "submitted"
  PROVE  /\ ord'[i].status = "cancelled" => Oversells(o) \/ Fault(f)
         /\ Oversells(o) => ord'[i].status = "cancelled"
<1>1. ord \in [OrderId -> Order]
  BY DEF BrokerTypeOK
<1>2. CASE ord' = [ord EXCEPT ![i] = [o EXCEPT !.status = "cancelled"]] /\ Fault(f)
  BY <1>1, <1>2 DEF Order
<1>3. CASE ord' = [ord EXCEPT ![i] =
                     [o EXCEPT !.status = IF Oversells(o) THEN "cancelled" ELSE @]]
  <2>1. CASE Oversells(o)
    BY <1>1, <1>3, <2>1 DEF Order
  <2>2. CASE ~Oversells(o)
    BY <1>1, <1>3, <2>2 DEF Order
  <2>3. QED
    BY <2>1, <2>2
<1>4. QED
  BY <1>2, <1>3 DEF Place

\* The BUY of an entry, and the two ends of the wait for it.
LEMMA BuyPeak ==
  ASSUME Inv, OrphanInv, GapInv, PeakInv, Gentle, EntryBuy \/ EntryFilled \/ EntryNotFilled
  PROVE  PeakInv'
<1>0. /\ TypeOK /\ BrokerTypeOK /\ held' = held /\ stopTrade' = stopTrade
      /\ pc \in {"entry", "buySent"}
  BY DEF EntryBuy, EntryFilled, EntryNotFilled, Inv, TypeOK, brokerVars, locals
<1>1. stopTrade = 0
  BY <1>0 DEF PeakInv, Refused, ForConfirm, AuditLabels
<1>2. NoPeak
  <2>1. ~st.tracked
    BY DEF EntryBuy, EntryFilled, EntryNotFilled, GapInv, Records, Recorded
  <2>2. QED
    BY <1>0, <2>1 DEF PeakInv, Kept, Keeps, NoPeak
<1>3. SellsGone
  BY <1>0 DEF EntryBuy, EntryFilled, EntryNotFilled, GapInv, Records, Recorded
<1>4. CASE EntryBuy
  <2>1. PICK i \in OrderId, q \in 1 .. MaxQty :
          /\ Place(i, NewOrder("BUY", q, "none", FALSE), "none", Watched)
          /\ confirmedIds' = confirmedIds \ {i}
    BY <1>4 DEF EntryBuy
  <2> DEFINE o == NewOrder("BUY", q, "none", FALSE)
  <2>2. o \in Order /\ o.type = "BUY" /\ o.own /\ o.status = "submitted"
    BY MaxQtyAssumption DEF NewOrder, Order
  <2>3. Place(i, o, "none", Watched)
    BY <2>1
  <2> HIDE DEF o
  <2>4. /\ \A j \in OrderId \ {i} : ord'[j] = ord[j]
        /\ ord'[i].type = "BUY" /\ ord'[i].own
    BY <1>0, <2>2, <2>3, Placed
  <2>5. /\ pc = "entry" /\ pc' = "buySent" /\ stopTrade' = 0
    BY <1>0, <1>1, <1>4 DEF EntryBuy, Goto
  <2>6. Lone'
    BY <1>3, <2>4 DEF PeakInv, Lone, Sells, Open
  <2>7. Landed'
    BY <2>4, <2>5 DEF PeakInv, Landed, PendingAt
  <2>8. NoPeak'
    BY <1>2, <2>1, <2>4 DEF NoPeak, Peaked
  <2>9. Kept' /\ Snapped' /\ Replaced' /\ Refused'
    BY <2>5, <2>8 DEF NoPeak, Kept, Snapped, Replaced, Replacing, Refused, ForConfirm,
       AuditLabels
  <2>10. QED
    BY <2>6, <2>7, <2>9 DEF PeakInv
<1>5. CASE EntryFilled
  <2>1. /\ pc = "buySent" /\ pc' = "stopPlace" /\ stopTrade' = 0 /\ want' = want
        /\ st' = [ tracked |-> TRUE, qty |-> want, prot |-> "pending", stopSet |-> TRUE,
                   stopId |-> 0, pendingExit |-> FALSE ]
        /\ UNCHANGED << ord, confirmedIds >>
    BY <1>0, <1>1, <1>5 DEF EntryFilled, Save, Goto, brokerVars
  <2>2. NoPeak' /\ Lone'
    BY <1>2, <2>1, PeakWanes, WanesUnchanged DEF PeakInv
  <2>3. Landed'
    BY <2>1 DEF PeakInv, Landed, PendingAt
  <2>4. Kept' /\ Snapped' /\ Replaced' /\ Refused'
    BY <2>1, <2>2 DEF NoPeak, Kept, Snapped, Replaced, Replacing, Refused, ForConfirm,
       AuditLabels
  <2>5. QED
    BY <2>2, <2>3, <2>4 DEF PeakInv
<1>6. CASE EntryNotFilled
  <2>1. /\ pc = "buySent" /\ pc' = "noFill" /\ RequestCancel({cur}) /\ stopTrade' = 0
        /\ UNCHANGED << st, confirmedIds >>
    BY <1>0, <1>1, <1>6 DEF EntryNotFilled, Gentle, Fault, Goto
  <2>2. Wanes
    BY <1>0, <2>1, WanesRequest
  <2>3. \A i \in OrderId : ord[i].type = "TRAIL" => ord'[i].status # "pendingCancel"
    <3>1. \A i \in OrderId : ord'[i].status # ord[i].status => i = cur
      BY <1>0, <2>1, WanesRequest
    <3>2. \A i \in OrderId : ord[i].type = "TRAIL" => ord[i].status # "pendingCancel"
      BY <2>1 DEF PeakInv, Landed, PendingAt
    <3>3. ord[cur].type = "BUY"
      BY <2>1 DEF Inv, Separate
    <3>4. QED
      BY <3>1, <3>2, <3>3
  <2>4. \A i \in OrderId : ~(Peaked(i)')
    BY <1>2, <2>1, <2>2, PeakWanes DEF NoPeak
  <2>5. \A i \in OrderId : ord'[i].type = "TRAIL" => ord'[i].status # "pendingCancel"
    BY <2>2, <2>3 DEF Wanes
  <2>6. QED
    BY <1>0, <2>1, <2>2, <2>4, <2>5, Resettles DEF AuditLabels
<1>7. QED
  BY <1>4, <1>5, <1>6

\* The stop after a fill is refused only if the position is gone.
LEMMA StopPlacePeak ==
  ASSUME Inv, OrphanInv, GapInv, PeakInv, Gentle, "entryStopReject" \notin Faults, StopPlace
  PROVE  PeakInv'
<1>0. /\ TypeOK /\ BrokerTypeOK /\ SellsGone
      /\ want \in 0 .. MaxQty /\ held \in 0 .. MaxQty
  BY DEF StopPlace, Inv, TypeOK, BrokerTypeOK, GapInv, Working, AtStop
<1>1. PICK i \in OrderId :
        /\ Place(i, NewOrder("TRAIL", want, GateNow, FALSE), "entryStopReject", Watched)
        /\ stopTrade' = i
        /\ confirmedIds' = confirmedIds \ {i}
  BY DEF StopPlace
<1>2. /\ pc = "stopPlace" /\ pc' = "stopSent"
      /\ UNCHANGED << held, st, ret, want >>
  BY DEF StopPlace, Goto
<1> DEFINE o == NewOrder("TRAIL", want, GateNow, FALSE)
<1>3. o \in Order /\ o.type = "TRAIL" /\ o.qty = want /\ o.own /\ o.status = "submitted"
  BY <1>0 DEF NewOrder, Order, GateNow
<1>4. Place(i, o, "entryStopReject", Watched)
  BY <1>1
<1> HIDE DEF o
<1>5. /\ \A j \in OrderId \ {i} : ord'[j] = ord[j]
      /\ ord'[i].type = "TRAIL" /\ ord'[i].own
      /\ ord'[i].status \in {"submitted", "cancelled"}
  BY <1>0, <1>3, <1>4, Placed
<1>6. \A j \in OrderId : ~Sells(j)
  BY <1>0 DEF PeakInv, Lone, SellsGone, Sells
<1>7. ord'[i].status = "cancelled" => held = 0
  <2> SUFFICES ASSUME ord'[i].status = "cancelled" PROVE held = 0
    OBVIOUS
  <2>1. Oversells(o)
    BY <1>0, <1>3, <1>4, PlacedOrRefused DEF Fault
  <2>2. want > held
    BY <1>3, <1>6, <2>1 DEF Oversells, OpenSells, Sells
  <2>3. QED
    BY <1>0, <1>2, <2>2 DEF GapInv, Records, Recorded
<1>8. Lone'
  BY <1>5, <1>6 DEF PeakInv, Lone, Sells, Open
<1>9. Landed'
  BY <1>2, <1>5 DEF PeakInv, Landed, PendingAt
<1>10. NoPeak'
  BY <1>1, <1>5, <1>6 DEF NoPeak, Peaked, Sells, Open
<1>11. Refused'
  <2>1. want = st.qty
    BY <1>2 DEF PeakInv, Refused
  <2>2. QED
    BY <1>1, <1>2, <1>7, <2>1 DEF Refused, ForConfirm, AuditLabels
<1>12. Kept' /\ Snapped' /\ Replaced'
  BY <1>2, <1>10 DEF NoPeak, Kept, Snapped, Replaced, Replacing
<1>13. QED
  BY <1>8, <1>9, <1>11, <1>12 DEF PeakInv

\* To the audit that is called for a stop that is not there.
LEMMA RefusedPeak ==
  ASSUME Inv, OrphanInv, GapInv, PeakInv, StopPreflightFails \/ StopRejected
  PROVE  PeakInv'
<1>1. /\ pc \in {"stopPlace", "stopSent"} /\ pc' = "audit" /\ ret' = "confirm2"
      /\ UNCHANGED << held, ord, st, stopTrade, want, confirmedIds >>
  BY DEF StopPreflightFails, StopRejected, Call, brokerVars, locals
<1>2. Lone' /\ (NoPeak => NoPeak')
  BY <1>1, WanesUnchanged, PeakWanes DEF PeakInv
<1>3. Landed'
  BY <1>1 DEF PeakInv, Landed, PendingAt
<1>4. Kept'
  BY <1>1 DEF PeakInv, Kept, Keeps, Peaked
<1>5. Snapped' /\ Replaced'
  BY <1>1 DEF Snapped, Replaced, Replacing
<1>6. stopTrade # 0 => held = 0 /\ NoPeak
  <2>1. CASE StopPreflightFails
    BY <2>1 DEF StopPreflightFails, PeakInv, Refused, ForConfirm, AuditLabels
  <2>2. CASE StopRejected
    <3>1. pc = "stopSent" /\ ord[stopTrade].status = "cancelled"
      BY <2>2 DEF StopRejected
    <3>2. NoPeak
      BY <3>1 DEF PeakInv, Lone, GapInv, Working, AtStop, NoPeak, Peaked, Sells, Open
    <3>3. QED
      BY <3>1, <3>2 DEF PeakInv, Refused
  <2>3. QED
    BY <2>1, <2>2
<1>7. want = st.qty
  BY <1>1 DEF PeakInv, Refused
<1>8. Refused'
  BY <1>1, <1>2, <1>6, <1>7 DEF Refused, ForConfirm, AuditLabels
<1>9. QED
  BY <1>2, <1>3, <1>4, <1>5, <1>8 DEF PeakInv

\* The verdicts on the stop after a fill.
LEMMA VerdictPeak ==
  ASSUME Inv, OrphanInv, GapInv, PeakInv,
         StopAccepted \/ StopConfirmedAfterAudit \/ StopUnconfirmedAfterAudit
  PROVE  PeakInv'
<1>0. /\ TypeOK /\ st \in Position
      /\ pc \in {"stopSent", "confirm2"} /\ pc' = "others" /\ stopTrade' = 0
      /\ UNCHANGED << held, ord, confirmedIds >>
  BY DEF StopAccepted, StopConfirmedAfterAudit, StopUnconfirmedAfterAudit, Inv, TypeOK,
     Goto, brokerVars
<1>1. Wanes /\ \A i \in OrderId : Peaked(i)' => Peaked(i)
  BY <1>0, WanesUnchanged, PeakWanes
<1>2. \A i \in OrderId : ord'[i].type = "TRAIL" => ord'[i].status # "pendingCancel"
  BY <1>0 DEF PeakInv, Landed, PendingAt
<1>3. ASSUME NEW i \in OrderId, Peaked(i)
      PROVE  Keeps(st', i)
  <2>1. Keeps(st, i) /\ (held > 0 => held = ord[i].qty) /\ ord[i].own /\ Sells(i)
    BY <1>0, <1>3 DEF PeakInv, Kept, Lone, Peaked, Sells, Open
  <2>2. CASE StopAccepted
    <3>1. st' = Confirmed(st, stopTrade) /\ pc = "stopSent"
      BY <2>2 DEF StopAccepted, Save
    <3>2. i = stopTrade
      BY <2>1, <3>1 DEF GapInv, Working, AtStop
    <3>3. QED
      BY <1>0, <2>1, <3>1, <3>2 DEF Keeps, Confirmed, Position
  <2>3. CASE pc = "confirm2"
    <3>1. stopTrade = 0
      BY <1>3, <2>3 DEF PeakInv, Refused, ForConfirm, NoPeak
    <3>2. want = st.qty
      BY <2>3 DEF PeakInv, Refused, ForConfirm
    <3>3. Open(i) /\ Matching(i, want)
      BY <1>3, <2>1, <3>2 DEF Keeps, Peaked, Open, Matching
    <3>4. StopConfirmedAfterAudit
      BY <2>3, <3>3 DEF StopAccepted, StopUnconfirmedAfterAudit
    <3>5. st' = [st EXCEPT !.prot = "confirmed",
                           !.stopId = IF stopTrade # 0 THEN stopTrade ELSE @]
      BY <3>4 DEF StopConfirmedAfterAudit, Save
    <3>6. st' = [st EXCEPT !.prot = "confirmed"]
      BY <1>0, <2>1, <3>1, <3>5 DEF Position
    <3>7. QED
      BY <1>0, <2>1, <3>6 DEF Keeps, Position
  <2>4. QED
    BY <1>0, <2>2, <2>3 DEF StopConfirmedAfterAudit, StopUnconfirmedAfterAudit
<1>4. QED
  BY <1>0, <1>1, <1>2, <1>3, Resettles DEF AuditLabels

LEMMA EntryPeak ==
  ASSUME Inv, OrphanInv, GapInv, PeakInv, Gentle, "entryStopReject" \notin Faults, Entry
  PROVE  PeakInv'
<1>1. ASSUME NoFillSync \/ OthersNotFilled PROVE PeakInv'
  BY <1>1, SyncPeak DEF NoFillSync, OthersNotFilled, SyncSites, Returns
<1>2. ~StopPlaceRaises
  BY DEF StopPlaceRaises, Gentle, Fault
<1>3. QED
  BY <1>1, <1>2, MovesPeak, BuyPeak, StopPlacePeak, RefusedPeak, VerdictPeak DEF Entry

\* Within an audit, what is known of the stop it was called for stays known.
LEMMA AuditRefused ==
  ASSUME TypeOK, PeakInv, pc \in AuditLabels,
         UNCHANGED << held, ret, want, stopTrade >>, st'.qty = st.qty,
         pc' \in AuditLabels \cup {ret},
         ForConfirm /\ stopTrade # 0 =>
           NoPeak' /\ (pc' = "audPlaced" => ord'[neu'].status = "cancelled")
  PROVE  Refused'
<1>1. ret \in Returns
  BY DEF TypeOK
<1>2. pc' # "stopPlace" /\ pc' # "stopSent" /\ (ForConfirm' <=> ForConfirm)
  BY <1>1 DEF Returns, ForConfirm, AuditLabels
<1>3. /\ stopTrade # 0 => ForConfirm
      /\ ForConfirm => want = st.qty
      /\ ForConfirm /\ stopTrade # 0 => held = 0
  BY DEF PeakInv, Refused, AuditLabels
<1>4. (ForConfirm /\ stopTrade # 0)' => ForConfirm /\ stopTrade # 0
  BY <1>2
<1>5. (stopTrade # 0 => pc = "stopSent" \/ ForConfirm)'
  BY <1>2, <1>3
<1>6. (pc \in {"stopPlace", "stopSent"} \/ ForConfirm => want = st.qty)'
  BY <1>2, <1>3
<1>7. (pc = "stopSent" => (ord[stopTrade].status = "cancelled" => held = 0))'
  BY <1>2
<1>8. (ForConfirm /\ stopTrade # 0 =>
         held = 0 /\ NoPeak /\ (pc = "audPlaced" => ord[neu].status = "cancelled"))'
  BY <1>3, <1>4
<1>9. QED
  BY <1>5, <1>6, <1>7, <1>8 DEF Refused

\* The beginning of an audit, and its end where there is nothing to do.
LEMMA ScanPeak ==
  ASSUME Inv, OrphanInv, GapInv, PeakInv, AuditScan \/ AuditSkip
  PROVE  PeakInv'
<1>0. /\ TypeOK /\ ret \in Returns /\ pc \in {"audit", "audSym"}
      /\ UNCHANGED << held, ord, st, ret, want, stopTrade, confirmedIds >>
      /\ \/ pc = "audit" /\ pc' = "audSym" /\ snap' = OpenSells
         \/ pc' = ret
  BY DEF Inv, TypeOK, AuditScan, AuditSkip, brokerVars, Goto
<1>1. Lone' /\ (NoPeak => NoPeak')
  BY <1>0, WanesUnchanged, PeakWanes DEF PeakInv
<1>2. Landed'
  BY <1>0 DEF PeakInv, Landed, PendingAt
<1>3. Kept'
  BY <1>0 DEF Returns, PeakInv, Kept, Keeps, Peaked
<1>4. Snapped'
  <2>1. CASE pc = "audit" /\ pc' = "audSym" /\ snap' = OpenSells
    <3>1. \A i \in snap' : i \in OrderId /\ Sells(i)
      BY <2>1 DEF OpenSells, Sells
    <3>2. \A i, j \in snap' : i = j
      BY <3>1 DEF PeakInv, Lone
    <3>3. \A i \in OrderId : Peaked(i) => i \in snap' /\ Keeps(st, i)
      BY <2>1 DEF PeakInv, Kept, Peaked, OpenSells, Open
    <3>4. ASSUME NEW i \in snap', i \in confirmedIds, ord[i].type = "TRAIL"
          PROVE  Peaked(i)
      BY <2>1, <3>1, <3>4 DEF PeakInv, Landed, PendingAt, Peaked, Sells, Open
    <3>5. QED
      BY <1>0, <3>1, <3>2, <3>3, <3>4 DEF Snapped, Keeps, Peaked
  <2>2. CASE pc' = ret
    BY <1>0, <2>2 DEF Returns, Snapped
  <2>3. QED
    BY <1>0, <2>1, <2>2
<1>5. Replaced'
  BY <1>0 DEF Returns, Replaced, Replacing
<1>6. Refused'
  <2>1. ForConfirm /\ stopTrade # 0 => NoPeak'
    BY <1>1 DEF PeakInv, Refused
  <2>2. pc \in AuditLabels /\ pc' \in AuditLabels \cup {ret} /\ pc' # "audPlaced"
        /\ st'.qty = st.qty
    BY <1>0 DEF Returns, AuditLabels
  <2>3. QED
    BY <1>0, <2>1, <2>2, AuditRefused
<1>7. QED
  BY <1>1, <1>2, <1>3, <1>4, <1>5, <1>6 DEF PeakInv

\* What an audit cancels is not the confirmed order, or it is all there is.
LEMMA CancelsPeak ==
  ASSUME Inv, OrphanInv, GapInv, PeakInv, AuditSweep \/ AuditConvert \/ AuditRegate
  PROVE  PeakInv'
<1>0. /\ TypeOK /\ BrokerTypeOK /\ st \in Position /\ snap \subseteq OrderId
      /\ pc \in {"audSym", "audKeep"} /\ pc' \in {"audKeep", "audPlace", "gateCancelled"}
      /\ UNCHANGED << held, st, ret, want, stopTrade, confirmedIds >>
  BY DEF Inv, TypeOK, AuditSweep, AuditConvert, AuditRegate, Goto
<1>1. PICK S \in SUBSET OrderId : RequestCancel(S) \/ ord' = ord
  BY <1>0 DEF AuditSweep, AuditConvert, AuditRegate
<1>2. Wanes
  BY <1>0, <1>1, WanesRequest, WanesUnchanged
<1>3. /\ Lone' /\ (NoPeak => NoPeak')
      /\ \A i \in OrderId : Peaked(i)' => Peaked(i) /\ ord'[i].qty = ord[i].qty
  BY <1>0, <1>2, PeakWanes DEF PeakInv
<1>4. Landed'
  BY <1>0 DEF Landed, PendingAt
<1>5. Kept'
  BY <1>0, <1>3 DEF PeakInv, Kept, Keeps
<1>6. Snapped' /\ Replaced'
  <2>1. CASE AuditSweep
    <3>1. /\ pc = "audSym" /\ pc' = "audKeep" /\ ~Skipped
          /\ snap' = { i \in snap : Matching(i, st.qty) }
      BY <2>1 DEF AuditSweep, Goto
    <3>2. \A i \in OrderId : Peaked(i) => i \in snap'
      BY <3>1 DEF PeakInv, Snapped, Kept, Keeps, Peaked, Matching
    <3>3. Snapped'
      BY <1>0, <1>2, <1>3, <3>1, <3>2 DEF PeakInv, Snapped, Wanes
    <3>4. Replaced'
      BY <1>0, <3>1 DEF Replaced, Replacing, Skipped, Position
    <3>5. QED
      BY <3>3, <3>4
  <2>2. CASE AuditConvert \/ AuditRegate
    <3>1. /\ pc = "audKeep" /\ pc' \in {"audPlace", "gateCancelled"} /\ RequestCancel(snap)
      BY <2>2 DEF AuditConvert, AuditRegate, Goto
    <3>2. \A i \in OrderId : ord[i].own /\ i \in snap => ord'[i].status # "submitted"
      BY <1>0, <3>1, WanesRequest
    <3>3. \A i \in OrderId : Peaked(i) => i \in snap /\ ord[i].own
      BY <3>1 DEF PeakInv, Snapped, Lone, Peaked, Open
    <3>4. NoPeak'
      BY <1>3, <3>2, <3>3 DEF NoPeak, Peaked
    <3>5. QED
      BY <1>0, <3>1, <3>4 DEF PeakInv, Snapped, Replaced, Replacing
  <2>3. QED
    BY <2>1, <2>2
<1>7. Refused'
  <2>1. ForConfirm /\ stopTrade # 0 => NoPeak'
    BY <1>3 DEF PeakInv, Refused
  <2>2. pc \in AuditLabels /\ pc' \in AuditLabels \cup {ret} /\ pc' # "audPlaced"
        /\ st'.qty = st.qty
    BY <1>0 DEF AuditLabels
  <2>3. QED
    BY <1>0, <2>1, <2>2, AuditRefused
<1>8. QED
  BY <1>3, <1>4, <1>5, <1>6, <1>7 DEF PeakInv

\* The steps of an audit that only move on, to place an order or to restore one.
LEMMA AuditMovesPeak ==
  ASSUME Inv, OrphanInv, GapInv, PeakInv, Gentle,
         NoneLeft \/ GateReplaceRaises \/ GateReplaceRejected
  PROVE  PeakInv'
<1>0. /\ TypeOK /\ st \in Position /\ pc \in {"audKeep", "gateCancelled", "gatePlaced"}
      /\ pc' \in {"audPlace", "gateRestore"}
      /\ UNCHANGED << held, ord, st, ret, want, stopTrade, confirmedIds >>
  BY DEF Inv, TypeOK, NoneLeft, GateReplaceRaises, GateReplaceRejected, brokerVars, locals, Goto
<1>1. NoPeak
  BY DEF NoneLeft, GateReplaceRaises, GateReplaceRejected, PeakInv, Snapped, Replaced,
     Replacing, NoPeak
<1>2. Lone' /\ NoPeak'
  BY <1>0, <1>1, WanesUnchanged, PeakWanes DEF PeakInv
<1>3. Landed'
  <2>1. CASE pc = "gatePlaced"
    BY <1>0, <2>1 DEF PeakInv, Landed, PendingAt
  <2>2. CASE pc # "gatePlaced"
    <3>1. CancelsLanded
      BY <2>2 DEF NoneLeft, GateReplaceRaises, GateReplaceRejected
    <3>2. \A i \in OrderId : ord[i].status # "pendingCancel"
      BY <3>1, NonePending DEF PeakInv
    <3>3. QED
      BY <1>0, <3>2 DEF Landed
  <2>3. QED
    BY <2>1, <2>2
<1>4. st.qty > 0
  BY <1>0 DEF PeakInv, Replaced, Replacing
<1>5. Kept' /\ Snapped' /\ Replaced'
  BY <1>0, <1>2, <1>4 DEF Kept, NoPeak, Snapped, Replaced
<1>6. Refused'
  <2>1. pc \in AuditLabels /\ pc' \in AuditLabels \cup {ret} /\ pc' # "audPlaced"
        /\ st'.qty = st.qty
    BY <1>0 DEF AuditLabels
  <2>2. QED
    BY <1>0, <1>2, <2>1, AuditRefused
<1>7. QED
  BY <1>2, <1>3, <1>5, <1>6 DEF PeakInv

\* A TRAIL of an audit is refused while another SELL works, or nothing is held.
LEMMA PlacesPeak ==
  ASSUME Inv, OrphanInv, GapInv, PeakInv, Gentle, GateReplace \/ GateRestore \/ AuditPlace
  PROVE  PeakInv'
<1>0. /\ TypeOK /\ BrokerTypeOK /\ st \in Position /\ LocalsOK /\ CancelsLanded
      /\ held \in 0 .. MaxQty /\ \A j \in OrderId : ord[j] \in Order
      /\ pc \in {"gateCancelled", "gateRestore", "audPlace"}
      /\ pc' \in {"gatePlaced", "gateRestored", "audPlaced"}
      /\ UNCHANGED << held, st, ret, stopTrade, want >>
  BY DEF Inv, TypeOK, BrokerTypeOK, GateReplace, GateRestore, AuditPlace, PlaceCopy, Goto
<1>1. PICK i \in OrderId, gate \in {"none", "today", "stale"}, dollar \in BOOLEAN :
        /\ Place(i, NewOrder("TRAIL", st.qty, gate, dollar), "stopReject", Watched)
        /\ neu' = i
        /\ confirmedIds' = confirmedIds \ {i}
  <2>1. GateNow \in {"none", "today", "stale"} /\ FALSE \in BOOLEAN
    BY DEF GateNow
  <2>2. CASE AuditPlace
    BY <2>1, <2>2 DEF AuditPlace
  <2>3. CASE GateReplace \/ GateRestore
    <3>1. ord[cur].dollar \in BOOLEAN
      BY <1>0, <2>3 DEF GateReplace, GateRestore, LocalsOK, Order
    <3>2. QED
      BY <2>1, <2>3, <3>1 DEF GateReplace, GateRestore, PlaceCopy
  <2>4. QED
    BY <2>2, <2>3
<1> DEFINE o == NewOrder("TRAIL", st.qty, gate, dollar)
<1>2. o \in Order /\ o.type = "TRAIL" /\ o.qty = st.qty /\ o.own /\ o.status = "submitted"
  BY <1>0 DEF NewOrder, Order, Position
<1>3. Place(i, o, "stopReject", Watched)
  BY <1>1
<1> HIDE DEF o
<1>4. /\ \A j \in OrderId \ {i} : ord'[j] = ord[j]
      /\ ord'[i].type = "TRAIL" /\ ord'[i].own
      /\ ord'[i].status \in {"submitted", "cancelled"}
  BY <1>0, <1>2, <1>3, Placed
<1>5. Oversells(o) => ord'[i].status = "cancelled"
  BY <1>0, <1>2, <1>3, PlacedOrRefused
<1>6. st.qty \in Nat \ {0}
  BY <1>0 DEF Position, PeakInv, Replaced, Replacing
<1>7. ASSUME NEW j \in OrderId, Sells(j)
      PROVE  ord'[i].status = "cancelled"
  <2>1. j \in OpenSells /\ ord[j].qty >= held /\ ord[j].qty \in 0 .. MaxQty
    BY <1>0, <1>7 DEF Sells, OpenSells, GapInv, WholeBook, Order
  <2>2. ord[j].qty + o.qty > held
    BY <1>0, <1>2, <1>6, <2>1
  <2>3. QED
    BY <1>2, <1>5, <2>1, <2>2 DEF Oversells
<1>8. held = 0 => ord'[i].status = "cancelled"
  BY <1>2, <1>5, <1>6 DEF Oversells
<1>9. NoPeak'
  <2>1. NoPeak
    BY <1>0 DEF PeakInv, Replaced, Replacing
  <2>2. QED
    BY <1>1, <1>4, <2>1 DEF NoPeak, Peaked
<1>10. Lone'
  BY <1>4, <1>7 DEF PeakInv, Lone, Sells, Open
<1>11. Landed'
  <2>1. \A j \in OrderId : ord[j].status # "pendingCancel"
    BY <1>0, NonePending DEF PeakInv
  <2>2. QED
    BY <1>4, <2>1 DEF Landed
<1>12. Kept' /\ Snapped' /\ Replaced'
  BY <1>0, <1>6, <1>9 DEF Kept, NoPeak, Snapped, Replaced
<1>13. Refused'
  <2>1. ForConfirm /\ stopTrade # 0 => held = 0
    BY DEF PeakInv, Refused
  <2>2. pc \in AuditLabels /\ pc' \in AuditLabels \cup {ret} /\ st'.qty = st.qty
    BY <1>0 DEF AuditLabels
  <2>3. QED
    BY <1>0, <1>1, <1>8, <1>9, <2>1, <2>2, AuditRefused
<1>14. QED
  BY <1>10, <1>11, <1>12, <1>13 DEF PeakInv

\* The end of an audit: what it confirms, if it works, is the one peak from there on.
LEMMA EndsPeak ==
  ASSUME Inv, OrphanInv, PeakInv, pc \in AuditLabels, NEW i \in OrderId,
         UNCHANGED << held, ord, ret, want, stopTrade >>, pc' = ret,
         \A j \in OrderId : ord[j].type = "TRAIL" => ord[j].status # "pendingCancel",
         st'.qty = st.qty,
         \A j \in OrderId : Peaked(j)' => j = i /\ Keeps(st', i),
         held > 0 => held = st.qty,
         ForConfirm /\ stopTrade # 0 => ~(Peaked(i)')
  PROVE  PeakInv'
<1>0. TypeOK /\ ret \in Returns
  BY DEF Inv, TypeOK
<1>1. Lone' /\ Landed'
  BY DEF PeakInv, Lone, Landed, Sells, Open
<1>2. Kept'
  BY <1>0 DEF Returns, Kept, Keeps
<1>3. Snapped' /\ Replaced'
  BY <1>0 DEF Returns, Snapped, Replaced, Replacing
<1>4. Refused'
  <2>1. ForConfirm /\ stopTrade # 0 => NoPeak'
    BY DEF NoPeak
  <2>2. pc' # "audPlaced" /\ pc' \in AuditLabels \cup {ret}
    BY <1>0 DEF Returns
  <2>3. QED
    BY <1>0, <2>1, <2>2, AuditRefused
<1>5. QED
  BY <1>1, <1>2, <1>3, <1>4 DEF PeakInv

\* The verdict of an audit on the order i, when no other can be a peak.
LEMMA JudgePeak ==
  ASSUME Inv, OrphanInv, GapInv, PeakInv, pc \in Deep, NEW i \in OrderId, Judge(i), ord' = ord,
         \A j \in OrderId : ord[j].type = "TRAIL" => ord[j].status # "pendingCancel",
         \A j \in OrderId : Peaked(j) => j = i,
         ret = "confirm2" => ~(ord[i].own /\ Open(i))
  PROVE  PeakInv'
<1>0. /\ TypeOK /\ st \in Position /\ st.tracked /\ held \in 0 .. MaxQty
      /\ pc \in AuditLabels
      /\ UNCHANGED << held, ret, want, stopTrade >> /\ pc' = ret
  BY DEF Inv, TypeOK, BrokerTypeOK, OrphanInv, Positioned, Deep, Judge, Goto
<1>1. held > 0 => held = st.qty
  BY <1>0 DEF Deep, AuditLabels, GapInv, Records, Recorded
<1>2. st'.qty = st.qty
  BY <1>0 DEF Judge, Save, Confirmed, Unconfirmed, Position
<1>3. \A j \in OrderId : Peaked(j)' => j = i
  BY DEF Judge, Peaked
<1>4. Peaked(i)' => Keeps(st', i)
  <2> SUFFICES ASSUME Peaked(i)' PROVE Keeps(st', i)
    OBVIOUS
  <2>1. ord[i].type = "TRAIL" /\ ord[i].status = "submitted"
    BY DEF Peaked
  <2>2. Matching(i, st.qty)
    <3>1. CASE Peaked(i)
      BY <1>0, <3>1 DEF PeakInv, Kept, Keeps, Peaked, Matching, AuditLabels
    <3>2. CASE ~Peaked(i)
      BY <2>1, <3>2 DEF Judge, Peaked
    <3>3. QED
      BY <3>1, <3>2
  <2>3. st' = Confirmed(st, i) /\ ord[i].qty = st.qty
    BY <2>2 DEF Judge, Save, Matching
  <2>4. QED
    BY <1>0, <2>3 DEF Keeps, Confirmed, Position
<1>5. ForConfirm => ~(Peaked(i)')
  BY <1>0 DEF PeakInv, Lone, ForConfirm, Peaked, Open, AuditLabels, Deep
<1>6. QED
  BY <1>0, <1>1, <1>2, <1>3, <1>4, <1>5, EndsPeak

LEMMA AuditEndsPeak ==
  ASSUME Inv, OrphanInv, GapInv, PeakInv, Gentle,
         AuditKeep \/ GateReplaced \/ GateRestoreRaises \/ GateRestored \/ AuditCannotPlace
           \/ AuditPlaced
  PROVE  PeakInv'
<1>0. /\ TypeOK /\ BrokerTypeOK /\ st \in Position /\ st.tracked /\ held \in 0 .. MaxQty
      /\ pc \in Deep /\ pc \in AuditLabels /\ LocalsOK /\ snap \subseteq OrderId
      /\ ord \in [OrderId -> Order]
  BY DEF Inv, TypeOK, BrokerTypeOK, OrphanInv, Positioned, Deep, AuditLabels, AuditKeep,
     GateReplaced, GateRestoreRaises, GateRestored, AuditCannotPlace, AuditPlaced
<1>1. CASE AuditKeep
  <2>1. PICK i \in snap : RequestCancel(snap \ {i}) /\ Judge(i)
    BY <1>1 DEF AuditKeep
  <2>2. i \in OrderId /\ pc = "audKeep" /\ snap \ {i} = {}
    BY <1>0, <1>1 DEF AuditKeep, PeakInv, Snapped
  <2>3. ord' = ord
    BY <1>0, <2>1, <2>2 DEF RequestCancel
  <2>4. \A j \in OrderId : ord[j].status # "pendingCancel"
    BY <1>1, NonePending DEF AuditKeep, PeakInv
  <2>5. \A j \in OrderId : Peaked(j) => j = i
    BY <2>2 DEF PeakInv, Snapped
  <2>6. ret = "confirm2" => ~ord[i].own
    BY <2>2 DEF GapInv, Working, AtConfirm
  <2>7. QED
    BY <1>0, <2>1, <2>2, <2>3, <2>4, <2>5, <2>6, JudgePeak
<1>2. CASE GateReplaced \/ GateRestoreRaises \/ GateRestored
  <2>1. ord' = ord /\ pc \in {"gatePlaced", "gateRestore", "gateRestored"}
    BY <1>2 DEF GateReplaced, GateRestoreRaises, GateRestored
  <2>2. PICK i \in OrderId : Judge(i)
    <3>1. cur \in OrderId /\ (pc \in {"gatePlaced", "gateRestored"} => neu \in OrderId)
      BY <1>0, <2>1 DEF LocalsOK
    <3>2. CASE GateReplaced
      BY <3>1, <3>2 DEF GateReplaced
    <3>3. CASE GateRestoreRaises
      BY <3>1, <3>3 DEF GateRestoreRaises
    <3>4. CASE GateRestored
      BY <3>1, <3>4 DEF GateRestored
    <3>5. QED
      BY <1>2, <3>2, <3>3, <3>4
  <2>3. \A j \in OrderId : ord[j].type = "TRAIL" => ord[j].status # "pendingCancel"
    BY <2>1 DEF PeakInv, Landed, PendingAt
  <2>4. \A j \in OrderId : ~Peaked(j)
    BY <2>1 DEF PeakInv, Replaced, Replacing, NoPeak
  <2>5. ret # "confirm2"
    BY <2>1 DEF GapInv, Working, AtConfirm
  <2>6. QED
    BY <1>0, <2>1, <2>2, <2>3, <2>4, <2>5, JudgePeak
<1>3. CASE AuditCannotPlace
  <2>1. /\ pc = "audPlace" /\ st' = Unconfirmed(st) /\ pc' = ret
        /\ UNCHANGED << held, ord, ret, want, stopTrade, confirmedIds >>
    BY <1>3 DEF AuditCannotPlace, Save, Goto
  <2>2. \A j \in OrderId : ord[j].status # "pendingCancel"
    BY <1>3, NonePending DEF AuditCannotPlace, PeakInv
  <2>3. \A j \in OrderId : ~(Peaked(j)')
    BY <2>1 DEF PeakInv, Replaced, Replacing, NoPeak, Peaked
  <2>4. st'.qty = st.qty
    BY <1>0, <2>1 DEF Unconfirmed, Position
  <2>5. held > 0 => held = st.qty
    BY <1>0 DEF Deep, AuditLabels, GapInv, Records, Recorded
  <2>6. 1 \in OrderId
    BY MaxOrdersAssumption DEF OrderId
  <2>7. QED
    BY <1>0, <2>1, <2>2, <2>3, <2>4, <2>5, <2>6, EndsPeak
<1>4. CASE AuditPlaced
  <2>1. /\ pc = "audPlaced" /\ pc' = ret /\ neu \in OrderId
        /\ UNCHANGED << held, ord, ret, want, stopTrade >>
    BY <1>0, <1>4 DEF AuditPlaced, LocalsOK, Goto, brokerVars
  <2>2. \A j \in OrderId : ord[j].type = "TRAIL" => ord[j].status # "pendingCancel"
    BY <2>1 DEF PeakInv, Landed, PendingAt
  <2>3. \A j \in OrderId : ~Peaked(j)
    BY <2>1 DEF PeakInv, Replaced, Replacing, NoPeak
  <2>4. ord[neu].qty = st.qty
    BY <2>1 DEF GapInv, Working, AtAudit
  <2>5. held > 0 => held = st.qty
    BY <1>0 DEF Deep, AuditLabels, GapInv, Records, Recorded
  <2>6. CASE ord[neu].status = "cancelled"
    <3>1. st' = [Unconfirmed(st) EXCEPT !.stopId = neu] /\ confirmedIds' = confirmedIds
      BY <1>4, <2>6 DEF AuditPlaced, Save
    <3>2. st'.qty = st.qty
      BY <1>0, <3>1 DEF Unconfirmed, Position
    <3>3. \A j \in OrderId : ~(Peaked(j)')
      BY <2>1, <2>3, <3>1 DEF Peaked
    <3>4. QED
      BY <1>0, <2>1, <2>2, <2>5, <3>2, <3>3, EndsPeak
  <2>7. CASE ord[neu].status # "cancelled"
    <3>1. st' = Confirmed(st, neu) /\ confirmedIds' = confirmedIds \cup {neu}
      BY <1>4, <2>7 DEF AuditPlaced, Save
    <3>2. st'.qty = st.qty /\ Keeps(st', neu)
      BY <1>0, <2>4, <3>1 DEF Confirmed, Keeps, Position
    <3>3. \A j \in OrderId : Peaked(j)' => j = neu
      BY <2>1, <2>3, <3>1 DEF Peaked
    <3>4. ~(ForConfirm /\ stopTrade # 0)
      BY <2>1, <2>7 DEF PeakInv, Refused
    <3>5. QED
      BY <1>0, <2>1, <2>2, <2>5, <3>2, <3>3, <3>4, EndsPeak
  <2>8. QED
    BY <2>6, <2>7
<1>5. QED
  BY <1>1, <1>2, <1>3, <1>4


\* An audit keeps PeakInv.
LEMMA AuditPeak ==
  ASSUME Inv, OrphanInv, GapInv, PeakInv, Gentle, Audit
  PROVE  PeakInv'
BY ScanPeak, CancelsPeak, AuditMovesPeak, PlacesPeak, AuditEndsPeak DEF Audit

\* liquidate keeps PeakInv: it cancels every SELL before it places its own.
LEMMA ExitPeak ==
  ASSUME Inv, OrphanInv, GapInv, PeakInv, Gentle, Exit
  PROVE  PeakInv'
<1>0. /\ TypeOK /\ BrokerTypeOK /\ st \in Position /\ want \in 0 .. MaxQty
      /\ pc \in ExitLabels /\ ret \in {"idle", "entry"}
      /\ UNCHANGED << held, ret, stopTrade >>
  <2>1. pc \in ExitLabels /\ UNCHANGED << held, ret, stopTrade >>
    BY DEF Exit, ExitNoPosition, ExitGone, ExitCancel, ExitDeferred, ExitPlace,
       ExitPlaceRaises, ExitRejected, ExitSettled, ExitFails, ExitLabels, brokerVars, locals
  <2>2. QED
    BY <2>1 DEF Inv, TypeOK, OrphanInv, Positioned
<1>1. stopTrade = 0
  BY <1>0 DEF PeakInv, Refused, ForConfirm, ExitLabels, AuditLabels
<1>2. \A i \in OrderId : Peaked(i) => Keeps(st, i)
  BY <1>0 DEF PeakInv, Kept, ExitLabels
<1>3. CASE ExitNoPosition
  <2>1. RequestCancel(OpenSells) /\ pc' = "exitGone" /\ UNCHANGED << st, confirmedIds >>
    BY <1>3 DEF ExitNoPosition, CancelOrphans, Gentle, Fault, Goto
  <2>2. Wanes
    BY <1>0, <2>1, WanesRequest
  <2>3. \A i \in OrderId : Peaked(i)' => Keeps(st', i)
    BY <1>2, <2>1, <2>2, PeakWanes
  <2>4. QED
    BY <1>0, <1>1, <2>1, <2>2, <2>3, Resettles DEF PendingAt, AuditLabels
<1>4. CASE ExitGone
  <2>1. pc = "exitGone" /\ pc' = ret /\ CancelsLanded /\ UNCHANGED << ord, confirmedIds >>
    BY <1>4 DEF ExitGone, Goto, brokerVars
  <2>2. NoPeak
    BY <2>1, CleanNoPeak DEF OrphanInv, Dropped, PeakInv
  <2>3. \A i \in OrderId : ~(Peaked(i)')
    BY <2>1, <2>2 DEF NoPeak, Peaked
  <2>4. \A i \in OrderId : ord'[i].status # "pendingCancel"
    BY <2>1, NonePending DEF PeakInv
  <2>5. QED
    BY <1>0, <1>1, <2>1, <2>3, <2>4, WanesUnchanged, Resettles DEF AuditLabels
<1>5. CASE ExitCancel
  <2>1. /\ RequestCancel({ i \in OrderId : Open(i) }) \/ ord' = ord
        /\ pc' = "exitWait" /\ UNCHANGED << st, confirmedIds >>
    BY <1>5 DEF ExitCancel, Goto
  <2>2. Wanes
    BY <1>0, <2>1, WanesRequest, WanesUnchanged
  <2>3. \A i \in OrderId : Peaked(i)' => Keeps(st', i)
    BY <1>2, <2>1, <2>2, PeakWanes
  <2>4. QED
    BY <1>0, <1>1, <2>1, <2>2, <2>3, Resettles DEF PendingAt, AuditLabels
<1>6. CASE ExitDeferred \/ ExitPlaceRaises \/ ExitRejected
  <2>1. /\ st' = [st EXCEPT !.pendingExit = FALSE] /\ pc' = "audit"
        /\ UNCHANGED << ord, confirmedIds >>
    BY <1>6 DEF ExitDeferred, ExitPlaceRaises, ExitRejected, ExitFails, Save, Goto
  <2>2. \A i \in OrderId : Peaked(i)' => Keeps(st', i)
    BY <1>0, <1>2, <2>1 DEF Peaked, Keeps, Position
  <2>3. \A i \in OrderId : ord[i].type = "TRAIL" => ord[i].status # "pendingCancel"
    <3>1. CASE ExitDeferred
      BY <3>1, NonePending DEF ExitDeferred, PeakInv
    <3>2. CASE ExitPlaceRaises
      BY <3>2 DEF ExitPlaceRaises, OpenSells, Open
    <3>3. CASE ExitRejected
      BY <3>3 DEF ExitRejected, PeakInv, Landed, PendingAt
    <3>4. QED
      BY <1>6, <3>1, <3>2, <3>3
  <2>4. QED
    BY <1>0, <1>1, <2>1, <2>2, <2>3, WanesUnchanged, Resettles DEF AuditLabels
<1>7. CASE ExitPlace
  <2>1. PICK i \in OrderId :
          /\ Place(i, NewOrder("MKT", want, "none", FALSE), "exitReject", Watched)
          /\ confirmedIds' = confirmedIds \ {i}
    BY <1>7 DEF ExitPlace
  <2>2. OpenSells = {} /\ pc' = "exitSent"
    BY <1>7 DEF ExitPlace, Goto
  <2> DEFINE o == NewOrder("MKT", want, "none", FALSE)
  <2>3. o \in Order /\ o.type = "MKT" /\ o.own /\ o.status = "submitted"
    BY <1>0 DEF NewOrder, Order
  <2>4. Place(i, o, "exitReject", Watched)
    BY <2>1
  <2> HIDE DEF o
  <2>5. /\ \A j \in OrderId \ {i} : ord'[j] = ord[j]
        /\ ord'[i].type = "MKT" /\ ord'[i].own
    BY <1>0, <2>3, <2>4, Placed
  <2>6. \A j \in OrderId : ~Sells(j)
    BY <2>2 DEF OpenSells, Sells
  <2>7. Lone'
    BY <2>5, <2>6 DEF PeakInv, Lone, Sells, Open
  <2>8. Landed'
    BY <2>5, <2>6 DEF Landed, Sells, Open
  <2>9. NoPeak'
    BY <2>5, <2>6 DEF NoPeak, Peaked, Sells, Open
  <2>10. Kept' /\ Snapped' /\ Replaced' /\ Refused'
    BY <1>0, <1>1, <2>2, <2>9 DEF NoPeak, Kept, Snapped, Replaced, Replacing, Refused,
       ForConfirm, AuditLabels
  <2>11. QED
    BY <2>7, <2>8, <2>10 DEF PeakInv
<1>8. CASE ExitSettled
  <2>1. /\ pc = "exitSent" /\ pc' = ret /\ st' = [st EXCEPT !.pendingExit = TRUE]
        /\ UNCHANGED << ord, confirmedIds >>
    BY <1>8 DEF ExitSettled, Save, Goto
  <2>2. \A i \in OrderId : Peaked(i)' => Keeps(st', i)
    BY <1>0, <1>2, <2>1 DEF Peaked, Keeps, Position
  <2>3. \A i \in OrderId : ord[i].type = "TRAIL" => ord[i].status # "pendingCancel"
    BY <2>1 DEF PeakInv, Landed, PendingAt
  <2>4. QED
    BY <1>0, <1>1, <2>1, <2>2, <2>3, WanesUnchanged, Resettles DEF AuditLabels
<1>9. QED
  BY <1>3, <1>4, <1>5, <1>6, <1>7, <1>8 DEF Exit

\* The broker cancels by itself only what asks for more than is held.
LEMMA CancelledByBroker ==
  ASSUME TypeOK, Gentle, BrokerNext,
         NEW i \in OrderId, ord[i].status = "submitted", ord'[i].status = "cancelled"
  PROVE  ord[i].qty > held /\ held' = held
<1>0. ord \in [OrderId -> Order]
  BY DEF TypeOK, BrokerTypeOK
<1>1. ord' # ord
  OBVIOUS
<1>2. \A j \in OrderId : ~BrokerCancels(j)
  BY DEF BrokerCancels, Gentle, Fault
<1>3. PICK j \in OrderId : FillBuy(j) \/ FillSell(j) \/ RefuseSell(j) \/ AcknowledgeCancel(j)
  BY <1>1, <1>2 DEF BrokerNext, QuantityGrows, OperatorCloses
<1>4. /\ ord' = [ord EXCEPT ![j].status = "filled"]
           \/ ord' = [ord EXCEPT ![j].status = "cancelled"]
  BY <1>3 DEF FillBuy, FillSell, RefuseSell, AcknowledgeCancel
<1>5. i = j
  BY <1>0, <1>4
<1>6. ~FillBuy(j) /\ ~FillSell(j)
  BY <1>0, <1>5 DEF FillBuy, FillSell, Order
<1>7. QED
  BY <1>3, <1>5, <1>6 DEF RefuseSell, AcknowledgeCancel

\* The broker keeps PeakInv.
LEMMA BrokerPeak ==
  ASSUME Inv, OrphanInv, GapInv, PeakInv, Gentle, Broker
  PROVE  PeakInv'
<1>0. /\ TypeOK /\ BrokerTypeOK /\ held \in 0 .. MaxQty /\ want \in 0 .. MaxQty
      /\ BrokerNext
      /\ UNCHANGED << st, disk, pc, ret, neu, stopTrade, snap, want, confirmedIds >>
  BY DEF Inv, TypeOK, BrokerTypeOK, Broker, engineVars, locals
<1>1. Wanes
  BY <1>0, WanesBroker
<1>2. /\ Lone' /\ (NoPeak => NoPeak')
      /\ \A i \in OrderId : Peaked(i)' => Peaked(i) /\ ord'[i].qty = ord[i].qty
  BY <1>0, <1>1, PeakWanes DEF PeakInv
<1>3. /\ NoPeak \/ held' \in {0, held}
      /\ \A i \in OrderId : ord'[i].status = "pendingCancel" => ord[i].status = "pendingCancel"
      /\ stopTrade # 0 /\ held = 0 => held' = 0
  <2>1. CASE \E i \in OrderId : FillBuy(i)
    <3>1. PICK i \in OrderId : FillBuy(i)
      BY <2>1
    <3>2. SellsGone /\ pc \in {"boot", "bootSync", "buySent", "noFill"}
      BY <3>1 DEF FillBuy, GapInv, Buys
    <3>3. \A j \in OrderId : ord'[j] = IF j = i THEN [ord[i] EXCEPT !.status = "filled"]
                                               ELSE ord[j]
      BY <1>0, <3>1 DEF FillBuy, BrokerTypeOK
    <3>4. \A j \in OrderId : ord'[j].status = "pendingCancel" => ord[j].status = "pendingCancel"
      BY <1>0, <3>3 DEF BrokerTypeOK, Order
    <3>5. NoPeak
      BY <3>2, NoSellNoPeak DEF PeakInv
    <3>6. stopTrade = 0
      BY <3>2 DEF PeakInv, Refused, ForConfirm, AuditLabels
    <3>7. QED
      BY <3>4, <3>5, <3>6
  <2>2. CASE \A i \in OrderId : ~FillBuy(i)
    BY <1>0, <2>2, BrokerSells DEF GapInv
  <2>3. QED
    BY <2>1, <2>2
<1>4. Landed'
  BY <1>0, <1>1, <1>3 DEF PeakInv, Landed, Wanes
<1>5. Kept'
  BY <1>0, <1>2, <1>3 DEF PeakInv, Kept, Keeps, NoPeak
<1>6. Snapped' /\ Replaced'
  BY <1>0, <1>1, <1>2 DEF PeakInv, Snapped, Replaced, Wanes, TypeOK
<1>7. Refused'
  <2>1. ForConfirm' <=> ForConfirm
    BY <1>0 DEF ForConfirm
  <2>2. (pc = "stopSent" => (ord[stopTrade].status = "cancelled" => held = 0))'
    <3> SUFFICES ASSUME pc = "stopSent", ord'[stopTrade].status = "cancelled"
                 PROVE  held' = 0
      BY <1>0
    <3>1. /\ stopTrade \in OrderId /\ stopTrade # 0 /\ ord[stopTrade].qty = want
          /\ ord[stopTrade].status \in {"submitted", "filled", "cancelled"}
          /\ held > 0 => want = held
      BY DEF GapInv, Working, AtStop, Records, Recorded, OrderId
    <3>2. CASE ord[stopTrade].status = "cancelled"
      BY <1>3, <3>1, <3>2 DEF PeakInv, Refused
    <3>3. CASE ord[stopTrade].status = "submitted"
      <4>1. want > held /\ held' = held
        BY <1>0, <3>1, <3>3, CancelledByBroker
      <4>2. QED
        BY <1>0, <3>1, <4>1
    <3>4. CASE ord[stopTrade].status = "filled"
      BY <1>1, <3>1, <3>4 DEF Wanes
    <3>5. QED
      BY <3>1, <3>2, <3>3, <3>4
  <2>3. (ForConfirm /\ stopTrade # 0 =>
           held = 0 /\ NoPeak /\ (pc = "audPlaced" => ord[neu].status = "cancelled"))'
    <3> SUFFICES ASSUME ForConfirm, stopTrade # 0
                 PROVE  held' = 0 /\ NoPeak' /\ (pc = "audPlaced" => ord'[neu].status = "cancelled")
      BY <1>0, <2>1
    <3>1. held = 0 /\ NoPeak /\ (pc = "audPlaced" => ord[neu].status = "cancelled")
      BY DEF PeakInv, Refused
    <3>2. pc = "audPlaced" => neu \in OrderId
      BY DEF Inv, LocalsOK
    <3>3. QED
      BY <1>1, <1>2, <1>3, <3>1, <3>2 DEF Wanes
  <2>4. (stopTrade # 0 => pc = "stopSent" \/ ForConfirm)'
    BY <1>0, <2>1 DEF PeakInv, Refused
  <2>5. (pc \in {"stopPlace", "stopSent"} \/ ForConfirm => want = st.qty)'
    BY <1>0, <2>1 DEF PeakInv, Refused
  <2>6. QED
    BY <2>2, <2>3, <2>4, <2>5 DEF Refused
<1>8. QED
  BY <1>2, <1>4, <1>5, <1>6, <1>7 DEF PeakInv

\* The clock and a crash keep PeakInv.
LEMMA EnvironmentPeak ==
  ASSUME Inv, OrphanInv, GapInv, PeakInv, Gentle,
         Clock \/ ToggleForceExit \/ Crash \/ UNCHANGED vars
  PROVE  PeakInv'
<1>0. BrokerTypeOK /\ (pc \notin {"boot", "syncSave"} => disk = st)
  BY DEF Inv, TypeOK, PersistedAtYields
<1>1. CASE Clock
  <2>1. /\ pc = "idle" /\ pc' = "idle"
        /\ NextPhase \/ NewDay
        /\ UNCHANGED << held, st, stopTrade, confirmedIds >>
    BY <1>1 DEF Clock, NextPhase, NewDay, locals
  <2>2. /\ Wanes
        /\ \A i \in OrderId : ord[i].type = "TRAIL" => ord'[i].status = ord[i].status
    BY <1>0, <2>1, WanesNewDay, WanesUnchanged DEF NextPhase
  <2>3. stopTrade' = 0
    BY <2>1 DEF PeakInv, Refused, ForConfirm, AuditLabels
  <2>4. \A i \in OrderId : ord'[i].type = "TRAIL" => ord'[i].status # "pendingCancel"
    BY <2>1, <2>2 DEF PeakInv, Landed, PendingAt, Wanes
  <2>5. \A i \in OrderId : Peaked(i)' => Keeps(st', i)
    BY <2>1, <2>2, PeakWanes DEF PeakInv, Kept, Keeps
  <2>6. QED
    BY <2>1, <2>2, <2>3, <2>4, <2>5, Resettles DEF AuditLabels
<1>2. CASE ToggleForceExit
  BY <1>2 DEF ToggleForceExit, Gentle, Fault
<1>3. CASE Crash
  <2>1. /\ pc # "boot" /\ pc' = "boot" /\ stopTrade' = 0
        /\ UNCHANGED << held, ord, disk, confirmedIds >>
    BY <1>3 DEF Crash, Call
  <2>2. Lone'
    BY <2>1, WanesUnchanged, PeakWanes DEF PeakInv
  <2>3. Landed' /\ Snapped' /\ Replaced' /\ Refused'
    BY <2>1 DEF Landed, PendingAt, Snapped, Replaced, Replacing, Refused, ForConfirm,
       AuditLabels
  <2>4. Kept'
    BY <1>0, <2>1 DEF PeakInv, Kept, Keeps, Peaked
  <2>5. QED
    BY <2>2, <2>3, <2>4 DEF PeakInv
<1>4. CASE UNCHANGED vars
  <2>1. UNCHANGED << held, ord, st, disk, pc, ret, neu, stopTrade, snap, want, confirmedIds >>
    BY <1>4 DEF vars, brokerVars, engineVars, locals
  <2>2. \A i \in OrderId : (Peaked(i)' <=> Peaked(i)) /\ (Sells(i)' <=> Sells(i))
    BY <2>1 DEF Peaked, Sells, Open
  <2>3. Lone' /\ Landed'
    BY <2>1, <2>2 DEF PeakInv, Lone, Landed, Open
  <2>4. Kept'
    BY <2>1, <2>2 DEF PeakInv, Kept, Keeps
  <2>5. Snapped'
    BY <2>1, <2>2 DEF PeakInv, Snapped
  <2>6. (NoPeak' <=> NoPeak) /\ (ForConfirm' <=> ForConfirm)
    BY <2>1, <2>2 DEF NoPeak, ForConfirm
  <2>7. Replaced' /\ Refused'
    BY <2>1, <2>6 DEF PeakInv, Replaced, Refused
  <2>8. QED
    BY <2>3, <2>4, <2>5, <2>7 DEF PeakInv
<1>5. QED
  BY <1>1, <1>2, <1>3, <1>4

\* The order that an audit cancels for its gate is not one that was confirmed.
LEMMA RegateSparesPeak ==
  ASSUME Inv, GapInv, PeakInv, [Next]_vars, pc = "audKeep", pc' = "gateCancelled"
  PROVE  cur' \notin confirmedIds
<1>1. AuditRegate
  <2>1. ~UNCHANGED vars /\ ~Broker /\ ~Clock /\ ~ToggleForceExit /\ ~Crash
    BY DEF vars, engineVars, Broker, Clock, ToggleForceExit, Crash, Call
  <2>2. ~(Boot \/ BootSync \/ BootAudit \/ BootDone \/ SyncRemove \/ SyncSave)
    BY DEF Boot, BootSync, BootAudit, BootDone, SyncRemove, SyncSave
  <2>3. ~Cycle
    BY DEF Cycle, CycleSync, CycleForceExit, MaybeAudit, AuditDone, CheckpointCovered,
       CheckpointSync, CheckpointAudit, CheckpointDone, CheckpointsOver, Manage
  <2>4. ~Entry
    BY DEF Entry, EntrySkip, EntryBuy, EntryFilled, EntryNotFilled, NoFillSync, NoFillAudit,
       StopPlace, StopPreflightFails, StopPlaceRaises, StopRejected, StopAccepted,
       StopConfirmedAfterAudit, StopUnconfirmedAfterAudit, OthersDone, OthersNotFilled,
       OthersAudit
  <2>5. ~Exit
    BY DEF Exit, ExitNoPosition, ExitGone, ExitCancel, ExitDeferred, ExitPlace,
       ExitPlaceRaises, ExitRejected, ExitSettled
  <2>6. Audit
    BY <2>1, <2>2, <2>3, <2>4, <2>5 DEF Next, Engine
  <2>7. ret # "gateCancelled"
    BY DEF Inv, TypeOK, Returns
  <2>8. ~(NoneLeft \/ AuditKeep \/ AuditConvert)
    BY <2>7 DEF NoneLeft, AuditKeep, Judge, AuditConvert, Goto
  <2>9. QED
    BY <2>6, <2>8 DEF Audit, AuditScan, AuditSkip, AuditSweep, GateReplace, GateReplaceRaises,
       GateReplaceRejected, GateReplaced, GateRestore, GateRestoreRaises, GateRestored,
       AuditPlace, AuditCannotPlace, AuditPlaced
<1>2. PICK i \in snap : NeedsGate(i) /\ cur' = i
  BY <1>1 DEF AuditRegate
<1>3. i \in OrderId /\ ord[i].type = "TRAIL"
  BY DEF Inv, TypeOK, GapInv, Working, AtAudit
<1>4. i \in confirmedIds => st.prot = "confirmed" /\ st.stopId = i
  BY <1>3 DEF PeakInv, Snapped
<1>5. QED
  BY <1>2, <1>4 DEF NeedsGate

\* A stop that an audit or an entry has confirmed, and that has been trailing the price
\* since, is never cancelled to be given another goodAfterTime
\* (_replace_trail_with_stop_activation_gate), at any restart or cycle.  The engine must
\* find no order of another client, beside which the entry's stop may be refused, and one
\* of its own at most.
THEOREM PeakKept ==
  ASSUME Gentle, "entryStopReject" \notin Faults
  PROVE  Spec /\ LoneStart => ConfirmedStopKeepsItsPeak
<1>1. Gentle /\ "entryStopReject" \notin Faults /\ "orphanCancelRaises" \notin Faults
  BY DEF Gentle
<1>2. Inv /\ OrphanInv /\ [Next]_vars => OrphanInv'
  BY <1>1, OrphanStep
<1>3. Inv /\ OrphanInv /\ GapInv /\ [Next]_vars => GapInv'
  BY <1>1, GapStep
<1>4. Inv /\ OrphanInv /\ GapInv /\ PeakInv /\ [Next]_vars => PeakInv'
  <2>1. ASSUME Inv, OrphanInv, GapInv, PeakInv, BootSync \/ CycleSync \/ CheckpointSync
        PROVE  PeakInv'
    BY <1>1, <2>1, SyncPeak DEF BootSync, CycleSync, CheckpointSync, SyncSites, Returns
  <2>2. QED
    BY <1>1, <2>1, BootPeak, MovesPeak, EntryPeak, AuditPeak, ExitPeak, BrokerPeak,
       EnvironmentPeak DEF Next, Engine, Cycle
<1>5. Init /\ LoneStart => OrphanInv /\ GapInv /\ PeakInv
  BY InitGap, InitPeak DEF LoneStart
<1>6. Inv /\ GapInv /\ PeakInv /\ [Next]_vars =>
        [pc = "audKeep" /\ pc' = "gateCancelled" => cur' \notin confirmedIds]_vars
  BY RegateSparesPeak
<1>7. QED
  BY <1>2, <1>3, <1>4, <1>5, <1>6, SpecInv, PTL DEF Spec, ConfirmedStopKeepsItsPeak
=============================================================================
