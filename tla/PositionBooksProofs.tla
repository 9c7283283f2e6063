------------------------- MODULE PositionBooksProofs -------------------------
(***************************************************************************)
(* PositionBooks implements RoundTrips, and a held position keeps its      *)
(* record, for any symbols, number of positions and adverse events, as     *)
(* long as the cache is wrong about a symbol for one sync at most and the  *)
(* engine trades no symbol its last snapshot missed.                       *)
(***************************************************************************)
EXTENDS PositionBooks, TLAPS

\* What the rule of two snapshots relies on.
Reliable == "blind" \notin Faults /\ MaxBehind <= 1

\* The records and the open ledger record of a symbol are about its last position.
Current ==
  \A s \in Symbols :
    /\ rec[s].trip \in {0, trips[s]} /\ disk[s].trip \in {0, trips[s]}
    /\ open[s] \in {0, trips[s]}
    /\ held[s] => trips[s] # 0

\* Outside the routines that drop records the file has the records in memory; before
\* load_state there are none in memory.
Saved ==
  /\ pc \notin {"boot", "drop", "closed", "gone"} =>
       \A s \in Symbols : disk[s].trip = rec[s].trip
  /\ pc = "boot" => \A s \in Symbols : rec[s].trip = 0

\* A SELL works for tracked symbols only.
SellsTracked ==
  \A s \in Symbols :
    mkt[s] => disk[s].trip # 0 /\ (pc # "boot" => rec[s].trip # 0)

\* A record that is dropped, or a SELL's end, leaves no open ledger record behind,
\* unless the position is held.
OpenTracked ==
  \A s \in Symbols :
    /\ open[s] # 0 /\ disk[s].trip = 0 => held[s]
    /\ open[s] # 0 /\ rec[s].trip = 0 /\ pc # "boot" => held[s]

\* What the cache shows in excess is tracked.
SeenTracked ==
  \A s \in Symbols :
    pc # "boot" /\ seen[s] /\ ~held[s] => rec[s].trip # 0

\* Only tracked symbols have been missed; one that is held was missed by the last
\* sync, which found the cache wrong.
Missed ==
  \A s \in Symbols : pc # "boot" =>
    /\ rec[s].trip = 0 => miss[s] = 0
    /\ miss[s] # 0 /\ held[s] => behind[s] >= 1

\* What the sync is about to drop.
Dropping ==
  /\ pc \in {"drop", "closed"} =>
       /\ \A s \in todo : rec[s].trip # 0
       /\ \A s \in todo : held[s] => behind[s] >= 1
       /\ \A s \in todo : miss[s] # 0 => ~held[s] /\ ~seen[s]
       /\ \A s \in Symbols : disk[s].trip # 0 /\ rec[s].trip = 0 => ~held[s]
  /\ pc = "closed" =>
       cur \in todo /\ miss[cur] # 0 /\ open[cur] = 0 /\ ~mkt[cur]
  /\ pc = "gone" =>
       /\ cur \in Symbols /\ rec[cur].trip # 0
       /\ ~held[cur] /\ ~seen[cur] /\ miss[cur] = 0
       /\ open[cur] = 0 /\ ~mkt[cur]
       /\ \A s \in Symbols : s # cur => disk[s].trip = rec[s].trip

\* A BUY that is being recorded.
Entering ==
  /\ pc \in {"bought", "entered"} =>
       /\ cur \in Symbols /\ open[cur] = 0 /\ trips[cur] # 0
       /\ trips[cur] \notin RT!RowsOf(history[cur])
  /\ pc = "bought" => rec[cur].trip = 0
  /\ pc = "entered" => rec[cur].trip # 0
  /\ pc = "selling" => cur \in Symbols /\ rec[cur].trip # 0

\* Rows are about positions that have ended; the last position, once it has its
\* row, is in no open record and in no snapshot.
Accounted ==
  \A s \in Symbols :
    /\ RT!RowsOf(history[s]) \subseteq RT!Finished(s)
    /\ trips[s] \in RT!RowsOf(history[s]) =>
         open[s] = 0 /\ (pc # "boot" => ~seen[s])

IInv == /\ TypeOK /\ Current /\ Saved /\ SellsTracked /\ OpenTracked /\ SeenTracked
        /\ Missed /\ Dropping /\ Entering /\ Accounted

LEMMA RowsOfAppend ==
  ASSUME NEW h \in Seq([ of : Nat, entry : Nat ]),
         NEW r \in [ of : Nat, entry : Nat ]
  PROVE  /\ Append(h, r) \in Seq([ of : Nat, entry : Nat ])
         /\ RT!RowsOf(Append(h, r)) = RT!RowsOf(h) \cup { r.of }
<1>1. Append(h, r) \in Seq([ of : Nat, entry : Nat ])
  OBVIOUS
<1>2. /\ DOMAIN Append(h, r) = DOMAIN h \cup { Len(h) + 1 }
      /\ \A i \in DOMAIN h : Append(h, r)[i] = h[i]
      /\ Append(h, r)[Len(h) + 1] = r
  OBVIOUS
<1>3. QED
  BY <1>1, <1>2 DEF RT!RowsOf

LEMMA InitIInv == Init => IInv
<1> SUFFICES ASSUME Init PROVE IInv
  OBVIOUS
<1>1. TypeOK
  BY BoundsAssumption DEF Init, TypeOK, NoRec, Nobody, Pcs
<1>2. Current /\ Saved /\ SellsTracked /\ OpenTracked /\ SeenTracked
  BY DEF Init, NoRec, Current, Saved, SellsTracked, OpenTracked, SeenTracked
<1>3. Missed /\ Dropping /\ Entering
  BY DEF Init, NoRec, Missed, Dropping, Entering
<1>4. Accounted
  BY DEF Init, Accounted, RT!RowsOf, RT!Finished
<1>5. QED
  BY <1>1, <1>2, <1>3, <1>4 DEF IInv

\* The sync believes the cache.
LEMMA SyncCachedInv ==
  ASSUME IInv, Reliable, SyncCached
  PROVE  IInv'
<1>1. Current' /\ Saved' /\ SellsTracked'
  BY DEF IInv, Current, account, Tracked, OpenKept, CacheTimely, CountBehind,
         AllMissing, Present, SyncCached, Saved, SellsTracked
<1>2. SeenTracked'
  BY DEF IInv, SeenTracked, account, Tracked, OpenKept, CacheTimely, CountBehind,
         AllMissing, Present, SyncCached
<1>3. TypeOK'
  BY BoundsAssumption DEF IInv, Reliable, TypeOK, Current, Saved, SellsTracked,
                          OpenTracked, SeenTracked, Missed, Dropping, Entering,
                          Accounted, account, Nobody, Tracked, Pcs, OpenKept,
                          CacheTimely, CountBehind, AllMissing, Present, SyncCached,
                          RT!Finished
<1>4. OpenTracked'
  BY BoundsAssumption DEF IInv, Reliable, TypeOK, Current, Saved, SellsTracked,
                          OpenTracked, SeenTracked, Missed, Dropping, Entering,
                          Accounted, account, Nobody, Tracked, Pcs, OpenKept,
                          CacheTimely, CountBehind, AllMissing, Present, SyncCached,
                          RT!Finished
<1>5. Missed'
  BY BoundsAssumption DEF IInv, TypeOK, Missed, account, Nobody, Tracked, Pcs,
                          OpenKept, CacheTimely, CountBehind, AllMissing, Present,
                          SyncCached
<1>6. Dropping'
  BY BoundsAssumption DEF IInv, Reliable, TypeOK, Current, Saved, SellsTracked,
                          OpenTracked, SeenTracked, Missed, Dropping, Entering,
                          Accounted, account, Nobody, Tracked, Pcs, OpenKept,
                          CacheTimely, CountBehind, AllMissing, Present, SyncCached,
                          RT!Finished
<1>7. Entering'
  BY BoundsAssumption DEF IInv, Entering, account, Tracked, OpenKept, CacheTimely,
                          CountBehind, AllMissing, Present, SyncCached
<1>8. Accounted'
  BY BoundsAssumption DEF IInv, Accounted, account, Tracked, OpenKept, CacheTimely,
                          CountBehind, AllMissing, Present, SyncCached, RT!Finished
<1>9. QED
  BY <1>1, <1>2, <1>3, <1>4, <1>5, <1>6, <1>7, <1>8 DEF IInv

\* It asks the broker again.
LEMMA SyncRecheckedInv ==
  ASSUME IInv, Reliable, SyncRechecked
  PROVE  IInv'
<1>1. Current' /\ Saved' /\ SellsTracked'
  BY DEF IInv, Current, account, Tracked, OpenKept, CacheTimely, AllMissing,
         Present, SyncRechecked, Saved, SellsTracked
<1>2. OpenTracked' /\ SeenTracked' /\ Missed'
  BY BoundsAssumption DEF IInv, OpenTracked, account, Tracked, OpenKept,
                          CacheTimely, AllMissing, Present, SyncRechecked,
                          SeenTracked, Missed
<1>3. TypeOK'
  BY BoundsAssumption DEF IInv, Reliable, TypeOK, Current, Saved, SellsTracked,
                          SeenTracked, Missed, Dropping, Entering, Accounted,
                          account, Nobody, Tracked, Pcs, OpenKept, CacheTimely,
                          AllMissing, Present, SyncRechecked, RT!Finished
<1>4. Dropping'
  BY BoundsAssumption DEF IInv, Current, Dropping, account, Tracked, OpenKept,
                          CacheTimely, AllMissing, Present, SyncRechecked
<1>5. Entering'
  BY BoundsAssumption DEF IInv, Entering, account, Tracked, OpenKept, CacheTimely,
                          AllMissing, Present, SyncRechecked
<1>6. Accounted'
  BY BoundsAssumption DEF IInv, Reliable, Accounted, account, Tracked, OpenKept,
                          CacheTimely, AllMissing, Present, SyncRechecked,
                          RT!Finished
<1>7. QED
  BY <1>1, <1>2, <1>3, <1>4, <1>5, <1>6 DEF IInv

\* That fails, and nothing is believed.
LEMMA SyncSkippedInv ==
  ASSUME IInv, Reliable, SyncSkipped
  PROVE  IInv'
<1>1. Current' /\ Saved' /\ SellsTracked'
  BY DEF IInv, Current, account, ledger, Tracked, Fault, CacheTimely, CountBehind,
         AllMissing, SyncSkipped, Saved, SellsTracked
<1>2. OpenTracked' /\ SeenTracked'
  BY DEF IInv, OpenTracked, account, ledger, Tracked, Fault, CacheTimely,
         CountBehind, AllMissing, SyncSkipped, SeenTracked
<1>3. TypeOK'
  BY BoundsAssumption DEF IInv, Reliable, TypeOK, Current, Saved, SellsTracked,
                          OpenTracked, SeenTracked, Missed, Dropping, Entering,
                          Accounted, account, ledger, Nobody, Tracked, Pcs, Fault,
                          CacheTimely, CountBehind, AllMissing, SyncSkipped,
                          RT!Finished
<1>4. Missed'
  BY BoundsAssumption DEF IInv, Reliable, TypeOK, Current, Saved, SellsTracked,
                          OpenTracked, SeenTracked, Missed, Dropping, Entering,
                          Accounted, account, ledger, Nobody, Tracked, Pcs, Fault,
                          CacheTimely, CountBehind, AllMissing, SyncSkipped,
                          RT!Finished
<1>5. Dropping'
  BY BoundsAssumption DEF IInv, Dropping, account, ledger, Tracked, Fault,
                          CacheTimely, CountBehind, AllMissing, SyncSkipped
<1>6. Entering'
  BY BoundsAssumption DEF IInv, Entering, account, ledger, Tracked, Fault,
                          CacheTimely, CountBehind, AllMissing, SyncSkipped
<1>7. Accounted'
  BY BoundsAssumption DEF IInv, Accounted, account, ledger, Tracked, Fault,
                          CacheTimely, CountBehind, AllMissing, SyncSkipped,
                          RT!Finished
<1>8. QED
  BY <1>1, <1>2, <1>3, <1>4, <1>5, <1>6, <1>7 DEF IInv

\* The first snapshot without a symbol.
LEMMA DeferInv ==
  ASSUME IInv, Reliable, NEW s \in Symbols, Defer(s)
  PROVE  IInv'
<1>1. Current' /\ Saved' /\ SellsTracked'
  BY DEF IInv, Current, account, cache, ledger, Defer, Saved, SellsTracked
<1>2. OpenTracked' /\ SeenTracked'
  BY DEF IInv, OpenTracked, account, cache, ledger, Defer, SeenTracked
<1>3. TypeOK'
  BY BoundsAssumption DEF IInv, Reliable, TypeOK, Current, Saved, SellsTracked,
                          OpenTracked, SeenTracked, Missed, Dropping, Entering,
                          Accounted, account, cache, ledger, Nobody, Pcs, Defer,
                          RT!Finished
<1>4. Missed'
  BY BoundsAssumption DEF IInv, Missed, Dropping, account, cache, ledger, Defer
<1>5. Dropping'
  BY BoundsAssumption DEF IInv, Dropping, account, cache, ledger, Defer
<1>6. Entering'
  BY BoundsAssumption DEF IInv, Entering, account, cache, ledger, Defer
<1>7. Accounted'
  BY BoundsAssumption DEF IInv, Accounted, account, cache, ledger, Defer,
                          RT!Finished
<1>8. QED
  BY <1>1, <1>2, <1>3, <1>4, <1>5, <1>6, <1>7 DEF IInv

\* The second: the position has ended.
LEMMA DropCloseInv ==
  ASSUME IInv, Reliable, NEW s \in Symbols, DropClose(s)
  PROVE  IInv'
<1>1. Current' /\ Saved' /\ SellsTracked'
  BY DEF IInv, Current, cache, CloseTrade, DropClose, RT!Row, Saved, SellsTracked
<1>2. OpenTracked' /\ SeenTracked' /\ Missed'
  BY BoundsAssumption DEF IInv, OpenTracked, cache, CloseTrade, DropClose, RT!Row,
                          SeenTracked, Missed
<1>3. TypeOK'
  <2>1. rec[s].trip \in Nat /\ open[s] \in Nat
    BY DEF IInv, TypeOK
  <2>2. RT!Row(rec[s].trip, open[s]) \in [ of : Nat, entry : Nat ]
    BY <2>1 DEF RT!Row
  <2>3. history' \in [Symbols -> Seq([ of : Nat, entry : Nat ])]
    BY <2>2, RowsOfAppend DEF IInv, TypeOK, DropClose, CloseTrade
  <2>4. open' \in [Symbols -> Nat] /\ mkt' \in [Symbols -> BOOLEAN]
    BY DEF IInv, TypeOK, DropClose, CloseTrade
  <2>5. QED
    BY <2>3, <2>4 DEF IInv, TypeOK, Pcs, DropClose, cache
<1>4. Dropping'
  BY RowsOfAppend, BoundsAssumption DEF IInv, Reliable, TypeOK, Current, Saved,
                                        SellsTracked, OpenTracked, SeenTracked,
                                        Missed, Dropping, Entering, Accounted,
                                        cache, Nobody, Pcs, CloseTrade, DropClose,
                                        RT!Row, RT!Finished
<1>5. Entering'
  BY RowsOfAppend, BoundsAssumption DEF IInv, Entering, cache, CloseTrade,
                                        DropClose, RT!Row
<1>6. Accounted'
  <2>1. /\ rec[s].trip = trips[s] /\ trips[s] \in Nat \ {0} /\ open[s] \in Nat
        /\ ~held[s] /\ ~seen[s]
    BY DEF IInv, TypeOK, Current, Dropping, DropClose
  <2>2. /\ history' = [ history EXCEPT ![s] = Append(@, RT!Row(trips[s], open[s])) ]
        /\ open' = [ open EXCEPT ![s] = 0 ]
        /\ UNCHANGED << held, trips, seen >> /\ pc # "boot"
    BY <2>1 DEF DropClose, CloseTrade, cache
  <2>3. RT!RowsOf(history'[s]) = RT!RowsOf(history[s]) \cup { trips[s] }
    BY <2>1, <2>2, RowsOfAppend DEF IInv, TypeOK, RT!Row
  <2>4. trips[s] \in RT!Finished(s)
    BY <2>1 DEF RT!Finished
  <2>5. QED
    BY <2>1, <2>2, <2>3, <2>4 DEF IInv, TypeOK, Accounted, RT!Finished
<1>7. QED
  BY <1>1, <1>2, <1>3, <1>4, <1>5, <1>6 DEF IInv

\* Its record goes.
LEMMA DropRecordInv ==
  ASSUME IInv, Reliable, DropRecord
  PROVE  IInv'
<1>1. Current' /\ Saved'
  BY DEF IInv, Current, account, cache, ledger, NoRec, Nobody, DropRecord, Saved
<1>2. TypeOK'
  BY BoundsAssumption DEF IInv, TypeOK, Dropping, account, cache, ledger, NoRec,
                          Nobody, Pcs, DropRecord
<1>3. SellsTracked'
  BY BoundsAssumption DEF IInv, SellsTracked, Dropping, account, cache, ledger,
                          NoRec, Nobody, DropRecord
<1>4. OpenTracked'
  BY BoundsAssumption DEF IInv, OpenTracked, Dropping, account, cache, ledger,
                          NoRec, Nobody, DropRecord
<1>5. SeenTracked'
  BY BoundsAssumption DEF IInv, SeenTracked, Dropping, account, cache, ledger,
                          NoRec, Nobody, DropRecord
<1>6. Missed'
  BY BoundsAssumption DEF IInv, TypeOK, Missed, account, cache, ledger, NoRec,
                          Nobody, Pcs, DropRecord
<1>7. Dropping'
  BY BoundsAssumption DEF IInv, Dropping, account, cache, ledger, NoRec, Nobody,
                          DropRecord
<1>8. Entering'
  BY BoundsAssumption DEF IInv, Entering, account, cache, ledger, NoRec, Nobody,
                          DropRecord
<1>9. Accounted'
  BY BoundsAssumption DEF IInv, Accounted, account, cache, ledger, NoRec, Nobody,
                          DropRecord, RT!Finished
<1>10. QED
  BY <1>1, <1>2, <1>3, <1>4, <1>5, <1>6, <1>7, <1>8, <1>9 DEF IInv

\* The records are saved.
LEMMA SyncEndsInv ==
  ASSUME IInv, Reliable, SyncEnds
  PROVE  IInv'
<1>1. TypeOK' /\ Current' /\ Saved'
  BY BoundsAssumption DEF IInv, TypeOK, account, cache, ledger, Nobody, Tracked,
                          Pcs, SyncEnds, Current, Saved
<1>2. SellsTracked' /\ OpenTracked' /\ SeenTracked'
  BY DEF IInv, SellsTracked, account, cache, ledger, Tracked, SyncEnds, OpenTracked,
         SeenTracked
<1>3. Missed'
  BY BoundsAssumption DEF IInv, Missed, account, cache, ledger, Tracked, SyncEnds
<1>4. Dropping'
  BY BoundsAssumption DEF IInv, Dropping, account, cache, ledger, Tracked, SyncEnds
<1>5. Entering'
  BY BoundsAssumption DEF IInv, Entering, account, cache, ledger, Tracked, SyncEnds
<1>6. Accounted'
  BY BoundsAssumption DEF IInv, Accounted, account, cache, ledger, Tracked,
                          SyncEnds, RT!Finished
<1>7. QED
  BY <1>1, <1>2, <1>3, <1>4, <1>5, <1>6 DEF IInv

\* An exit that is deferred.
LEMMA ExitDeferredInv ==
  ASSUME IInv, Reliable, NEW s \in Symbols, ExitDeferred(s)
  PROVE  IInv'
<1>1. Current' /\ Saved' /\ SellsTracked'
  BY DEF IInv, Current, account, cache, ledger, Tracked, Fault, Sighted, ExitDue,
         ExitDeferred, Saved, SellsTracked
<1>2. OpenTracked' /\ SeenTracked' /\ Missed'
  BY BoundsAssumption DEF IInv, OpenTracked, account, cache, ledger, Tracked, Fault,
                          Sighted, ExitDue, ExitDeferred, SeenTracked, Missed
<1>3. TypeOK'
  BY BoundsAssumption DEF IInv, Reliable, TypeOK, Current, Saved, SellsTracked,
                          OpenTracked, SeenTracked, Missed, Dropping, Entering,
                          Accounted, account, cache, ledger, Nobody, Tracked, Pcs,
                          Fault, Sighted, ExitDue, ExitDeferred, RT!Finished
<1>4. Dropping'
  BY BoundsAssumption DEF IInv, Dropping, account, cache, ledger, Tracked, Fault,
                          Sighted, ExitDue, ExitDeferred
<1>5. Entering'
  BY BoundsAssumption DEF IInv, Entering, account, cache, ledger, Tracked, Fault,
                          Sighted, ExitDue, ExitDeferred
<1>6. Accounted'
  BY BoundsAssumption DEF IInv, Accounted, account, cache, ledger, Tracked, Fault,
                          Sighted, ExitDue, ExitDeferred, RT!Finished
<1>7. QED
  BY <1>1, <1>2, <1>3, <1>4, <1>5, <1>6 DEF IInv

\* The SELL goes out.
LEMMA ExitSendsInv ==
  ASSUME IInv, Reliable, NEW s \in Symbols, ExitSends(s)
  PROVE  IInv'
<1>1. Current' /\ Saved' /\ SellsTracked'
  BY DEF IInv, Current, cache, ledger, Tracked, Sighted, ExitDue, ExitSends, Saved,
         SellsTracked
<1>2. OpenTracked' /\ SeenTracked' /\ Missed'
  BY BoundsAssumption DEF IInv, OpenTracked, cache, ledger, Tracked, Sighted,
                          ExitDue, ExitSends, SeenTracked, Missed
<1>3. TypeOK'
  <2>1. [ rec[s] EXCEPT !.exiting = TRUE ] \in [ trip : Nat, exiting : BOOLEAN ]
    BY DEF IInv, TypeOK
  <2>2. rec' \in [Symbols -> [ trip : Nat, exiting : BOOLEAN ]]
    BY <2>1 DEF IInv, TypeOK, ExitSends
  <2>3. mkt' \in [Symbols -> BOOLEAN] /\ todo' \subseteq Symbols
    BY DEF IInv, TypeOK, ExitSends
  <2>4. QED
    BY <2>2, <2>3 DEF IInv, TypeOK, Pcs, ExitSends, cache, ledger
<1>4. Dropping'
  BY BoundsAssumption DEF IInv, Dropping, cache, ledger, Tracked, Sighted, ExitDue,
                          ExitSends
<1>5. Entering'
  BY BoundsAssumption DEF IInv, Entering, cache, ledger, Tracked, Sighted, ExitDue,
                          ExitSends
<1>6. Accounted'
  BY BoundsAssumption DEF IInv, Accounted, cache, ledger, Tracked, Sighted, ExitDue,
                          ExitSends, RT!Finished
<1>7. QED
  BY <1>1, <1>2, <1>3, <1>4, <1>5, <1>6 DEF IInv

\* It is done.
LEMMA ExitFilledInv ==
  ASSUME IInv, Reliable, ExitFilled
  PROVE  IInv'
<1>1. TypeOK' /\ Current' /\ Saved'
  BY BoundsAssumption DEF IInv, TypeOK, account, cache, ledger, Nobody, Pcs,
                          ExitFilled, Current, Saved
<1>2. SellsTracked' /\ OpenTracked' /\ SeenTracked'
  BY DEF IInv, SellsTracked, account, cache, ledger, Nobody, ExitFilled,
         OpenTracked, SeenTracked
<1>3. Missed'
  BY BoundsAssumption DEF IInv, Missed, account, cache, ledger, Nobody, ExitFilled
<1>4. Dropping'
  BY BoundsAssumption DEF IInv, Dropping, account, cache, ledger, Nobody, ExitFilled
<1>5. Entering'
  BY BoundsAssumption DEF IInv, Entering, account, cache, ledger, Nobody, ExitFilled
<1>6. Accounted'
  BY BoundsAssumption DEF IInv, Accounted, account, cache, ledger, Nobody,
                          ExitFilled, RT!Finished
<1>7. QED
  BY <1>1, <1>2, <1>3, <1>4, <1>5, <1>6 DEF IInv

\* It is refused.
LEMMA ExitRejectedInv ==
  ASSUME IInv, Reliable, ExitRejected
  PROVE  IInv'
<1>1. Current' /\ Saved' /\ SellsTracked'
  BY DEF IInv, Current, cache, ledger, Nobody, Fault, ExitRejected, Saved,
         SellsTracked
<1>2. OpenTracked' /\ SeenTracked' /\ Missed'
  BY BoundsAssumption DEF IInv, OpenTracked, cache, ledger, Nobody, Fault,
                          ExitRejected, SeenTracked, Missed
<1>3. TypeOK'
  <2>1. cur \in Symbols
    BY DEF IInv, Entering, ExitRejected
  <2>2. [ rec[cur] EXCEPT !.exiting = FALSE ] \in [ trip : Nat, exiting : BOOLEAN ]
    BY <2>1 DEF IInv, TypeOK
  <2>3. rec' \in [Symbols -> [ trip : Nat, exiting : BOOLEAN ]]
    BY <2>1, <2>2 DEF IInv, TypeOK, ExitRejected
  <2>4. mkt' \in [Symbols -> BOOLEAN]
    BY DEF IInv, TypeOK, ExitRejected
  <2>5. faults' \in Nat
    BY DEF IInv, TypeOK, ExitRejected, Fault
  <2>6. QED
    BY <2>3, <2>4, <2>5 DEF IInv, TypeOK, Pcs, Nobody, ExitRejected, cache, ledger
<1>4. Dropping'
  BY BoundsAssumption DEF IInv, Dropping, cache, ledger, Nobody, Fault, ExitRejected
<1>5. Entering'
  BY BoundsAssumption DEF IInv, Entering, cache, ledger, Nobody, Fault, ExitRejected
<1>6. Accounted'
  BY BoundsAssumption DEF IInv, Accounted, cache, ledger, Nobody, Fault,
                          ExitRejected, RT!Finished
<1>7. QED
  BY <1>1, <1>2, <1>3, <1>4, <1>5, <1>6 DEF IInv

\* It is left working.
LEMMA ExitUnconfirmedInv ==
  ASSUME IInv, Reliable, ExitUnconfirmed
  PROVE  IInv'
<1>1. TypeOK' /\ Current' /\ Saved'
  BY BoundsAssumption DEF IInv, TypeOK, account, cache, ledger, Nobody, Pcs, Fault,
                          ExitUnconfirmed, Current, Saved
<1>2. SellsTracked' /\ OpenTracked' /\ SeenTracked'
  BY DEF IInv, SellsTracked, account, cache, ledger, Nobody, Fault, ExitUnconfirmed,
         OpenTracked, SeenTracked
<1>3. Missed'
  BY BoundsAssumption DEF IInv, Missed, account, cache, ledger, Nobody, Fault,
                          ExitUnconfirmed
<1>4. Dropping'
  BY BoundsAssumption DEF IInv, Dropping, account, cache, ledger, Nobody, Fault,
                          ExitUnconfirmed
<1>5. Entering'
  BY BoundsAssumption DEF IInv, Entering, account, cache, ledger, Nobody, Fault,
                          ExitUnconfirmed
<1>6. Accounted'
  BY BoundsAssumption DEF IInv, Accounted, account, cache, ledger, Nobody, Fault,
                          ExitUnconfirmed, RT!Finished
<1>7. QED
  BY <1>1, <1>2, <1>3, <1>4, <1>5, <1>6 DEF IInv

\* There is no position to sell.
LEMMA ExitNoPositionInv ==
  ASSUME IInv, Reliable, NEW s \in Symbols, ExitNoPosition(s)
  PROVE  IInv'
<1>1. TypeOK' /\ Current' /\ Saved'
  BY BoundsAssumption DEF IInv, TypeOK, cache, Nobody, Tracked, Pcs, CloseTrade,
                          Sighted, ExitDue, ExitNoPosition, RT!Row, Current, Saved
<1>2. SellsTracked' /\ OpenTracked' /\ SeenTracked'
  BY DEF IInv, SellsTracked, cache, Tracked, CloseTrade, Sighted, ExitDue,
         ExitNoPosition, RT!Row, OpenTracked, SeenTracked
<1>3. Missed'
  BY BoundsAssumption DEF IInv, Missed, cache, Tracked, CloseTrade, Sighted,
                          ExitDue, ExitNoPosition, RT!Row
<1>4. Dropping'
  BY RowsOfAppend, BoundsAssumption DEF IInv, Reliable, TypeOK, Current, Saved,
                                        SellsTracked, OpenTracked, SeenTracked,
                                        Missed, Dropping, Entering, Accounted,
                                        cache, Nobody, Tracked, Pcs, CloseTrade,
                                        Sighted, ExitDue, ExitNoPosition, RT!Row,
                                        RT!Finished
<1>5. Entering'
  BY RowsOfAppend, BoundsAssumption DEF IInv, Entering, cache, Tracked, CloseTrade,
                                        Sighted, ExitDue, ExitNoPosition, RT!Row
<1>6. Accounted'
  <2>1. /\ rec[s].trip = trips[s] /\ trips[s] \in Nat \ {0} /\ open[s] \in Nat
        /\ ~held[s] /\ ~seen[s]
    BY DEF IInv, TypeOK, Reliable, Current, ExitNoPosition, ExitDue, Sighted,
           Tracked
  <2>2. /\ history' = [ history EXCEPT ![s] = Append(@, RT!Row(trips[s], open[s])) ]
        /\ open' = [ open EXCEPT ![s] = 0 ]
        /\ UNCHANGED << held, trips, seen >> /\ pc # "boot"
    BY <2>1 DEF ExitNoPosition, ExitDue, CloseTrade, cache
  <2>3. RT!RowsOf(history'[s]) = RT!RowsOf(history[s]) \cup { trips[s] }
    BY <2>1, <2>2, RowsOfAppend DEF IInv, TypeOK, RT!Row
  <2>4. trips[s] \in RT!Finished(s)
    BY <2>1 DEF RT!Finished
  <2>5. QED
    BY <2>1, <2>2, <2>3, <2>4 DEF IInv, TypeOK, Accounted, RT!Finished
<1>7. QED
  BY <1>1, <1>2, <1>3, <1>4, <1>5, <1>6 DEF IInv

\* Its record goes.
LEMMA ExitDropsRecordInv ==
  ASSUME IInv, Reliable, ExitDropsRecord
  PROVE  IInv'
<1>1. TypeOK' /\ Current' /\ Saved'
  BY BoundsAssumption DEF IInv, TypeOK, account, cache, ledger, NoRec, Nobody, Pcs,
                          ExitDropsRecord, Current, Saved
<1>2. SellsTracked'
  BY BoundsAssumption DEF IInv, SellsTracked, Dropping, account, cache, ledger,
                          NoRec, Nobody, ExitDropsRecord
<1>3. OpenTracked'
  BY BoundsAssumption DEF IInv, OpenTracked, Dropping, account, cache, ledger,
                          NoRec, Nobody, ExitDropsRecord
<1>4. SeenTracked'
  BY BoundsAssumption DEF IInv, SeenTracked, Dropping, account, cache, ledger,
                          NoRec, Nobody, ExitDropsRecord
<1>5. Missed'
  BY BoundsAssumption DEF IInv, Missed, Dropping, account, cache, ledger, NoRec,
                          Nobody, ExitDropsRecord
<1>6. Dropping'
  BY BoundsAssumption DEF IInv, Dropping, account, cache, ledger, NoRec, Nobody,
                          ExitDropsRecord
<1>7. Entering'
  BY BoundsAssumption DEF IInv, Entering, account, cache, ledger, NoRec, Nobody,
                          ExitDropsRecord
<1>8. Accounted'
  BY BoundsAssumption DEF IInv, Accounted, account, cache, ledger, NoRec, Nobody,
                          ExitDropsRecord, RT!Finished
<1>9. QED
  BY <1>1, <1>2, <1>3, <1>4, <1>5, <1>6, <1>7, <1>8 DEF IInv

\* A BUY fills.
LEMMA BuyFillsInv ==
  ASSUME IInv, Reliable, NEW s \in Symbols, BuyFills(s)
  PROVE  IInv'
<1>1. Saved' /\ SellsTracked' /\ OpenTracked'
  BY DEF IInv, Saved, cache, ledger, Tracked, MayBuy, Bought, BuyFills,
         SellsTracked, OpenTracked
<1>2. SeenTracked' /\ Missed'
  BY BoundsAssumption DEF IInv, SeenTracked, cache, ledger, Tracked, MayBuy, Bought,
                          BuyFills, Missed
<1>3. TypeOK'
  BY BoundsAssumption DEF IInv, Reliable, TypeOK, Current, Saved, SellsTracked,
                          OpenTracked, SeenTracked, Missed, Dropping, Entering,
                          Accounted, cache, ledger, Nobody, Tracked, Pcs, MayBuy,
                          Bought, BuyFills, RT!Finished
<1>4. Current'
  <2>1. ~held[s] /\ rec[s].trip = 0 /\ disk[s].trip = 0 /\ open[s] = 0
    BY DEF IInv, Reliable, Saved, OpenTracked, BuyFills, MayBuy, Tracked
  <2>2. /\ held' = [ held EXCEPT ![s] = TRUE ]
        /\ trips' = [ trips EXCEPT ![s] = @ + 1 ]
        /\ UNCHANGED << rec, disk, open >>
    BY <2>1 DEF BuyFills, Bought, ledger
  <2>3. QED
    BY <2>1, <2>2 DEF IInv, TypeOK, Current
<1>5. Dropping'
  BY BoundsAssumption DEF IInv, Dropping, cache, ledger, Tracked, MayBuy, Bought,
                          BuyFills
<1>6. Entering'
  BY BoundsAssumption DEF IInv, Reliable, TypeOK, Current, Saved, SellsTracked,
                          OpenTracked, SeenTracked, Missed, Dropping, Entering,
                          Accounted, cache, ledger, Nobody, Tracked, Pcs, MayBuy,
                          Bought, BuyFills, RT!Finished
<1>7. Accounted'
  <2>1. ~held[s] /\ open[s] = 0 /\ ~seen[s]
    BY DEF IInv, Reliable, Saved, OpenTracked, SeenTracked, BuyFills, MayBuy,
           Tracked
  <2>2. /\ held' = [ held EXCEPT ![s] = TRUE ]
        /\ trips' = [ trips EXCEPT ![s] = @ + 1 ]
        /\ pc = "cycle" /\ UNCHANGED << seen, open, history >>
    BY <2>1 DEF BuyFills, MayBuy, Bought, ledger, cache
  <2>3. QED
    BY <2>1, <2>2 DEF IInv, TypeOK, Accounted, RT!Finished
<1>8. QED
  BY <1>1, <1>2, <1>3, <1>4, <1>5, <1>6, <1>7 DEF IInv

\* A BUY fills while it is cancelled.
LEMMA BuyFillsLateInv ==
  ASSUME IInv, Reliable, NEW s \in Symbols, BuyFillsLate(s)
  PROVE  IInv'
<1>1. Saved' /\ SellsTracked' /\ OpenTracked'
  BY DEF IInv, Saved, cache, ledger, Tracked, MayBuy, Bought, BuyFillsLate,
         SellsTracked, OpenTracked
<1>2. SeenTracked' /\ Missed'
  BY BoundsAssumption DEF IInv, SeenTracked, cache, ledger, Tracked, MayBuy, Bought,
                          BuyFillsLate, Missed
<1>3. TypeOK'
  BY BoundsAssumption DEF IInv, Reliable, TypeOK, Current, Saved, SellsTracked,
                          OpenTracked, SeenTracked, Missed, Dropping, Entering,
                          Accounted, cache, ledger, Nobody, Tracked, Pcs, MayBuy,
                          Bought, BuyFillsLate, RT!Finished
<1>4. Current'
  <2>1. ~held[s] /\ rec[s].trip = 0 /\ disk[s].trip = 0 /\ open[s] = 0
    BY DEF IInv, Reliable, Saved, OpenTracked, BuyFillsLate, MayBuy, Tracked
  <2>2. /\ held' = [ held EXCEPT ![s] = TRUE ]
        /\ trips' = [ trips EXCEPT ![s] = @ + 1 ]
        /\ UNCHANGED << rec, disk, open >>
    BY <2>1 DEF BuyFillsLate, Bought, ledger
  <2>3. QED
    BY <2>1, <2>2 DEF IInv, TypeOK, Current
<1>5. Dropping'
  BY BoundsAssumption DEF IInv, Dropping, cache, ledger, Tracked, MayBuy, Bought,
                          BuyFillsLate
<1>6. Entering'
  BY BoundsAssumption DEF IInv, Entering, cache, ledger, Tracked, MayBuy, Bought,
                          BuyFillsLate
<1>7. Accounted'
  <2>1. ~held[s] /\ open[s] = 0 /\ ~seen[s]
    BY DEF IInv, Reliable, Saved, OpenTracked, SeenTracked, BuyFillsLate, MayBuy,
           Tracked
  <2>2. /\ held' = [ held EXCEPT ![s] = TRUE ]
        /\ trips' = [ trips EXCEPT ![s] = @ + 1 ]
        /\ pc = "cycle" /\ UNCHANGED << seen, open, history >>
    BY <2>1 DEF BuyFillsLate, MayBuy, Bought, ledger, cache
  <2>3. QED
    BY <2>1, <2>2 DEF IInv, TypeOK, Accounted, RT!Finished
<1>8. QED
  BY <1>1, <1>2, <1>3, <1>4, <1>5, <1>6, <1>7 DEF IInv

\* The entry is recorded ...
LEMMA RecordEntryInv ==
  ASSUME IInv, Reliable, RecordEntry
  PROVE  IInv'
<1>1. Current' /\ Saved'
  BY DEF IInv, Current, account, cache, ledger, RecordEntry, Saved
<1>2. TypeOK'
  <2>1. cur \in Symbols
    BY DEF IInv, Entering, RecordEntry
  <2>2. [ trip |-> trips[cur], exiting |-> FALSE ] \in [ trip : Nat, exiting : BOOLEAN ]
    BY <2>1 DEF IInv, TypeOK
  <2>3. rec' \in [Symbols -> [ trip : Nat, exiting : BOOLEAN ]] /\ disk' = rec'
    BY <2>1, <2>2 DEF IInv, TypeOK, RecordEntry
  <2>4. QED
    BY <2>3 DEF IInv, TypeOK, Pcs, RecordEntry, account, cache, ledger
<1>3. SellsTracked'
  BY BoundsAssumption DEF IInv, Current, SellsTracked, account, cache, ledger,
                          RecordEntry
<1>4. OpenTracked'
  BY BoundsAssumption DEF IInv, Current, OpenTracked, account, cache, ledger,
                          RecordEntry
<1>5. SeenTracked'
  BY BoundsAssumption DEF IInv, Current, SeenTracked, account, cache, ledger,
                          RecordEntry
<1>6. Missed'
  BY BoundsAssumption DEF IInv, Current, Missed, account, cache, ledger, RecordEntry
<1>7. Dropping'
  BY BoundsAssumption DEF IInv, Dropping, account, cache, ledger, RecordEntry
<1>8. Entering'
  BY BoundsAssumption DEF IInv, TypeOK, Entering, account, cache, ledger, Nobody,
                          Pcs, RecordEntry
<1>9. Accounted'
  BY BoundsAssumption DEF IInv, Accounted, account, cache, ledger, RecordEntry,
                          RT!Finished
<1>10. QED
  BY <1>1, <1>2, <1>3, <1>4, <1>5, <1>6, <1>7, <1>8, <1>9 DEF IInv

\* ... and opened in the ledger.
LEMMA LedgerEntryInv ==
  ASSUME IInv, Reliable, LedgerEntry
  PROVE  IInv'
<1>1. Current' /\ Saved' /\ SellsTracked'
  BY DEF IInv, Current, account, cache, Nobody, OpenFresh, LedgerEntry, RT!Row,
         Saved, SellsTracked
<1>2. SeenTracked' /\ Missed'
  BY BoundsAssumption DEF IInv, SeenTracked, account, cache, Nobody, OpenFresh,
                          LedgerEntry, RT!Row, Missed
<1>3. TypeOK'
  <2>1. cur \in Symbols /\ open[cur] = 0
    BY DEF IInv, Entering, LedgerEntry
  <2>2. history' = history /\ open' \in [Symbols -> Nat]
    BY <2>1 DEF IInv, TypeOK, LedgerEntry, OpenFresh
  <2>3. QED
    BY <2>2 DEF IInv, TypeOK, Pcs, Nobody, LedgerEntry, account, cache
<1>4. OpenTracked'
  BY RowsOfAppend, BoundsAssumption DEF IInv, Reliable, TypeOK, Current, Saved,
                                        SellsTracked, OpenTracked, SeenTracked,
                                        Missed, Dropping, Entering, Accounted,
                                        account, cache, Nobody, Pcs, OpenFresh,
                                        LedgerEntry, RT!Row, RT!Finished
<1>5. Dropping'
  BY RowsOfAppend, BoundsAssumption DEF IInv, Dropping, account, cache, Nobody,
                                        OpenFresh, LedgerEntry, RT!Row
<1>6. Entering'
  BY RowsOfAppend, BoundsAssumption DEF IInv, Entering, account, cache, Nobody,
                                        OpenFresh, LedgerEntry, RT!Row
<1>7. Accounted'
  <2>1. cur \in Symbols /\ open[cur] = 0 /\ trips[cur] \notin RT!RowsOf(history[cur])
    BY DEF IInv, Entering, LedgerEntry
  <2>2. /\ history' = history /\ open' = [ open EXCEPT ![cur] = trips[cur] ]
        /\ UNCHANGED << held, trips, seen >> /\ pc # "boot"
    BY <2>1 DEF LedgerEntry, OpenFresh, account, cache
  <2>3. QED
    BY <2>1, <2>2 DEF IInv, TypeOK, Accounted, RT!Finished
<1>8. QED
  BY <1>1, <1>2, <1>3, <1>4, <1>5, <1>6, <1>7 DEF IInv

\* The cycle ends.
LEMMA CycleEndsInv ==
  ASSUME IInv, Reliable, CycleEnds
  PROVE  IInv'
<1>1. TypeOK' /\ Current' /\ Saved'
  BY BoundsAssumption DEF IInv, TypeOK, account, cache, ledger, Nobody, Pcs,
                          CycleEnds, Current, Saved
<1>2. SellsTracked' /\ OpenTracked' /\ SeenTracked'
  BY DEF IInv, SellsTracked, account, cache, ledger, CycleEnds, OpenTracked,
         SeenTracked
<1>3. Missed'
  BY BoundsAssumption DEF IInv, Missed, account, cache, ledger, CycleEnds
<1>4. Dropping'
  BY BoundsAssumption DEF IInv, Dropping, account, cache, ledger, CycleEnds
<1>5. Entering'
  BY BoundsAssumption DEF IInv, Entering, account, cache, ledger, CycleEnds
<1>6. Accounted'
  BY BoundsAssumption DEF IInv, Accounted, account, cache, ledger, CycleEnds,
                          RT!Finished
<1>7. QED
  BY <1>1, <1>2, <1>3, <1>4, <1>5, <1>6 DEF IInv

\* The engine starts.
LEMMA BootInv ==
  ASSUME IInv, Reliable, Boot
  PROVE  IInv'
<1>1. TypeOK' /\ Current' /\ Saved'
  BY BoundsAssumption DEF IInv, TypeOK, account, ledger, Nobody, Pcs, Boot, Current,
                          Saved
<1>2. SellsTracked' /\ OpenTracked' /\ SeenTracked'
  BY DEF IInv, SellsTracked, account, ledger, Boot, OpenTracked, SeenTracked
<1>3. Missed'
  BY BoundsAssumption DEF IInv, Missed, account, ledger, Boot
<1>4. Dropping'
  BY BoundsAssumption DEF IInv, Dropping, account, ledger, Boot
<1>5. Entering'
  BY BoundsAssumption DEF IInv, Entering, account, ledger, Boot
<1>6. Accounted'
  BY BoundsAssumption DEF IInv, Accounted, account, ledger, Boot, RT!Finished
<1>7. QED
  BY <1>1, <1>2, <1>3, <1>4, <1>5, <1>6 DEF IInv

\* It dies.
LEMMA CrashInv ==
  ASSUME IInv, Reliable, Crash
  PROVE  IInv'
<1>1. TypeOK' /\ Current' /\ Saved'
  BY BoundsAssumption DEF IInv, TypeOK, account, cache, ledger, NoRec, Nobody, Pcs,
                          Fault, Crash, Current, Saved
<1>2. SellsTracked' /\ OpenTracked' /\ SeenTracked'
  BY DEF IInv, SellsTracked, account, cache, ledger, NoRec, Nobody, Fault, Crash,
         OpenTracked, SeenTracked
<1>3. Missed'
  BY BoundsAssumption DEF IInv, Missed, account, cache, ledger, NoRec, Nobody,
                          Fault, Crash
<1>4. Dropping'
  BY BoundsAssumption DEF IInv, Dropping, account, cache, ledger, NoRec, Nobody,
                          Fault, Crash
<1>5. Entering'
  BY BoundsAssumption DEF IInv, Entering, account, cache, ledger, NoRec, Nobody,
                          Fault, Crash
<1>6. Accounted'
  BY BoundsAssumption DEF IInv, Accounted, account, cache, ledger, NoRec, Nobody,
                          Fault, Crash, RT!Finished
<1>7. QED
  BY <1>1, <1>2, <1>3, <1>4, <1>5, <1>6 DEF IInv

\* The stop fires.
LEMMA StopFiresInv ==
  ASSUME IInv, Reliable, NEW s \in Symbols, StopFires(s)
  PROVE  IInv'
<1>1. TypeOK' /\ Current' /\ Saved'
  BY BoundsAssumption DEF IInv, TypeOK, cache, ledger, Nobody, Pcs, StopFires,
                          Current, Saved
<1>2. SellsTracked' /\ Missed'
  BY BoundsAssumption DEF IInv, SellsTracked, cache, ledger, StopFires, Missed
<1>3. OpenTracked'
  BY BoundsAssumption DEF IInv, Reliable, Current, Saved, SellsTracked, OpenTracked,
                          SeenTracked, Missed, Dropping, Entering, Accounted, cache,
                          ledger, StopFires, RT!Finished
<1>4. SeenTracked'
  BY BoundsAssumption DEF IInv, Reliable, TypeOK, Current, Saved, SellsTracked,
                          OpenTracked, SeenTracked, Missed, Dropping, Entering,
                          Accounted, cache, ledger, Nobody, Pcs, StopFires,
                          RT!Finished
<1>5. Dropping'
  BY BoundsAssumption DEF IInv, Dropping, cache, ledger, StopFires
<1>6. Entering'
  BY BoundsAssumption DEF IInv, Entering, cache, ledger, StopFires
<1>7. Accounted'
  BY BoundsAssumption DEF IInv, Accounted, cache, ledger, StopFires, RT!Finished
<1>8. QED
  BY <1>1, <1>2, <1>3, <1>4, <1>5, <1>6, <1>7 DEF IInv

\* A market SELL fills.
LEMMA MarketFillsInv ==
  ASSUME IInv, Reliable, NEW s \in Symbols, MarketFills(s)
  PROVE  IInv'
<1>1. TypeOK' /\ Current' /\ Saved'
  BY BoundsAssumption DEF IInv, TypeOK, cache, ledger, Nobody, Pcs, MarketFills,
                          Current, Saved
<1>2. SellsTracked' /\ Missed'
  BY BoundsAssumption DEF IInv, SellsTracked, cache, ledger, MarketFills, Missed
<1>3. OpenTracked'
  BY BoundsAssumption DEF IInv, SellsTracked, OpenTracked, cache, ledger,
                          MarketFills
<1>4. SeenTracked'
  BY BoundsAssumption DEF IInv, SellsTracked, SeenTracked, cache, ledger,
                          MarketFills
<1>5. Dropping'
  BY BoundsAssumption DEF IInv, Dropping, cache, ledger, MarketFills
<1>6. Entering'
  BY BoundsAssumption DEF IInv, Entering, cache, ledger, MarketFills
<1>7. Accounted'
  BY BoundsAssumption DEF IInv, Accounted, cache, ledger, MarketFills, RT!Finished
<1>8. QED
  BY <1>1, <1>2, <1>3, <1>4, <1>5, <1>6, <1>7 DEF IInv

\* It ends without a fill.
LEMMA MarketEndsInv ==
  ASSUME IInv, Reliable, NEW s \in Symbols, MarketEnds(s)
  PROVE  IInv'
<1>1. TypeOK' /\ Current' /\ Saved'
  BY BoundsAssumption DEF IInv, TypeOK, cache, ledger, Nobody, Pcs, MarketEnds,
                          Current, Saved
<1>2. SellsTracked' /\ OpenTracked' /\ SeenTracked'
  BY DEF IInv, SellsTracked, cache, ledger, MarketEnds, OpenTracked, SeenTracked
<1>3. Missed'
  BY BoundsAssumption DEF IInv, Missed, cache, ledger, MarketEnds
<1>4. Dropping'
  BY BoundsAssumption DEF IInv, Dropping, cache, ledger, MarketEnds
<1>5. Entering'
  BY BoundsAssumption DEF IInv, Entering, cache, ledger, MarketEnds
<1>6. Accounted'
  BY BoundsAssumption DEF IInv, Accounted, cache, ledger, MarketEnds, RT!Finished
<1>7. QED
  BY <1>1, <1>2, <1>3, <1>4, <1>5, <1>6 DEF IInv

\* The cache catches up.
LEMMA CatchUpInv ==
  ASSUME IInv, Reliable, NEW s \in Symbols, CatchUp(s)
  PROVE  IInv'
<1>1. TypeOK' /\ Current' /\ Saved'
  BY BoundsAssumption DEF IInv, TypeOK, account, ledger, Nobody, Pcs, CatchUp,
                          Current, Saved
<1>2. SellsTracked' /\ OpenTracked' /\ SeenTracked'
  BY DEF IInv, SellsTracked, account, ledger, CatchUp, OpenTracked, SeenTracked
<1>3. Missed'
  BY BoundsAssumption DEF IInv, Missed, account, ledger, CatchUp
<1>4. Dropping'
  BY BoundsAssumption DEF IInv, Dropping, account, ledger, CatchUp
<1>5. Entering'
  BY BoundsAssumption DEF IInv, Entering, account, ledger, CatchUp
<1>6. Accounted'
  BY BoundsAssumption DEF IInv, Accounted, account, ledger, CatchUp, RT!Finished
<1>7. QED
  BY <1>1, <1>2, <1>3, <1>4, <1>5, <1>6 DEF IInv

\* The cache loses symbols.
LEMMA CacheDropsInv ==
  ASSUME IInv, Reliable, CacheDrops
  PROVE  IInv'
<1>1. Current' /\ Saved' /\ SellsTracked'
  BY DEF IInv, Current, account, ledger, Fault, CacheDrops, Saved, SellsTracked
<1>2. OpenTracked' /\ SeenTracked' /\ Missed'
  BY BoundsAssumption DEF IInv, OpenTracked, account, ledger, Fault, CacheDrops,
                          SeenTracked, Missed
<1>3. TypeOK'
  BY BoundsAssumption DEF IInv, Reliable, TypeOK, Current, Saved, SellsTracked,
                          OpenTracked, SeenTracked, Missed, Dropping, Entering,
                          Accounted, account, ledger, Nobody, Pcs, Fault,
                          CacheDrops, RT!Finished
<1>4. Dropping'
  BY BoundsAssumption DEF IInv, TypeOK, Dropping, account, ledger, Nobody, Pcs,
                          Fault, CacheDrops
<1>5. Entering'
  BY BoundsAssumption DEF IInv, Entering, account, ledger, Fault, CacheDrops
<1>6. Accounted'
  BY BoundsAssumption DEF IInv, Accounted, account, ledger, Fault, CacheDrops,
                          RT!Finished
<1>7. QED
  BY <1>1, <1>2, <1>3, <1>4, <1>5, <1>6 DEF IInv

LEMMA StutterInv == ASSUME IInv, UNCHANGED vars PROVE IInv'
<1>1. TypeOK' /\ Current' /\ Saved' /\ SellsTracked' /\ OpenTracked' /\ SeenTracked'
  BY DEF IInv, TypeOK, Current, Saved, SellsTracked, OpenTracked, SeenTracked, vars,
         account, cache, ledger
<1>2. Missed' /\ Dropping' /\ Entering'
  BY DEF IInv, Missed, Dropping, Entering, vars, account, cache, ledger
<1>3. Accounted'
  BY DEF IInv, Accounted, RT!Finished, vars, account, cache, ledger
<1>4. QED
  BY <1>1, <1>2, <1>3 DEF IInv

LEMMA NextInv == ASSUME Reliable PROVE IInv /\ [Next]_vars => IInv'
<1> SUFFICES ASSUME IInv, [Next]_vars PROVE IInv'
  OBVIOUS
<1>1. CASE Sync
  <2>1. CASE SyncCached \/ SyncRechecked \/ SyncSkipped \/ DropRecord \/ SyncEnds
    BY <2>1, SyncCachedInv, SyncRecheckedInv, SyncSkippedInv, DropRecordInv,
       SyncEndsInv
  <2>2. ASSUME NEW s \in Symbols, Defer(s) \/ DropClose(s) PROVE IInv'
    BY <2>2, DeferInv, DropCloseInv
  <2>3. QED
    BY <1>1, <2>1, <2>2 DEF Sync
<1>2. CASE Exits
  <2>1. CASE ExitFilled \/ ExitRejected \/ ExitUnconfirmed \/ ExitDropsRecord
    BY <2>1, ExitFilledInv, ExitRejectedInv, ExitUnconfirmedInv, ExitDropsRecordInv
  <2>2. ASSUME NEW s \in Symbols, ExitDeferred(s) \/ ExitSends(s) \/ ExitNoPosition(s)
        PROVE  IInv'
    BY <2>2, ExitDeferredInv, ExitSendsInv, ExitNoPositionInv
  <2>3. QED
    BY <1>2, <2>1, <2>2 DEF Exits
<1>3. CASE Entry
  <2>1. ASSUME NEW s \in Symbols, BuyFills(s) \/ BuyFillsLate(s) PROVE IInv'
    BY <2>1, BuyFillsInv, BuyFillsLateInv
  <2>2. QED
    BY <1>3, <2>1, RecordEntryInv, LedgerEntryInv DEF Entry
<1>4. CASE World
  <2>1. ASSUME NEW s \in Symbols,
               StopFires(s) \/ MarketFills(s) \/ MarketEnds(s) \/ CatchUp(s)
        PROVE  IInv'
    BY <2>1, StopFiresInv, MarketFillsInv, MarketEndsInv, CatchUpInv
  <2>2. QED
    BY <1>4, <2>1, CrashInv, CacheDropsInv DEF World
<1>5. QED
  BY <1>1, <1>2, <1>3, <1>4, BootInv, CycleEndsInv, StutterInv DEF Next, Engine

LEMMA Inductive == ASSUME Reliable PROVE Spec => []IInv
<1>1. Init => IInv
  BY InitIInv
<1>2. IInv /\ [Next]_vars => IInv'
  BY NextInv
<1>3. QED
  BY <1>1, <1>2, PTL DEF Spec

\* Records, snapshots and ledger keep to their types.
THEOREM TypeCorrect == ASSUME Reliable PROVE Spec => []TypeOK
<1>1. IInv => TypeOK
  BY DEF IInv
<1>2. QED
  BY <1>1, Inductive, PTL

-----------------------------------------------------------------------------
(* The implementation of RoundTrips: Init, and every step. *)

LEMMA InitRefined == Init => RT!Init
BY DEF Init, RT!Init

\* A close_trade for a position that has ended accounts for it, or repeats a row.
LEMMA CloseRefined ==
  ASSUME TypeOK, NEW s \in Symbols, CloseTrade(s, trips[s]),
         UNCHANGED << held, trips >>,
         trips[s] \in RT!Finished(s), open[s] \in {0, trips[s]},
         trips[s] \in RT!RowsOf(history[s]) => open[s] = 0
  PROVE  RT!Account(s) \/ RT!Repeat(s)
<1>1. history' = [ history EXCEPT ![s] = Append(@, RT!Row(trips[s], open[s])) ]
  BY DEF CloseTrade
<1>2. CASE trips[s] \in RT!RowsOf(history[s])
  BY <1>1, <1>2 DEF RT!Repeat
<1>3. CASE trips[s] \notin RT!RowsOf(history[s])
  BY <1>1, <1>3 DEF RT!Account
<1>4. QED
  BY <1>2, <1>3

\* What leaves the account and the history alone is a stutter.
LEMMA QuietRefined ==
  ASSUME UNCHANGED << held, trips, history >>
  PROVE  [RT!Next]_RT!rtVars
BY DEF RT!rtVars

LEMMA SyncRefined == ASSUME IInv, Reliable, Sync PROVE [RT!Next]_RT!rtVars
<1>1. CASE SyncCached \/ SyncRechecked \/ SyncSkipped \/ DropRecord \/ SyncEnds
  BY <1>1, QuietRefined DEF SyncCached, SyncRechecked, SyncSkipped, DropRecord,
                            SyncEnds, Present, account, ledger
<1>2. ASSUME NEW s \in Symbols, Defer(s) PROVE [RT!Next]_RT!rtVars
  BY <1>2, QuietRefined DEF Defer, account, ledger
<1>3. ASSUME NEW s \in Symbols, DropClose(s) PROVE [RT!Next]_RT!rtVars
  <2>1. /\ rec[s].trip = trips[s] /\ trips[s] \in Nat \ {0} /\ ~held[s]
        /\ open[s] \in {0, trips[s]}
    BY <1>3 DEF IInv, TypeOK, Current, Dropping, DropClose
  <2>2. trips[s] \in RT!Finished(s)
    BY <2>1 DEF RT!Finished
  <2>3. CloseTrade(s, trips[s]) /\ UNCHANGED << held, trips >>
    BY <1>3, <2>1 DEF DropClose
  <2>4. trips[s] \in RT!RowsOf(history[s]) => open[s] = 0
    BY DEF IInv, Accounted
  <2>5. QED
    BY <2>1, <2>2, <2>3, <2>4, CloseRefined DEF IInv, RT!Next
<1>4. QED
  BY <1>1, <1>2, <1>3 DEF Sync

LEMMA ExitsRefined == ASSUME IInv, Reliable, Exits PROVE [RT!Next]_RT!rtVars
<1>1. CASE ExitFilled \/ ExitRejected \/ ExitUnconfirmed \/ ExitDropsRecord
  BY <1>1, QuietRefined DEF ExitFilled, ExitRejected, ExitUnconfirmed,
                            ExitDropsRecord, account, ledger
<1>2. ASSUME NEW s \in Symbols, ExitDeferred(s) \/ ExitSends(s)
      PROVE  [RT!Next]_RT!rtVars
  BY <1>2, QuietRefined DEF ExitDeferred, ExitSends, account, ledger
<1>3. ASSUME NEW s \in Symbols, ExitNoPosition(s) PROVE [RT!Next]_RT!rtVars
  <2>1. /\ rec[s].trip = trips[s] /\ trips[s] \in Nat \ {0} /\ ~held[s]
        /\ open[s] \in {0, trips[s]}
    BY <1>3
    DEF IInv, TypeOK, Reliable, Current, ExitNoPosition, ExitDue, Sighted, Tracked
  <2>2. trips[s] \in RT!Finished(s)
    BY <2>1 DEF RT!Finished
  <2>3. CloseTrade(s, trips[s]) /\ UNCHANGED << held, trips >>
    BY <1>3, <2>1 DEF ExitNoPosition
  <2>4. trips[s] \in RT!RowsOf(history[s]) => open[s] = 0
    BY DEF IInv, Accounted
  <2>5. QED
    BY <2>1, <2>2, <2>3, <2>4, CloseRefined DEF IInv, RT!Next
<1>4. QED
  BY <1>1, <1>2, <1>3 DEF Exits

LEMMA EntryRefined == ASSUME IInv, Reliable, Entry PROVE [RT!Next]_RT!rtVars
<1>1. CASE RecordEntry
  BY <1>1, QuietRefined DEF RecordEntry, account, ledger
<1>2. CASE LedgerEntry
  <2>1. open[cur] = 0
    BY <1>2 DEF IInv, Entering, LedgerEntry
  <2>2. QED
    BY <1>2, <2>1, QuietRefined DEF LedgerEntry, OpenFresh, account
<1>3. ASSUME NEW s \in Symbols, BuyFills(s) \/ BuyFillsLate(s)
      PROVE  [RT!Next]_RT!rtVars
  <2>1. ~held[s] /\ Bought(s) /\ UNCHANGED history
    BY <1>3 DEF Reliable, BuyFills, BuyFillsLate, MayBuy, ledger
  <2>2. RT!Buy(s)
    BY <2>1 DEF Bought, RT!Buy
  <2>3. QED
    BY <2>2 DEF RT!Next
<1>4. QED
  BY <1>1, <1>2, <1>3 DEF Entry

LEMMA WorldRefined == ASSUME World PROVE [RT!Next]_RT!rtVars
<1>1. CASE Crash \/ CacheDrops
  BY <1>1, QuietRefined DEF Crash, CacheDrops, account, ledger
<1>2. ASSUME NEW s \in Symbols, MarketEnds(s) \/ CatchUp(s) PROVE [RT!Next]_RT!rtVars
  BY <1>2, QuietRefined DEF MarketEnds, CatchUp, account, ledger
<1>3. ASSUME NEW s \in Symbols, StopFires(s) \/ MarketFills(s)
      PROVE  [RT!Next]_RT!rtVars
  <2>1. RT!Sell(s)
    BY <1>3 DEF StopFires, MarketFills, ledger, RT!Sell
  <2>2. QED
    BY <2>1 DEF RT!Next
<1>4. QED
  BY <1>1, <1>2, <1>3 DEF World

\* The trade ledger implements RoundTrips for any symbols and number of positions,
\* whatever the snapshots, exits and restarts in between: a row for a position that
\* has ended only, from its own open record or marked, and none twice unless marked.
THEOREM Implements == ASSUME Reliable PROVE Spec => KeepsRoundTrips
<1>1. IInv /\ [Next]_vars => [RT!Next]_RT!rtVars
  <2> SUFFICES ASSUME IInv, [Next]_vars PROVE [RT!Next]_RT!rtVars
    OBVIOUS
  <2>1. CASE Boot \/ CycleEnds
    BY <2>1, QuietRefined DEF Boot, CycleEnds, account, ledger
  <2>2. CASE UNCHANGED vars
    BY <2>2, QuietRefined DEF vars, account, ledger
  <2>3. QED
    BY <2>1, <2>2, SyncRefined, ExitsRefined, EntryRefined, WorldRefined DEF Next,
         Engine
<1>2. QED
  BY <1>1, InitRefined, Inductive, PTL DEF Spec, KeepsRoundTrips, RT!Spec

-----------------------------------------------------------------------------
(* A held position keeps its record. *)

\* A record goes when the second snapshot misses the symbol, or no position is found
\* to sell, and then the position has ended; otherwise only a crash takes it.
LEMMA RecordKept ==
  ASSUME IInv, [Next]_vars, NEW s \in Symbols, held[s], s \in Tracked
  PROVE  rec'[s].trip # 0 \/ pc' = "boot"
<1>1. rec[s].trip # 0
  BY DEF Tracked
<1>2. CASE Sync
  <2>1. CASE SyncCached \/ SyncRechecked
    BY <1>1, <2>1 DEF IInv, TypeOK, SyncCached, SyncRechecked, Present, Tracked
  <2>2. CASE SyncSkipped \/ SyncEnds
    BY <1>1, <2>2 DEF SyncSkipped, SyncEnds
  <2>3. CASE DropRecord
    BY <1>1, <2>3 DEF IInv, TypeOK, Dropping, DropRecord
  <2>4. ASSUME NEW t \in Symbols, Defer(t) \/ DropClose(t) PROVE rec' = rec
    BY <2>4 DEF Defer, DropClose
  <2>5. QED
    BY <1>1, <1>2, <2>1, <2>2, <2>3, <2>4 DEF Sync
<1>3. CASE Exits
  <2>1. CASE ExitFilled \/ ExitUnconfirmed
    BY <1>1, <2>1 DEF ExitFilled, ExitUnconfirmed
  <2>2. CASE ExitRejected
    BY <1>1, <2>2 DEF IInv, TypeOK, ExitRejected
  <2>3. CASE ExitDropsRecord
    BY <1>1, <2>3 DEF IInv, TypeOK, Dropping, ExitDropsRecord
  <2>4. ASSUME NEW t \in Symbols, ExitDeferred(t) \/ ExitNoPosition(t)
        PROVE  rec' = rec
    BY <2>4 DEF ExitDeferred, ExitNoPosition
  <2>5. ASSUME NEW t \in Symbols, ExitSends(t) PROVE rec'[s].trip # 0
    BY <1>1, <2>5 DEF IInv, TypeOK, ExitSends
  <2>6. QED
    BY <1>1, <1>3, <2>1, <2>2, <2>3, <2>4, <2>5 DEF Exits
<1>4. CASE Entry
  <2>1. CASE RecordEntry
    BY <1>1, <2>1 DEF IInv, TypeOK, Entering, RecordEntry
  <2>2. CASE LedgerEntry
    BY <1>1, <2>2 DEF LedgerEntry
  <2>3. ASSUME NEW t \in Symbols, BuyFills(t) \/ BuyFillsLate(t) PROVE rec' = rec
    BY <2>3 DEF BuyFills, BuyFillsLate
  <2>4. QED
    BY <1>1, <1>4, <2>1, <2>2, <2>3 DEF Entry
<1>5. CASE World
  <2>1. CASE Crash
    BY <2>1 DEF Crash
  <2>2. CASE CacheDrops
    BY <1>1, <2>2 DEF CacheDrops
  <2>3. ASSUME NEW t \in Symbols,
               StopFires(t) \/ MarketFills(t) \/ MarketEnds(t) \/ CatchUp(t)
        PROVE  rec' = rec
    BY <2>3 DEF StopFires, MarketFills, MarketEnds, CatchUp
  <2>4. QED
    BY <1>1, <1>5, <2>1, <2>2, <2>3 DEF World
<1>6. CASE CycleEnds
  BY <1>1, <1>6 DEF CycleEnds
<1>7. CASE Boot
  BY <1>1, <1>7 DEF IInv, Saved, Boot
<1>8. CASE UNCHANGED vars
  BY <1>1, <1>8 DEF vars
<1>9. QED
  BY <1>2, <1>3, <1>4, <1>5, <1>6, <1>7, <1>8 DEF Next, Engine

\* The rule of two snapshots keeps its promise: no sync and no exit drops the record
\* of a position that the account holds.
THEOREM HeldKeepsRecord == ASSUME Reliable PROVE Spec => HeldStaysTracked
<1>1. IInv /\ [Next]_vars
        => [\A s \in Symbols : held[s] /\ s \in Tracked
                                 => rec'[s].trip # 0 \/ pc' = "boot"]_vars
  BY RecordKept
<1>2. QED
  BY <1>1, Inductive, PTL DEF Spec, HeldStaysTracked
=============================================================================
