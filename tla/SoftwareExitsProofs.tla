------------------------- MODULE SoftwareExitsProofs -------------------------
(***************************************************************************)
(* A position that has shown a gain is never sold as one that never did,   *)
(* and the operator is told of every position without a price unless the   *)
(* symbol is bought again on the day it was sold: for all prices, limits,  *)
(* calendars and adverse events.                                           *)
(***************************************************************************)
EXTENDS SoftwareExits, TLAPS

RecordType == [ tracked : BOOLEAN, exiting : BOOLEAN, cached : Prices \cup {0},
                age : 0 .. MaxAge + 1, peak : Prices \cup {100},
                entered : Sessions, checked : Sessions \cup {0}, trail : BOOLEAN ]

\* A reason to sell is forgotten when liquidate returns.
ReasonAtHand == why # "none" => pc = "liquidate"

\* The peak of a record is no lower than any price a quote showed.
PeakKnown == rec.tracked => best <= rec.peak /\ 100 <= rec.peak

\* Passes without a price are counted, and the alert sent, as the code counts them.
MissesCounted ==
  /\ own <= misses
  /\ inherited < AlertStreak => (alerted <=> misses >= AlertStreak)

IInv == TypeOK /\ ReasonAtHand /\ PeakKnown /\ NoLoserExitAfterGain /\ MissesCounted

LEMMA Constants ==
  /\ HardStop \in Nat /\ HardStop <= 100 /\ Buffer \in Nat /\ MaxAge \in Nat
  /\ AlertStreak \in Nat /\ AlertStreak > 0 /\ LoserPeak \in Nat
  /\ Cycles \in Nat /\ Cycles > 0
  /\ Days \in Nat /\ MaxFaults \in Nat
  /\ Prices \subseteq Nat \ {0}
  /\ Sessions \subseteq 1 .. Days /\ 1 \in Sessions
BY ExitsAssumption

LEMMA NewRecordTyped ==
  ASSUME NEW d \in Sessions, NEW trail \in BOOLEAN
  PROVE  /\ NewRecord(d, trail) \in RecordType
         /\ NewRecord(d, trail).peak = 100 /\ NewRecord(d, trail).tracked
BY Constants DEF NewRecord, RecordType

LEMMA InitIInv == Init => IInv
<1> SUFFICES ASSUME Init PROVE IInv
  OBVIOUS
<1>1. rec \in RecordType /\ rec.peak = 100
  BY Constants, NewRecordTyped DEF Init
<1>2. TypeOK
  <2>1. held \in BOOLEAN /\ alerted \in BOOLEAN /\ missed \in BOOLEAN
    BY Zenon DEF Init
  <2>2. /\ misses \in 0 .. AlertStreak + 1 /\ own \in 0 .. AlertStreak
        /\ inherited \in 0 .. AlertStreak + 1
        /\ day \in Sessions /\ cycle \in 1 .. Cycles /\ faults \in 0 .. MaxFaults
        /\ best \in Prices \cup {0} /\ price \in Prices
        /\ pc = "manage" /\ why \in Reasons
    BY Constants DEF Init, Reasons
  <2>3. QED
    BY <1>1, <2>1, <2>2, Zenon DEF TypeOK, RecordType
<1>3. ReasonAtHand /\ PeakKnown /\ NoLoserExitAfterGain /\ MissesCounted
  BY <1>1, Constants DEF Init, ReasonAtHand, PeakKnown, NoLoserExitAfterGain,
                         MissesCounted, Capped
<1>4. QED
  BY <1>2, <1>3 DEF IInv

LEMMA Numbers ==
  ASSUME TypeOK
  PROVE  rec.peak \in Nat /\ price \in Nat /\ best \in Nat
<1>1. rec.peak \in Prices \cup {100} /\ price \in Prices /\ best \in Prices \cup {0}
  BY DEF TypeOK
<1>2. \A x \in Prices : x \in Nat
  BY Constants, Zenon
<1>3. QED
  BY <1>1, <1>2

\* What a quote makes of a record.
LEMMA QuoteTyped ==
  ASSUME TypeOK, PeakKnown
  PROVE  /\ Quoted \in RecordType /\ WithPeak \in RecordType
         /\ Quoted.tracked = rec.tracked /\ Quoted.peak = rec.peak
         /\ WithPeak.tracked = rec.tracked
         /\ WithPeak.peak = Larger(rec.peak, price)
         /\ WithPeak.tracked => /\ Larger(best, price) <= WithPeak.peak
                                /\ 100 <= WithPeak.peak
         /\ Larger(best, price) \in Prices \cup {0}
<1> DEFINE r == [ rec EXCEPT !.cached = price, !.age = 0 ]
<1>1. rec \in RecordType /\ price \in Prices /\ 0 \in 0 .. MaxAge + 1
  BY Constants DEF TypeOK, RecordType
<1>2. r \in RecordType /\ r.tracked = rec.tracked /\ r.peak = rec.peak
  BY <1>1 DEF RecordType
<1>3. Quoted \in RecordType /\ Quoted.tracked = rec.tracked /\ Quoted.peak = rec.peak
  BY <1>2 DEF Quoted
<1>4. Larger(rec.peak, price) \in Prices \cup {100}
  BY Constants DEF TypeOK, Larger
<1>5. /\ WithPeak \in RecordType /\ WithPeak.tracked = rec.tracked
      /\ WithPeak.peak = Larger(rec.peak, price)
  BY <1>3, <1>4 DEF WithPeak, RecordType
<1>6. Larger(best, price) \in Prices \cup {0}
  BY DEF TypeOK, Larger
<1>7. rec.tracked => /\ Larger(best, price) <= Larger(rec.peak, price)
                     /\ 100 <= Larger(rec.peak, price)
  BY Numbers DEF PeakKnown, Larger
<1>8. QED
  BY <1>3, <1>5, <1>6, <1>7

\* A pass with a quote keeps to the types if what it writes does.
LEMMA PricedTyped ==
  ASSUME TypeOK, PeakKnown, Priced, rec' \in RecordType, why' \in Reasons,
         pc' \in {"liquidate", "refresh"}
  PROVE  TypeOK'
<1>1. alerted' \in BOOLEAN /\ held' \in BOOLEAN /\ missed' \in BOOLEAN
  BY Zenon DEF TypeOK, Priced
<1>2. /\ misses' \in 0 .. AlertStreak + 1 /\ own' \in 0 .. AlertStreak
      /\ inherited' \in 0 .. AlertStreak + 1
  BY Constants DEF Priced
<1>3. best' \in Prices \cup {0}
  BY QuoteTyped DEF Priced
<1>4. /\ price' \in Prices /\ day' \in Sessions /\ cycle' \in 1 .. Cycles
      /\ faults' \in 0 .. MaxFaults
  BY DEF TypeOK, Priced, clock
<1>5. QED
  BY <1>1, <1>2, <1>3, <1>4 DEF TypeOK, RecordType

LEMMA SyncTyped ==
  ASSUME TypeOK, PeakKnown
  PROVE  /\ Synced \in RecordType
         /\ Synced.tracked => best <= Synced.peak /\ 100 <= Synced.peak
<1>1. NoRecord \in RecordType /\ NoRecord.tracked = FALSE
  <2>1. NewRecord(1, FALSE) \in RecordType
    BY Constants DEF NewRecord, RecordType
  <2>2. QED
    BY <2>1 DEF NoRecord, RecordType
<1>2. [ rec EXCEPT !.exiting = FALSE ] \in RecordType
  BY DEF TypeOK, RecordType
<1>3. QED
  BY <1>1, <1>2 DEF TypeOK, PeakKnown, Synced

\* The audit records the terms of the stop.
LEMMA AuditedInv == ASSUME IInv, Audited PROVE IInv'
<1>1. rec' \in RecordType /\ rec'.peak = rec.peak /\ rec'.tracked = rec.tracked
  BY DEF IInv, TypeOK, RecordType, Audited
<1>2. TypeOK'
  BY <1>1 DEF IInv, TypeOK, RecordType, Audited, clock, past
<1>3. ReasonAtHand' /\ PeakKnown' /\ NoLoserExitAfterGain' /\ MissesCounted'
  BY <1>1 DEF IInv, ReasonAtHand, PeakKnown, NoLoserExitAfterGain, MissesCounted,
              Audited, past
<1>4. QED
  BY <1>2, <1>3 DEF IInv

\* A pass without a quote.
LEMMA UnpricedInv == ASSUME IInv, Unpriced PROVE IInv'
<1>1. rec' \in RecordType /\ (rec'.tracked => best' <= rec'.peak /\ 100 <= rec'.peak)
  BY Constants DEF IInv, PeakKnown, Unpriced, LookedAt, Calls, Fault, RecordType,
                   TypeOK, engine, clock, past
<1>2. TypeOK'
  BY <1>1, Constants DEF IInv, TypeOK, RecordType, Reasons, Capped, Unpriced,
                         LookedAt, Calls, Fault, engine, clock, past
<1>3. ReasonAtHand'
  BY DEF IInv, ReasonAtHand, Unpriced, LookedAt, Calls, Fault, engine, clock, past
<1>4. NoLoserExitAfterGain'
  BY <1>1, Constants DEF IInv, TypeOK, ReasonAtHand, NoLoserExitAfterGain, Unpriced,
                         LookedAt, Calls, Fault, engine, clock, past
<1>5. MissesCounted'
  BY Constants DEF IInv, TypeOK, MissesCounted, Capped, Unpriced, LookedAt, Calls,
                   Fault, engine, clock, past
<1>6. QED
  BY <1>1, <1>2, <1>3, <1>4, <1>5 DEF IInv, PeakKnown

\* The hard stop.
LEMMA PricedHardStopInv == ASSUME IInv, PricedHardStop PROVE IInv'
<1>1. rec' \in RecordType /\ (rec'.tracked => best' <= rec'.peak /\ 100 <= rec'.peak)
  <2>1. /\ rec' = Quoted /\ best' = Larger(best, price) /\ price <= HardStop
        /\ rec.tracked
    BY DEF PricedHardStop, Priced, LookedAt
  <2>2. Larger(best, price) <= rec.peak /\ 100 <= rec.peak
    BY <2>1, Numbers, Constants DEF IInv, PeakKnown, Larger
  <2>3. QED
    BY <2>1, <2>2, QuoteTyped DEF IInv
<1>2. TypeOK'
  BY <1>1, PricedTyped DEF IInv, TypeOK, Reasons, Calls, PricedHardStop, LookedAt,
                           engine
<1>3. ReasonAtHand'
  BY DEF IInv, ReasonAtHand, PricedHardStop, Calls, Priced, LookedAt, engine, clock,
         past
<1>4. NoLoserExitAfterGain'
  BY <1>1, QuoteTyped, Constants DEF IInv, TypeOK, ReasonAtHand,
                                     NoLoserExitAfterGain, PricedHardStop, Calls,
                                     Priced, LookedAt, engine, clock, past
<1>5. MissesCounted'
  BY Constants DEF IInv, TypeOK, MissesCounted, Capped, PricedHardStop, Calls,
                   Priced, LookedAt, engine, clock, past
<1>6. QED
  BY <1>1, <1>2, <1>3, <1>4, <1>5 DEF IInv, PeakKnown

\* A signal.
LEMMA SignalExitInv == ASSUME IInv, SignalExit PROVE IInv'
<1>1. rec' \in RecordType /\ (rec'.tracked => best' <= rec'.peak /\ 100 <= rec'.peak)
  BY QuoteTyped, Constants DEF IInv, PeakKnown, SignalExit, Calls, AboveHardStop,
                               Priced, LookedAt, engine, clock, past
<1>2. TypeOK'
  BY <1>1, PricedTyped DEF IInv, TypeOK, Reasons, Calls, SignalExit, AboveHardStop,
                           LookedAt, engine
<1>3. ReasonAtHand'
  BY DEF IInv, ReasonAtHand, SignalExit, Calls, AboveHardStop, Priced, LookedAt,
         engine, clock, past
<1>4. NoLoserExitAfterGain'
  BY <1>1, QuoteTyped, Constants DEF IInv, TypeOK, ReasonAtHand,
                                     NoLoserExitAfterGain, SignalExit, Calls,
                                     AboveHardStop, Priced, LookedAt, engine, clock,
                                     past
<1>5. MissesCounted'
  BY Constants DEF IInv, TypeOK, MissesCounted, Capped, SignalExit, Calls,
                   AboveHardStop, Priced, LookedAt, engine, clock, past
<1>6. QED
  BY <1>1, <1>2, <1>3, <1>4, <1>5 DEF IInv, PeakKnown

\* The time stop.
LEMMA TimeStopInv == ASSUME IInv, TimeStop PROVE IInv'
<1>1. rec' \in RecordType /\ (rec'.tracked => best' <= rec'.peak /\ 100 <= rec'.peak)
  BY QuoteTyped, Constants DEF IInv, PeakKnown, TimeStop, Calls, AboveHardStop,
                               Priced, LookedAt, engine, clock, past
<1>2. TypeOK'
  BY <1>1, PricedTyped DEF IInv, TypeOK, Reasons, Calls, TimeStop, AboveHardStop,
                           LookedAt, engine
<1>3. ReasonAtHand'
  BY DEF IInv, ReasonAtHand, TimeStop, Calls, AboveHardStop, Priced, LookedAt,
         engine, clock, past
<1>4. NoLoserExitAfterGain'
  BY <1>1, QuoteTyped, Constants DEF IInv, TypeOK, ReasonAtHand,
                                     NoLoserExitAfterGain, TimeStop, Calls,
                                     AboveHardStop, Priced, LookedAt, engine, clock,
                                     past
<1>5. MissesCounted'
  BY Constants DEF IInv, TypeOK, MissesCounted, Capped, TimeStop, Calls,
                   AboveHardStop, Priced, LookedAt, engine, clock, past
<1>6. QED
  BY <1>1, <1>2, <1>3, <1>4, <1>5 DEF IInv, PeakKnown

\* The stale loser: no quote of it showed the gain.
LEMMA StaleLoserInv == ASSUME IInv, StaleLoser PROVE IInv'
<1>1. rec' \in RecordType /\ (rec'.tracked => best' <= rec'.peak /\ 100 <= rec'.peak)
  BY QuoteTyped, Constants DEF IInv, PeakKnown, StaleLoser, LoserDue, Calls,
                               AboveHardStop, Priced, LookedAt, engine, clock, past
<1>2. TypeOK'
  BY <1>1, PricedTyped DEF IInv, TypeOK, Reasons, Calls, StaleLoser, LoserDue,
                           AboveHardStop, LookedAt, engine
<1>3. ReasonAtHand'
  BY DEF IInv, ReasonAtHand, StaleLoser, LoserDue, Calls, AboveHardStop, Priced,
         LookedAt, engine, clock, past
<1>4. NoLoserExitAfterGain'
  <2>1. Larger(rec.peak, price) < LoserPeak
    BY QuoteTyped DEF IInv, StaleLoser, LoserDue
  <2>2. best' = Larger(best, price) /\ rec.tracked
    BY DEF StaleLoser, AboveHardStop, Priced, LookedAt
  <2>3. Larger(best, price) <= Larger(rec.peak, price)
    BY <2>2, QuoteTyped DEF IInv
  <2>4. QED
    BY <2>1, <2>2, <2>3, Numbers, Constants DEF IInv, NoLoserExitAfterGain, Larger
<1>5. MissesCounted'
  BY Constants DEF IInv, TypeOK, MissesCounted, Capped, StaleLoser, LoserDue, Calls,
                   AboveHardStop, Priced, LookedAt, engine, clock, past
<1>6. QED
  BY <1>1, <1>2, <1>3, <1>4, <1>5 DEF IInv, PeakKnown

\* The momentum check fails ...
LEMMA MomentumStallsInv == ASSUME IInv, MomentumStalls PROVE IInv'
<1>1. rec' \in RecordType /\ (rec'.tracked => best' <= rec'.peak /\ 100 <= rec'.peak)
  BY QuoteTyped, Constants DEF IInv, PeakKnown, MomentumStalls, Unhurried, Calls,
                               AboveHardStop, Priced, LookedAt, RecordType, TypeOK,
                               engine, clock, past
<1>2. TypeOK'
  BY <1>1, PricedTyped DEF IInv, TypeOK, Reasons, Calls, MomentumStalls, Unhurried,
                           AboveHardStop, LookedAt, engine
<1>3. ReasonAtHand'
  BY DEF IInv, ReasonAtHand, MomentumStalls, Unhurried, Calls, AboveHardStop,
         Priced, LookedAt, engine, clock, past
<1>4. NoLoserExitAfterGain'
  BY <1>1, QuoteTyped, Constants DEF IInv, TypeOK, ReasonAtHand,
                                     NoLoserExitAfterGain, MomentumStalls,
                                     Unhurried, Calls, AboveHardStop, Priced,
                                     LookedAt, engine, clock, past
<1>5. MissesCounted'
  BY Constants DEF IInv, TypeOK, MissesCounted, Capped, MomentumStalls, Unhurried,
                   Calls, AboveHardStop, Priced, LookedAt, engine, clock, past
<1>6. QED
  BY <1>1, <1>2, <1>3, <1>4, <1>5 DEF IInv, PeakKnown

\* ... or holds.
LEMMA MomentumHoldsInv == ASSUME IInv, MomentumHolds PROVE IInv'
<1>1. rec' \in RecordType /\ (rec'.tracked => best' <= rec'.peak /\ 100 <= rec'.peak)
  BY QuoteTyped, Constants DEF IInv, PeakKnown, MomentumHolds, Unhurried,
                               AboveHardStop, Priced, LookedAt, RecordType, TypeOK,
                               engine, clock, past
<1>2. TypeOK'
  BY <1>1, PricedTyped DEF IInv, TypeOK, Reasons, Calls, MomentumHolds, Unhurried,
                           AboveHardStop, LookedAt, engine
<1>3. ReasonAtHand'
  BY DEF IInv, ReasonAtHand, MomentumHolds, Unhurried, AboveHardStop, Priced,
         LookedAt, engine, clock, past
<1>4. NoLoserExitAfterGain'
  BY <1>1, QuoteTyped, Constants DEF IInv, TypeOK, ReasonAtHand,
                                     NoLoserExitAfterGain, MomentumHolds, Unhurried,
                                     AboveHardStop, Priced, LookedAt, engine, clock,
                                     past
<1>5. MissesCounted'
  BY Constants DEF IInv, TypeOK, MissesCounted, Capped, MomentumHolds, Unhurried,
                   AboveHardStop, Priced, LookedAt, engine, clock, past
<1>6. QED
  BY <1>1, <1>2, <1>3, <1>4, <1>5 DEF IInv, PeakKnown

\* Nothing is due.
LEMMA KeepsInv == ASSUME IInv, Keeps PROVE IInv'
<1>1. rec' \in RecordType /\ (rec'.tracked => best' <= rec'.peak /\ 100 <= rec'.peak)
  BY QuoteTyped, Constants DEF IInv, PeakKnown, Keeps, Unhurried, AboveHardStop,
                               Priced, LookedAt, engine, clock, past
<1>2. TypeOK'
  BY <1>1, PricedTyped DEF IInv, TypeOK, Reasons, Calls, Keeps, Unhurried,
                           AboveHardStop, LookedAt, engine
<1>3. ReasonAtHand'
  BY DEF IInv, ReasonAtHand, Keeps, Unhurried, AboveHardStop, Priced, LookedAt,
         engine, clock, past
<1>4. NoLoserExitAfterGain'
  BY <1>1, QuoteTyped, Constants DEF IInv, TypeOK, ReasonAtHand,
                                     NoLoserExitAfterGain, Keeps, Unhurried,
                                     AboveHardStop, Priced, LookedAt, engine, clock,
                                     past
<1>5. MissesCounted'
  BY Constants DEF IInv, TypeOK, MissesCounted, Capped, Keeps, Unhurried,
                   AboveHardStop, Priced, LookedAt, engine, clock, past
<1>6. QED
  BY <1>1, <1>2, <1>3, <1>4, <1>5 DEF IInv, PeakKnown

\* The SELL goes out ...
LEMMA SendsInv == ASSUME IInv, Sends PROVE IInv'
<1>1. rec' \in RecordType /\ (rec'.tracked => best' <= rec'.peak /\ 100 <= rec'.peak)
  BY Constants DEF IInv, PeakKnown, Sends, RecordType, TypeOK, engine, clock, past
<1>2. TypeOK'
  BY <1>1, Constants DEF IInv, TypeOK, RecordType, Reasons, Capped, Sends, engine,
                         clock, past
<1>3. ReasonAtHand'
  BY DEF IInv, ReasonAtHand, Sends, engine, clock, past
<1>4. NoLoserExitAfterGain'
  BY <1>1, Constants DEF IInv, TypeOK, ReasonAtHand, NoLoserExitAfterGain, Sends,
                         engine, clock, past
<1>5. MissesCounted'
  BY Constants DEF IInv, TypeOK, MissesCounted, Capped, Sends, engine, clock, past
<1>6. QED
  BY <1>1, <1>2, <1>3, <1>4, <1>5 DEF IInv, PeakKnown

\* ... or does not.
LEMMA DefersInv == ASSUME IInv, Defers PROVE IInv'
<1>1. rec' \in RecordType /\ (rec'.tracked => best' <= rec'.peak /\ 100 <= rec'.peak)
  BY Constants DEF IInv, PeakKnown, Defers, Fault, RecordType, TypeOK, engine,
                   clock, past
<1>2. TypeOK'
  BY <1>1, Constants DEF IInv, TypeOK, RecordType, Reasons, Capped, Defers, Fault,
                         engine, clock, past
<1>3. ReasonAtHand'
  BY DEF IInv, ReasonAtHand, Defers, Fault, engine, clock, past
<1>4. NoLoserExitAfterGain'
  BY <1>1, Constants DEF IInv, TypeOK, ReasonAtHand, NoLoserExitAfterGain, Defers,
                         Fault, engine, clock, past
<1>5. MissesCounted'
  BY Constants DEF IInv, TypeOK, MissesCounted, Capped, Defers, Fault, engine,
                   clock, past
<1>6. QED
  BY <1>1, <1>2, <1>3, <1>4, <1>5 DEF IInv, PeakKnown

\* There is nothing to manage.
LEMMA NothingToManageInv == ASSUME IInv, NothingToManage PROVE IInv'
<1>1. rec' \in RecordType /\ (rec'.tracked => best' <= rec'.peak /\ 100 <= rec'.peak)
  BY Constants DEF IInv, PeakKnown, NothingToManage, RecordType, TypeOK, engine,
                   clock, past
<1>2. TypeOK'
  BY <1>1, Constants DEF IInv, TypeOK, RecordType, Reasons, Capped, NothingToManage,
                         engine, clock, past
<1>3. ReasonAtHand'
  BY DEF IInv, ReasonAtHand, NothingToManage, engine, clock, past
<1>4. NoLoserExitAfterGain'
  BY <1>1, Constants DEF IInv, TypeOK, ReasonAtHand, NoLoserExitAfterGain,
                         NothingToManage, engine, clock, past
<1>5. MissesCounted'
  BY Constants DEF IInv, TypeOK, MissesCounted, Capped, NothingToManage, engine,
                   clock, past
<1>6. QED
  BY <1>1, <1>2, <1>3, <1>4, <1>5 DEF IInv, PeakKnown

\* The refresh moves the peak with the price, or neither the peak nor best.
LEMMA RefreshedInv == ASSUME IInv, Refreshed PROVE IInv'
<1>1. /\ rec' \in RecordType /\ best' \in Prices \cup {0}
      /\ rec'.tracked => best' <= rec'.peak /\ 100 <= rec'.peak
  <2>1. CASE rec.trail
    BY <2>1, QuoteTyped DEF IInv, Refreshed
  <2>2. CASE ~rec.trail
    BY <2>2, QuoteTyped DEF IInv, TypeOK, PeakKnown, Refreshed
  <2>3. QED
    BY <2>1, <2>2
<1>2. TypeOK'
  <2>1. missed' \in BOOLEAN /\ alerted' \in BOOLEAN /\ held' \in BOOLEAN
    <3>1. CASE rec.trail
      BY <3>1, Zenon DEF IInv, TypeOK, Refreshed
    <3>2. CASE ~rec.trail
      BY <3>2, Zenon DEF IInv, TypeOK, Refreshed
    <3>3. QED
      BY <3>1, <3>2
  <2>2. QED
    BY <1>1, <2>1 DEF IInv, TypeOK, RecordType, Refreshed, clock
<1>3. ReasonAtHand'
  BY DEF IInv, ReasonAtHand, Refreshed
<1>4. NoLoserExitAfterGain'
  BY DEF IInv, ReasonAtHand, NoLoserExitAfterGain, Refreshed
<1>5. MissesCounted'
  BY DEF IInv, MissesCounted, Refreshed
<1>6. QED
  BY <1>1, <1>2, <1>3, <1>4, <1>5 DEF IInv, PeakKnown

\* It gets no price.
LEMMA NotRefreshedInv == ASSUME IInv, NotRefreshed PROVE IInv'
<1>1. rec' \in RecordType /\ (rec'.tracked => best' <= rec'.peak /\ 100 <= rec'.peak)
  BY Constants DEF IInv, PeakKnown, NotRefreshed, Fault, RecordType, TypeOK, engine,
                   clock, past
<1>2. TypeOK'
  BY <1>1, Constants DEF IInv, TypeOK, RecordType, Reasons, Capped, NotRefreshed,
                         Fault, engine, clock, past
<1>3. ReasonAtHand'
  BY DEF IInv, ReasonAtHand, NotRefreshed, Fault, engine, clock, past
<1>4. NoLoserExitAfterGain'
  BY <1>1, Constants DEF IInv, TypeOK, ReasonAtHand, NoLoserExitAfterGain,
                         NotRefreshed, Fault, engine, clock, past
<1>5. MissesCounted'
  BY Constants DEF IInv, TypeOK, MissesCounted, Capped, NotRefreshed, Fault, engine,
                   clock, past
<1>6. QED
  BY <1>1, <1>2, <1>3, <1>4, <1>5 DEF IInv, PeakKnown

\* The next cycle.
LEMMA NextCycleInv == ASSUME IInv, NextCycle PROVE IInv'
<1>1. rec' \in RecordType /\ (rec'.tracked => best' <= rec'.peak /\ 100 <= rec'.peak)
  BY SyncTyped, Constants DEF IInv, PeakKnown, NextCycle, RecordType, TypeOK,
                              Capped, engine, clock, past
<1>2. TypeOK'
  BY <1>1, SyncTyped, Constants DEF IInv, TypeOK, RecordType, Reasons, Capped,
                                    NextCycle, engine, clock, past
<1>3. ReasonAtHand'
  BY DEF IInv, ReasonAtHand, NextCycle, engine, clock, past
<1>4. NoLoserExitAfterGain'
  BY <1>1, SyncTyped, Constants DEF IInv, TypeOK, ReasonAtHand,
                                    NoLoserExitAfterGain, NextCycle, engine, clock,
                                    past
<1>5. MissesCounted'
  BY Constants DEF IInv, TypeOK, MissesCounted, Capped, NextCycle, engine, clock,
                   past
<1>6. QED
  BY <1>1, <1>2, <1>3, <1>4, <1>5 DEF IInv, PeakKnown

\* The next session.
LEMMA NextSessionInv == ASSUME IInv, NextSession PROVE IInv'
<1>1. rec' \in RecordType /\ (rec'.tracked => best' <= rec'.peak /\ 100 <= rec'.peak)
  BY SyncTyped, Constants DEF IInv, PeakKnown, NextSession, RecordType, TypeOK,
                              Capped, engine, clock, past
<1>2. TypeOK'
  <2>1. alerted' \in BOOLEAN /\ held' \in BOOLEAN /\ missed' \in BOOLEAN
    BY Zenon DEF IInv, TypeOK, NextSession
  <2>2. /\ misses' \in 0 .. AlertStreak + 1 /\ own' \in 0 .. AlertStreak
        /\ inherited' \in 0 .. AlertStreak + 1
        /\ day' \in Sessions /\ cycle' \in 1 .. Cycles
    BY Constants DEF NextSession
  <2>3. QED
    BY <1>1, <2>1, <2>2 DEF IInv, TypeOK, RecordType, NextSession
<1>3. ReasonAtHand'
  BY DEF IInv, ReasonAtHand, NextSession, engine, clock, past
<1>4. NoLoserExitAfterGain'
  BY <1>1, SyncTyped, Constants DEF IInv, TypeOK, ReasonAtHand,
                                    NoLoserExitAfterGain, NextSession, engine,
                                    clock, past
<1>5. MissesCounted'
  BY Constants DEF IInv, TypeOK, MissesCounted, Capped, NextSession, engine, clock,
                   past
<1>6. QED
  BY <1>1, <1>2, <1>3, <1>4, <1>5 DEF IInv, PeakKnown

\* The last cycle again.
LEMMA LastCycleInv == ASSUME IInv, LastCycle PROVE IInv'
<1>1. rec' \in RecordType /\ (rec'.tracked => best' <= rec'.peak /\ 100 <= rec'.peak)
  BY SyncTyped, Constants DEF IInv, PeakKnown, LastCycle, RecordType, TypeOK,
                              Capped, engine, clock, past
<1>2. TypeOK'
  BY <1>1, SyncTyped, Constants DEF IInv, TypeOK, RecordType, Reasons, Capped,
                                    LastCycle, engine, clock, past
<1>3. ReasonAtHand'
  BY DEF IInv, ReasonAtHand, LastCycle, engine, clock, past
<1>4. NoLoserExitAfterGain'
  BY <1>1, SyncTyped, Constants DEF IInv, TypeOK, ReasonAtHand,
                                    NoLoserExitAfterGain, LastCycle, engine, clock,
                                    past
<1>5. MissesCounted'
  BY Constants DEF IInv, TypeOK, MissesCounted, Capped, LastCycle, engine, clock,
                   past
<1>6. QED
  BY <1>1, <1>2, <1>3, <1>4, <1>5 DEF IInv, PeakKnown

\* The price moves.
LEMMA MovesInv == ASSUME IInv, Moves PROVE IInv'
<1>1. rec' \in RecordType /\ (rec'.tracked => best' <= rec'.peak /\ 100 <= rec'.peak)
  BY Constants DEF IInv, PeakKnown, Moves, RecordType, TypeOK, engine, clock, past
<1>2. TypeOK'
  BY <1>1, Constants DEF IInv, TypeOK, RecordType, Reasons, Capped, Moves, engine,
                         clock, past
<1>3. ReasonAtHand'
  BY DEF IInv, ReasonAtHand, Moves, engine, clock, past
<1>4. NoLoserExitAfterGain'
  BY <1>1, Constants DEF IInv, TypeOK, ReasonAtHand, NoLoserExitAfterGain, Moves,
                         engine, clock, past
<1>5. MissesCounted'
  BY Constants DEF IInv, TypeOK, MissesCounted, Capped, Moves, engine, clock, past
<1>6. QED
  BY <1>1, <1>2, <1>3, <1>4, <1>5 DEF IInv, PeakKnown

\* The stop at the broker fires.
LEMMA StopFiresInv == ASSUME IInv, StopFires PROVE IInv'
<1>1. rec' \in RecordType /\ (rec'.tracked => best' <= rec'.peak /\ 100 <= rec'.peak)
  BY Constants DEF IInv, PeakKnown, StopFires, RecordType, TypeOK, engine, clock,
                   past
<1>2. TypeOK'
  BY <1>1, Constants DEF IInv, TypeOK, RecordType, Reasons, Capped, StopFires,
                         engine, clock, past
<1>3. ReasonAtHand'
  BY DEF IInv, ReasonAtHand, StopFires, engine, clock, past
<1>4. NoLoserExitAfterGain'
  BY <1>1, Constants DEF IInv, TypeOK, ReasonAtHand, NoLoserExitAfterGain,
                         StopFires, engine, clock, past
<1>5. MissesCounted'
  BY Constants DEF IInv, TypeOK, MissesCounted, Capped, StopFires, engine, clock,
                   past
<1>6. QED
  BY <1>1, <1>2, <1>3, <1>4, <1>5 DEF IInv, PeakKnown

\* The SELL fills.
LEMMA SellFillsInv == ASSUME IInv, SellFills PROVE IInv'
<1>1. rec' \in RecordType /\ (rec'.tracked => best' <= rec'.peak /\ 100 <= rec'.peak)
  BY Constants DEF IInv, PeakKnown, SellFills, RecordType, TypeOK, engine, clock,
                   past
<1>2. TypeOK'
  BY <1>1, Constants DEF IInv, TypeOK, RecordType, Reasons, Capped, SellFills,
                         engine, clock, past
<1>3. ReasonAtHand'
  BY DEF IInv, ReasonAtHand, SellFills, engine, clock, past
<1>4. NoLoserExitAfterGain'
  BY <1>1, Constants DEF IInv, TypeOK, ReasonAtHand, NoLoserExitAfterGain,
                         SellFills, engine, clock, past
<1>5. MissesCounted'
  BY Constants DEF IInv, TypeOK, MissesCounted, Capped, SellFills, engine, clock,
                   past
<1>6. QED
  BY <1>1, <1>2, <1>3, <1>4, <1>5 DEF IInv, PeakKnown

\* The symbol is bought again.
LEMMA ReenterInv == ASSUME IInv, Reenter PROVE IInv'
<1>1. rec' \in RecordType /\ (rec'.tracked => best' <= rec'.peak /\ 100 <= rec'.peak)
  BY NewRecordTyped DEF IInv, TypeOK, Reenter
<1>2. TypeOK'
  <2>1. alerted' \in BOOLEAN /\ held' \in BOOLEAN /\ missed' \in BOOLEAN
    BY Zenon DEF Reenter
  <2>2. /\ own' \in 0 .. AlertStreak /\ inherited' \in 0 .. AlertStreak + 1
        /\ faults' \in 0 .. MaxFaults /\ best' = 0
    BY Constants DEF IInv, TypeOK, Reenter, Fault
  <2>3. QED
    BY <1>1, <2>1, <2>2 DEF IInv, TypeOK, RecordType, Reenter, clock
<1>3. ReasonAtHand'
  BY DEF IInv, ReasonAtHand, Reenter, Fault, engine, clock, past
<1>4. NoLoserExitAfterGain'
  BY <1>1, Constants DEF IInv, TypeOK, ReasonAtHand, NoLoserExitAfterGain, Reenter,
                         Fault, engine, clock, past
<1>5. MissesCounted'
  BY Constants DEF IInv, TypeOK, MissesCounted, Capped, Reenter, Fault, engine,
                   clock, past
<1>6. QED
  BY <1>1, <1>2, <1>3, <1>4, <1>5 DEF IInv, PeakKnown

LEMMA StutterInv == ASSUME IInv, UNCHANGED vars PROVE IInv'
<1>1. TypeOK'
  BY DEF IInv, TypeOK, vars, engine, clock, past
<1>2. ReasonAtHand' /\ PeakKnown' /\ NoLoserExitAfterGain' /\ MissesCounted'
  BY DEF IInv, ReasonAtHand, PeakKnown, NoLoserExitAfterGain, MissesCounted, vars,
         engine, clock, past
<1>3. QED
  BY <1>1, <1>2 DEF IInv

LEMMA NextInv == IInv /\ [Next]_vars => IInv'
<1> SUFFICES ASSUME IInv, [Next]_vars PROVE IInv'
  OBVIOUS
<1>1. CASE Audited \/ Unpriced \/ PricedHardStop \/ SignalExit \/ TimeStop
  BY <1>1, AuditedInv, UnpricedInv, PricedHardStopInv, SignalExitInv, TimeStopInv
<1>2. CASE StaleLoser \/ MomentumStalls \/ MomentumHolds \/ Keeps
  BY <1>2, StaleLoserInv, MomentumStallsInv, MomentumHoldsInv, KeepsInv
<1>3. CASE Sends \/ Defers \/ NothingToManage
  BY <1>3, SendsInv, DefersInv, NothingToManageInv
<1>4. CASE Refreshed \/ NotRefreshed
  BY <1>4, RefreshedInv, NotRefreshedInv
<1>5. CASE NextCycle \/ NextSession \/ LastCycle
  BY <1>5, NextCycleInv, NextSessionInv, LastCycleInv
<1>6. CASE Moves \/ StopFires \/ SellFills \/ Reenter
  BY <1>6, MovesInv, StopFiresInv, SellFillsInv, ReenterInv
<1>7. CASE UNCHANGED vars
  BY <1>7, StutterInv
<1>8. QED
  BY <1>1, <1>2, <1>3, <1>4, <1>5, <1>6, <1>7 DEF Next, Pass, Between, World

LEMMA Inductive == Spec => []IInv
<1>1. Init => IInv
  BY InitIInv
<1>2. IInv /\ [Next]_vars => IInv'
  BY NextInv
<1>3. QED
  BY <1>1, <1>2, PTL DEF Spec

\* Records, counts and histories keep to their types.
THEOREM TypeCorrect == Spec => []TypeOK
<1>1. IInv => TypeOK
  BY DEF IInv
<1>2. QED
  BY <1>1, Inductive, PTL

\* The stale-loser exit of manage_position_exits takes no position that showed the gain
\* to an exit pass, or to a refresh once the record had the terms of its stop; the
\* refreshes of a recovered position before its audit are left out, and
\* GainForgotten.cfg shows why.
THEOREM GainersAreNotLosers == Spec => []NoLoserExitAfterGain
<1>1. IInv => NoLoserExitAfterGain
  BY DEF IInv
<1>2. QED
  BY <1>1, Inductive, PTL

\* The streak counted by _record_exit_price_miss alerts in time. It belongs to the
\* symbol and not to the position, so a position bought on the day an earlier one of
\* the symbol was reported is left out: BlackoutForgotten.cfg shows that nobody is
\* told of it.
THEOREM OperatorIsAlerted == Spec => []BlackoutAlerted
<1>1. IInv => BlackoutAlerted
  BY Constants DEF IInv, TypeOK, MissesCounted, BlackoutAlerted
<1>2. QED
  BY <1>1, Inductive, PTL
=============================================================================
