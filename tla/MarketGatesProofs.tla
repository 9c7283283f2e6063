-------------------------- MODULE MarketGatesProofs --------------------------
(***************************************************************************)
(* A stale VIX reading authorises no entry, nor does the SPY trend of      *)
(* another day, whatever the lifetime of a reading, the cool-downs and the *)
(* length of a scan.                                                       *)
(***************************************************************************)
EXTENDS MarketGates, TLAPS

\* The VIX is calm now, or was when the reading that may be used was made.
ReadingTrue ==
  /\ calm => calmAge = 0
  /\ last = "calm" /\ age < Ttl => calmAge <= age

\* What has been passed was passed with such a reading, and the time since is that
\* of the scan.
GatesPassed ==
  /\ step = "spy"  => calmAge < Ttl
  /\ step = "scan" => calmAge < Ttl + spent /\ spent <= ScanTicks /\ spy = "bull"

\* The trend that is cached is today's.
TrendToday == spy = "bull" => bull

IInv == TypeOK /\ ReadingTrue /\ GatesPassed /\ TrendToday

LEMMA GatesConstants ==
  /\ Ttl \in Nat /\ Ttl > 0 /\ Base \in Nat /\ Base > 0
  /\ MaxWait \in Nat /\ Base <= MaxWait /\ Retries \in Nat /\ Retries > 0
  /\ StreakAlert \in Nat /\ StreakAlert > 0 /\ ScanTicks \in Nat
BY GatesAssumption

LEMMA CooldownBounded ==
  ASSUME NEW n \in Nat
  PROVE  Cooldown(n) \in 0 .. MaxWait
<1>1. Base * n \in Nat
  BY GatesConstants
<1>2. QED
  BY <1>1, GatesConstants DEF Cooldown, Least

LEMMA InitIInv == Init => IInv
<1> SUFFICES ASSUME Init PROVE IInv
  OBVIOUS
<1>1. calm \in BOOLEAN /\ bull \in BOOLEAN
  BY DEF Init
<1>2. calmAge \in 0 .. Horizon /\ (calm => calmAge = 0)
  <2>1. CASE calm
    BY <2>1, GatesConstants DEF Init, Horizon
  <2>2. CASE ~calm
    BY <2>2, GatesConstants DEF Init, Horizon
  <2>3. QED
    BY <2>1, <2>2
<1>3. TypeOK
  <2>1. ok \in BOOLEAN /\ link \in BOOLEAN /\ contract \in BOOLEAN /\ alerted \in BOOLEAN
    BY Zenon DEF Init
  <2>2. /\ last = "none" /\ age \in 0 .. Ttl /\ fails \in 0 .. MaxWait
        /\ wait \in 0 .. MaxWait /\ streak \in 0 .. StreakAlert
        /\ spent \in 0 .. Retries + ScanTicks
    BY GatesConstants DEF Init
  <2>3. spy = "none" /\ gate \in Paths /\ step = "idle" /\ entered = "none"
    BY DEF Init, Paths
  <2>4. QED
    BY <1>1, <1>2, <2>1, <2>2, <2>3, Zenon DEF TypeOK
<1>4. ReadingTrue /\ GatesPassed /\ TrendToday
  BY <1>2, GatesConstants DEF Init, ReadingTrue, GatesPassed, TrendToday
<1>5. QED
  BY <1>3, <1>4 DEF IInv

\* The passing of time: nothing that is known of a reading gets lost.
LEMMA TimePassing ==
  ASSUME IInv, TimePasses
  PROVE  /\ calm' \in BOOLEAN /\ calmAge' \in 0 .. Horizon
         /\ age' \in 0 .. Ttl /\ wait' \in 0 .. MaxWait
         /\ calmAge' <= calmAge + 1
         /\ calm' => calmAge' = 0
         /\ last = "calm" /\ age' < Ttl => calmAge' <= age'
<1>1. calm' \in BOOLEAN /\ calmAge' \in 0 .. Horizon /\ calmAge' <= calmAge + 1
  BY GatesConstants DEF IInv, TypeOK, TimePasses, Least, Horizon
<1>2. age' \in 0 .. Ttl /\ wait' \in 0 .. MaxWait
  BY GatesConstants DEF IInv, TypeOK, TimePasses, Least
<1>3. calm' => calmAge' = 0
  BY DEF TimePasses
<1>4. ASSUME last = "calm", age' < Ttl
      PROVE  calmAge' <= age'
  <2>1. age < Ttl /\ age' = age + 1
    BY <1>4, GatesConstants DEF IInv, TypeOK, TimePasses, Least
  <2>2. calmAge <= age
    BY <1>4, <2>1 DEF IInv, ReadingTrue
  <2>3. QED
    BY <1>1, <2>1, <2>2, GatesConstants DEF IInv, TypeOK, Horizon
<1>5. QED
  BY <1>1, <1>2, <1>3, <1>4

\* No contract, no reading.
LEMMA NoContractInv == ASSUME IInv, NEW g \in Paths, NoContract(g) PROVE IInv'
<1>1. TypeOK'
  BY GatesConstants DEF IInv, TypeOK, Paths, NoContract, AtVix, Shut, world, vix,
                        data
<1>2. ReadingTrue'
  BY GatesConstants DEF IInv, TypeOK, ReadingTrue, NoContract, AtVix, Shut, world,
                        vix, data
<1>3. GatesPassed'
  BY GatesConstants DEF IInv, TypeOK, ReadingTrue, GatesPassed, Paths, NoContract,
                        AtVix, Shut, world, vix, data
<1>4. TrendToday'
  BY DEF IInv, TypeOK, TrendToday, NoContract, AtVix, Shut, world, vix, data
<1>5. QED
  BY <1>1, <1>2, <1>3, <1>4 DEF IInv

\* A cached reading is true and in time.
LEMMA VixCachedInv == ASSUME IInv, NEW g \in Paths, VixCached(g) PROVE IInv'
<1>1. TypeOK'
  BY GatesConstants DEF IInv, TypeOK, Paths, VixCached, AtVix, Shut, Fresh,
                        HasContract, Opens, world, vix, data
<1>2. ReadingTrue'
  BY GatesConstants DEF IInv, TypeOK, ReadingTrue, VixCached, AtVix, Shut, Fresh,
                        HasContract, Opens, world, vix, data
<1>3. GatesPassed'
  BY GatesConstants DEF IInv, TypeOK, ReadingTrue, GatesPassed, Paths, VixCached,
                        AtVix, Shut, Fresh, HasContract, Opens, world, vix, data
<1>4. TrendToday'
  BY DEF IInv, TypeOK, TrendToday, VixCached, AtVix, Shut, Fresh, HasContract,
         Opens, world, vix, data
<1>5. QED
  BY <1>1, <1>2, <1>3, <1>4 DEF IInv

\* In a cool-down the gate stays shut.
LEMMA VixSuppressedInv == ASSUME IInv, NEW g \in Paths, VixSuppressed(g) PROVE IInv'
<1>1. TypeOK'
  BY GatesConstants DEF IInv, TypeOK, Paths, VixSuppressed, AtVix, Shut, Fresh,
                        HasContract, Forgets, world, vix, data
<1>2. ReadingTrue'
  BY GatesConstants DEF IInv, TypeOK, ReadingTrue, VixSuppressed, AtVix, Shut,
                        Fresh, HasContract, Forgets, world, vix, data
<1>3. GatesPassed'
  BY GatesConstants DEF IInv, TypeOK, ReadingTrue, GatesPassed, Paths,
                        VixSuppressed, AtVix, Shut, Fresh, HasContract, Forgets,
                        world, vix, data
<1>4. TrendToday'
  BY DEF IInv, TypeOK, TrendToday, VixSuppressed, AtVix, Shut, Fresh, HasContract,
         Forgets, world, vix, data
<1>5. QED
  BY <1>1, <1>2, <1>3, <1>4 DEF IInv

\* A new reading is of now.
LEMMA VixAnswersInv == ASSUME IInv, NEW g \in Paths, VixAnswers(g) PROVE IInv'
<1>1. TypeOK'
  BY GatesConstants DEF IInv, TypeOK, Paths, VixAnswers, AtVix, Shut, Fresh,
                        HasContract, Opens, Succeeds, Reading, world, vix, data
<1>2. ReadingTrue'
  BY GatesConstants DEF IInv, TypeOK, ReadingTrue, VixAnswers, AtVix, Shut, Fresh,
                        HasContract, Opens, Succeeds, Reading, world, vix, data
<1>3. GatesPassed'
  BY GatesConstants DEF IInv, TypeOK, ReadingTrue, GatesPassed, Paths, VixAnswers,
                        AtVix, Shut, Fresh, HasContract, Opens, Succeeds, Reading,
                        world, vix, data
<1>4. TrendToday'
  BY DEF IInv, TypeOK, TrendToday, VixAnswers, AtVix, Shut, Fresh, HasContract,
         Opens, Succeeds, Reading, world, vix, data
<1>5. QED
  BY <1>1, <1>2, <1>3, <1>4 DEF IInv

\* Without an answer the gate is shut.
LEMMA VixFailsInv == ASSUME IInv, NEW g \in Paths, VixFails(g) PROVE IInv'
<1>1. TypeOK'
  BY CooldownBounded, GatesConstants DEF IInv, TypeOK, Paths, VixFails, AtVix, Shut,
                                         Fresh, HasContract, Forgets, Fails, world,
                                         vix, data, Least
<1>2. ReadingTrue'
  BY GatesConstants DEF IInv, TypeOK, ReadingTrue, VixFails, AtVix, Shut, Fresh,
                        HasContract, Forgets, Fails, world, vix, data
<1>3. GatesPassed'
  BY GatesConstants DEF IInv, TypeOK, ReadingTrue, GatesPassed, Paths, VixFails,
                        AtVix, Shut, Fresh, HasContract, Forgets, Fails, world, vix,
                        data
<1>4. TrendToday'
  BY DEF IInv, TypeOK, TrendToday, VixFails, AtVix, Shut, Fresh, HasContract,
         Forgets, Fails, world, vix, data
<1>5. QED
  BY <1>1, <1>2, <1>3, <1>4 DEF IInv

\* The trend is fetched, or was today.
LEMMA SpyInv == ASSUME IInv, NEW g \in Paths, Spy(g) PROVE IInv'
<1>1. TypeOK'
  BY GatesConstants DEF IInv, TypeOK, Paths, Spy, Shut, Opens, Fetched, world, vix,
                        data
<1>2. ReadingTrue'
  BY GatesConstants DEF IInv, TypeOK, ReadingTrue, Spy, Shut, Opens, Fetched, world,
                        vix, data
<1>3. GatesPassed'
  BY GatesConstants DEF IInv, TypeOK, ReadingTrue, GatesPassed, Paths, Spy, Shut,
                        Opens, Fetched, world, vix, data
<1>4. TrendToday'
  BY DEF IInv, TypeOK, TrendToday, Spy, Shut, Opens, Fetched, world, vix, data
<1>5. QED
  BY <1>1, <1>2, <1>3, <1>4 DEF IInv

\* The swing path's scan ends.
LEMMA SwingScannedInv == ASSUME IInv, NEW d \in BOOLEAN, SwingScanned(d) PROVE IInv'
<1>1. TypeOK'
  BY GatesConstants DEF IInv, TypeOK, Paths, SwingScanned, Shut, Least, world, vix,
                        data
<1>2. ReadingTrue'
  BY GatesConstants DEF IInv, TypeOK, ReadingTrue, SwingScanned, Shut, Least, world,
                        vix, data
<1>3. GatesPassed'
  BY GatesConstants DEF IInv, TypeOK, ReadingTrue, GatesPassed, Paths, SwingScanned,
                        Shut, Least, world, vix, data
<1>4. TrendToday'
  BY DEF IInv, TypeOK, TrendToday, SwingScanned, Shut, Least, world, vix, data
<1>5. QED
  BY <1>1, <1>2, <1>3, <1>4 DEF IInv

\* The Bollinger path's scan ends.
LEMMA BollScannedInv == ASSUME IInv, BollScanned PROVE IInv'
<1>1. TypeOK'
  BY GatesConstants DEF IInv, TypeOK, Paths, BollScanned, Shut, world, vix, data
<1>2. ReadingTrue'
  BY GatesConstants DEF IInv, TypeOK, ReadingTrue, BollScanned, Shut, world, vix,
                        data
<1>3. GatesPassed'
  BY GatesConstants DEF IInv, TypeOK, ReadingTrue, GatesPassed, Paths, BollScanned,
                        Shut, world, vix, data
<1>4. TrendToday'
  BY DEF IInv, TypeOK, TrendToday, BollScanned, Shut, world, vix, data
<1>5. QED
  BY <1>1, <1>2, <1>3, <1>4 DEF IInv

\* The next cycle.
LEMMA CycleBeginsInv == ASSUME IInv, CycleBegins PROVE IInv'
<1>1. TimePasses
  BY DEF CycleBegins
<1>2. TypeOK'
  BY TimePassing, <1>1, GatesConstants DEF IInv, TypeOK, Paths, CycleBegins, world,
                                           vix, data
<1>3. ReadingTrue'
  BY TimePassing, <1>1, GatesConstants DEF IInv, TypeOK, ReadingTrue, CycleBegins,
                                           world, vix, data
<1>4. GatesPassed'
  BY TimePassing, <1>1, GatesConstants DEF IInv, TypeOK, ReadingTrue, GatesPassed,
                                           Paths, CycleBegins, world, vix, data
<1>5. TrendToday'
  BY DEF IInv, TypeOK, TrendToday, CycleBegins, world, vix, data
<1>6. QED
  BY <1>2, <1>3, <1>4, <1>5 DEF IInv

\* A cycle without a connection.
LEMMA CycleSkippedInv == ASSUME IInv, CycleSkipped PROVE IInv'
<1>1. TimePasses
  BY DEF CycleSkipped
<1>2. TypeOK'
  BY TimePassing, <1>1, GatesConstants DEF IInv, TypeOK, Paths, CycleSkipped, world,
                                           vix, data
<1>3. ReadingTrue'
  BY TimePassing, <1>1, GatesConstants DEF IInv, TypeOK, ReadingTrue, CycleSkipped,
                                           world, vix, data
<1>4. GatesPassed'
  BY TimePassing, <1>1, GatesConstants DEF IInv, TypeOK, ReadingTrue, GatesPassed,
                                           Paths, CycleSkipped, world, vix, data
<1>5. TrendToday'
  BY DEF IInv, TypeOK, TrendToday, CycleSkipped, world, vix, data
<1>6. QED
  BY <1>2, <1>3, <1>4, <1>5 DEF IInv

\* A connection.
LEMMA ReconnectsInv == ASSUME IInv, Reconnects PROVE IInv'
<1>1. TimePasses
  BY DEF Reconnects
<1>2. TypeOK'
  BY TimePassing, <1>1, GatesConstants DEF IInv, TypeOK, Paths, Reconnects, world,
                                           vix, data
<1>3. ReadingTrue'
  BY TimePassing, <1>1, GatesConstants DEF IInv, TypeOK, ReadingTrue, Reconnects,
                                           world, vix, data
<1>4. GatesPassed'
  BY TimePassing, <1>1, GatesConstants DEF IInv, TypeOK, ReadingTrue, GatesPassed,
                                           Paths, Reconnects, world, vix, data
<1>5. TrendToday'
  BY DEF IInv, TypeOK, TrendToday, Reconnects, world, vix, data
<1>6. QED
  BY <1>2, <1>3, <1>4, <1>5 DEF IInv

\* The warm-up reads the VIX.
LEMMA WarmedUpInv == ASSUME IInv, WarmedUp PROVE IInv'
<1>1. TypeOK'
  BY GatesConstants DEF IInv, TypeOK, Paths, WarmedUp, Succeeds, Reading, world,
                        vix, data
<1>2. ReadingTrue'
  BY GatesConstants DEF IInv, TypeOK, ReadingTrue, WarmedUp, Succeeds, Reading,
                        world, vix, data
<1>3. GatesPassed'
  BY GatesConstants DEF IInv, TypeOK, ReadingTrue, GatesPassed, Paths, WarmedUp,
                        Succeeds, Reading, world, vix, data
<1>4. TrendToday'
  BY DEF IInv, TypeOK, TrendToday, WarmedUp, Succeeds, Reading, world, vix, data
<1>5. QED
  BY <1>1, <1>2, <1>3, <1>4 DEF IInv

\* The warm-up waits.
LEMMA WarmupWaitsInv == ASSUME IInv, WarmupWaits PROVE IInv'
<1>1. TimePasses
  BY DEF WarmupWaits
<1>2. TypeOK'
  BY TimePassing, <1>1, GatesConstants DEF IInv, TypeOK, Paths, WarmupWaits, world,
                                           vix, data
<1>3. ReadingTrue'
  BY TimePassing, <1>1, GatesConstants DEF IInv, TypeOK, ReadingTrue, WarmupWaits,
                                           world, vix, data
<1>4. GatesPassed'
  BY TimePassing, <1>1, GatesConstants DEF IInv, TypeOK, ReadingTrue, GatesPassed,
                                           Paths, WarmupWaits, world, vix, data
<1>5. TrendToday'
  BY DEF IInv, TypeOK, TrendToday, WarmupWaits, world, vix, data
<1>6. QED
  BY <1>2, <1>3, <1>4, <1>5 DEF IInv

\* The warm-up gives up.
LEMMA WarmupFailsInv == ASSUME IInv, WarmupFails PROVE IInv'
<1>1. TypeOK'
  BY CooldownBounded, GatesConstants DEF IInv, TypeOK, Paths, WarmupFails, Fails,
                                         world, vix, data, Least
<1>2. ReadingTrue'
  BY GatesConstants DEF IInv, TypeOK, ReadingTrue, WarmupFails, Fails, world, vix,
                        data
<1>3. GatesPassed'
  BY GatesConstants DEF IInv, TypeOK, ReadingTrue, GatesPassed, Paths, WarmupFails,
                        Fails, world, vix, data
<1>4. TrendToday'
  BY DEF IInv, TypeOK, TrendToday, WarmupFails, Fails, world, vix, data
<1>5. QED
  BY <1>1, <1>2, <1>3, <1>4 DEF IInv

\* While the scan goes on the reading grows older, and so does the scan.
LEMMA ScanGoesOnInv == ASSUME IInv, ScanGoesOn PROVE IInv'
<1>1. TimePasses
  BY DEF ScanGoesOn
<1>2. TypeOK'
  BY TimePassing, <1>1, GatesConstants DEF IInv, TypeOK, Paths, Horizon, ScanGoesOn,
                                           world, vix, data
<1>3. ReadingTrue'
  BY TimePassing, <1>1, GatesConstants DEF IInv, TypeOK, ReadingTrue, ScanGoesOn,
                                           world, vix, data
<1>4. GatesPassed'
  BY TimePassing, <1>1, GatesConstants DEF IInv, TypeOK, ReadingTrue, GatesPassed,
                                           Paths, ScanGoesOn, world, vix, data
<1>5. TrendToday'
  BY DEF IInv, TypeOK, TrendToday, ScanGoesOn, world, vix, data
<1>6. QED
  BY <1>2, <1>3, <1>4, <1>5 DEF IInv

\* Another day forgets the trend.
LEMMA NewDayInv == ASSUME IInv, NewDay PROVE IInv'
<1>1. TypeOK'
  BY GatesConstants DEF IInv, TypeOK, Paths, NewDay, world, vix, data
<1>2. ReadingTrue'
  BY GatesConstants DEF IInv, TypeOK, ReadingTrue, NewDay, world, vix, data
<1>3. GatesPassed'
  BY GatesConstants DEF IInv, TypeOK, ReadingTrue, GatesPassed, Paths, NewDay,
                        world, vix, data
<1>4. TrendToday'
  BY DEF IInv, TypeOK, TrendToday, NewDay, world, vix, data
<1>5. QED
  BY <1>1, <1>2, <1>3, <1>4 DEF IInv

\* The broker stops answering.
LEMMA OutageInv == ASSUME IInv, Outage PROVE IInv'
<1>1. TypeOK'
  <2>1. ok' \in BOOLEAN
    BY Zenon DEF Outage
  <2>2. link' \in BOOLEAN
    BY Zenon DEF IInv, TypeOK, Outage
  <2>3. UNCHANGED << calm, calmAge, bull, vix, spy, data, gate, step, spent, entered >>
    BY DEF Outage
  <2>4. QED
    BY <2>1, <2>2, <2>3 DEF IInv, TypeOK, vix, data
<1>2. ReadingTrue'
  BY GatesConstants DEF IInv, TypeOK, ReadingTrue, Outage, world, vix, data
<1>3. GatesPassed'
  BY GatesConstants DEF IInv, TypeOK, ReadingTrue, GatesPassed, Paths, Outage,
                        world, vix, data
<1>4. TrendToday'
  BY DEF IInv, TypeOK, TrendToday, Outage, world, vix, data
<1>5. QED
  BY <1>1, <1>2, <1>3, <1>4 DEF IInv

\* It answers again.
LEMMA RecoveryInv == ASSUME IInv, Recovery PROVE IInv'
<1>1. TypeOK'
  BY GatesConstants DEF IInv, TypeOK, Paths, Recovery, world, vix, data
<1>2. ReadingTrue'
  BY GatesConstants DEF IInv, TypeOK, ReadingTrue, Recovery, world, vix, data
<1>3. GatesPassed'
  BY GatesConstants DEF IInv, TypeOK, ReadingTrue, GatesPassed, Paths, Recovery,
                        world, vix, data
<1>4. TrendToday'
  BY DEF IInv, TypeOK, TrendToday, Recovery, world, vix, data
<1>5. QED
  BY <1>1, <1>2, <1>3, <1>4 DEF IInv

LEMMA StutterInv == ASSUME IInv, UNCHANGED vars PROVE IInv'
<1>1. TypeOK'
  BY DEF IInv, TypeOK, vars, world, vix, data
<1>2. ReadingTrue' /\ GatesPassed' /\ TrendToday'
  BY DEF IInv, ReadingTrue, GatesPassed, TrendToday, vars, world, vix, data
<1>3. QED
  BY <1>1, <1>2 DEF IInv

LEMMA NextInv == IInv /\ [Next]_vars => IInv'
<1> SUFFICES ASSUME IInv, [Next]_vars PROVE IInv'
  OBVIOUS
<1>1. ASSUME NEW g \in Paths,
             \/ NoContract(g) \/ VixCached(g) \/ VixSuppressed(g)
             \/ VixAnswers(g) \/ VixFails(g) \/ Spy(g)
      PROVE  IInv'
  BY <1>1, NoContractInv, VixCachedInv, VixSuppressedInv, VixAnswersInv,
     VixFailsInv,
     SpyInv
<1>2. ASSUME NEW dark \in BOOLEAN, SwingScanned(dark) PROVE IInv'
  BY <1>2, SwingScannedInv
<1>3. CASE BollScanned \/ CycleBegins \/ CycleSkipped \/ Reconnects
  BY <1>3, BollScannedInv, CycleBeginsInv, CycleSkippedInv, ReconnectsInv
<1>4. CASE WarmedUp \/ WarmupWaits \/ WarmupFails
  BY <1>4, WarmedUpInv, WarmupWaitsInv, WarmupFailsInv
<1>5. CASE ScanGoesOn \/ NewDay \/ Outage \/ Recovery
  BY <1>5, ScanGoesOnInv, NewDayInv, OutageInv, RecoveryInv
<1>6. CASE UNCHANGED vars
  BY <1>6, StutterInv
<1>7. QED
  BY <1>1, <1>2, <1>3, <1>4, <1>5, <1>6 DEF Next, Engine

\* IInv holds in every reachable state.
LEMMA Inductive == Spec => []IInv
<1>1. Init => IInv
  BY InitIInv
<1>2. IInv /\ [Next]_vars => IInv'
  BY NextInv
<1>3. QED
  BY <1>1, <1>2, PTL DEF Spec

\* An entry is made where the scan of its path ends: every gate has been passed.
LEMMA EntryAfterGates ==
  ASSUME IInv, [Next]_vars, NEW g \in Paths, Enters(g)
  PROVE  step = "scan"
<1> g # "none"
  BY DEF Paths
<1>1. ASSUME NEW h \in Paths,
             \/ NoContract(h) \/ VixCached(h) \/ VixSuppressed(h)
             \/ VixAnswers(h) \/ VixFails(h) \/ Spy(h)
      PROVE  FALSE
  BY <1>1, Zenon DEF Enters, NoContract, VixCached, VixSuppressed, VixAnswers,
                     VixFails,
                     Spy
<1>2. ASSUME NEW dark \in BOOLEAN, SwingScanned(dark) PROVE step = "scan"
  BY <1>2 DEF SwingScanned
<1>3. CASE BollScanned
  BY <1>3 DEF BollScanned
<1>4. CASE CycleBegins \/ CycleSkipped \/ Reconnects
  BY <1>4, Zenon DEF Enters, CycleBegins, CycleSkipped, Reconnects
<1>5. CASE WarmedUp \/ WarmupWaits \/ WarmupFails
  BY <1>5, Zenon DEF Enters, WarmedUp, WarmupWaits, WarmupFails
<1>6. CASE ScanGoesOn \/ NewDay \/ Outage \/ Recovery
  BY <1>6, Zenon DEF Enters, ScanGoesOn, NewDay, Outage, Recovery
<1>7. CASE UNCHANGED vars
  BY <1>7, Zenon DEF Enters, vars
<1>8. QED
  BY <1>1, <1>2, <1>3, <1>4, <1>5, <1>6, <1>7 DEF Next, Engine

\* Every variable keeps to its type, for every value of the constants.
THEOREM TypeCorrect == Spec => []TypeOK
<1>1. IInv => TypeOK
  BY DEF IInv
<1>2. QED
  BY <1>1, Inductive, PTL

\* No entry rests on a VIX reading older than the cache may keep one and the scan may
\* take, whatever fails and for how long: get_vix, run_cycle and the Bollinger path.
THEOREM FreshVix == Spec => EntriesOnFreshVix
<1>1. IInv /\ [Next]_vars
        => [\A g \in Paths : Enters(g) => calmAge < Horizon]_vars
  <2> SUFFICES ASSUME IInv, [Next]_vars, NEW g \in Paths, Enters(g)
               PROVE  calmAge < Horizon
    OBVIOUS
  <2>1. step = "scan"
    BY EntryAfterGates
  <2>2. calmAge < Ttl + spent /\ spent <= ScanTicks
    BY <2>1 DEF IInv, GatesPassed
  <2>3. QED
    BY <2>2, GatesConstants DEF IInv, TypeOK, Horizon
<1>2. QED
  BY <1>1, Inductive, PTL DEF Spec, EntriesOnFreshVix

\* No entry rests on the SPY trend of another day, though the answer is cached for the
\* day: _fetch_spy_trend and both entry paths.
THEOREM TodaysTape == Spec => EntriesInTodaysTape
<1>1. IInv /\ [Next]_vars => [\A g \in Paths : Enters(g) => bull]_vars
  <2> SUFFICES ASSUME IInv, [Next]_vars, NEW g \in Paths, Enters(g)
               PROVE  bull
    OBVIOUS
  <2>1. step = "scan"
    BY EntryAfterGates
  <2>2. QED
    BY <2>1 DEF IInv, GatesPassed, TrendToday
<1>2. QED
  BY <1>1, Inductive, PTL DEF Spec, EntriesInTodaysTape
=============================================================================
