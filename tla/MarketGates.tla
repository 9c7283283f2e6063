----------------------------- MODULE MarketGates -----------------------------
(***************************************************************************)
(* The gates between a trading cycle and an entry: the connection and its  *)
(* reconnect, the warm-up of historical data, the VIX reading with its     *)
(* cache and its cool-down after failures, the SPY trend cached for the    *)
(* day, and the market-data blackout.  Each cycle passes them twice, once  *)
(* for the scanner's entries and once for the standalone Bollinger entry.  *)
(*                                                                         *)
(* Time is counted in cycles.  The VIX is what the broker shows of it, be  *)
(* it a price or a close that stands in for one: calm (at or below         *)
(* VIX_THRESHOLD) or not.  The SPY tape of a day is bullish or not, and    *)
(* the only profile enters in a bullish tape alone.  A cycle without a     *)
(* free slot, or out of the entry window, reads nothing and is left out.   *)
(***************************************************************************)
EXTENDS Integers

CONSTANTS
  Ttl,          \* VIX_CACHE_TTL_SEC
  Base,         \* VIX_FAILURE_COOLDOWN_BASE_SEC
  MaxWait,      \* VIX_FAILURE_COOLDOWN_MAX_SEC
  Retries,      \* HMDS_WARMUP_MAX_RETRIES
  StreakAlert,  \* DATA_BLACKOUT_STREAK_ALERT
  ScanTicks     \* a scan takes this long at most

ASSUME GatesAssumption ==
  /\ {Ttl, Base, MaxWait, Retries, StreakAlert, ScanTicks} \subseteq Nat
  /\ Ttl > 0 /\ 0 < Base /\ Base <= MaxWait /\ Retries > 0 /\ StreakAlert > 0

VARIABLES
  ok,        \* does the broker answer requests
  link,      \* is the socket connected
  calm,      \* is the VIX calm
  calmAge,   \* how long ago it was last calm, as far as it matters
  bull,      \* is today's tape bullish
  contract,  \* _vix_contract
  last,      \* _last_vix
  age,       \* the age of _last_vix_ts, as far as it matters
  fails,     \* _vix_failure_count, as far as it matters
  wait,      \* the time until _next_vix_retry_ts
  spy,       \* _spy_cache
  streak,    \* _data_blackout_streak, as far as it matters
  alerted,   \* _data_blackout_alerted
  gate,      \* the entry path whose gates are passed
  step,      \* the gate it has come to
  spent,     \* attempts of the warm-up, or time of the scan, so far
  entered    \* the path that has entered last in this cycle

world == << ok, link, calm, calmAge, bull >>
vix   == << contract, last, age, fails, wait >>
data  == << streak, alerted >>
vars  == << world, vix, spy, data, gate, step, spent, entered >>

Paths    == {"swing", "boll"}
Horizon  == Ttl + ScanTicks
Least(a, b) == IF a < b THEN a ELSE b

TypeOK ==
  /\ ok \in BOOLEAN /\ link \in BOOLEAN /\ calm \in BOOLEAN /\ bull \in BOOLEAN
  /\ contract \in BOOLEAN /\ alerted \in BOOLEAN
  /\ calmAge \in 0 .. Horizon
  /\ last \in {"none", "calm", "high"} /\ age \in 0 .. Ttl
  /\ fails \in 0 .. MaxWait /\ wait \in 0 .. MaxWait
  /\ spy \in {"none", "bull", "bear", "failed"}
  /\ streak \in 0 .. StreakAlert
  /\ gate \in Paths /\ step \in {"idle", "warmup", "vix", "spy", "scan"}
  /\ spent \in 0 .. Retries + ScanTicks
  /\ entered \in Paths \cup {"none"}

Init ==
  /\ ok = TRUE /\ link = TRUE /\ calm \in BOOLEAN /\ bull \in BOOLEAN
  /\ calmAge = IF calm THEN 0 ELSE Horizon
  /\ contract = FALSE /\ last = "none" /\ age = Ttl /\ fails = 0 /\ wait = 0
  /\ spy = "none" /\ streak = 0 /\ alerted = FALSE
  /\ gate = "swing" /\ step = "idle" /\ spent = 0 /\ entered = "none"

\* A cycle's time passes, in which the VIX may move.
TimePasses ==
  /\ calm' \in BOOLEAN
  /\ calmAge' = IF calm' THEN 0 ELSE Least(calmAge + 1, Horizon)
  /\ age' = Least(age + 1, Ttl)
  /\ wait' = IF wait > 0 THEN wait - 1 ELSE 0

Reading == IF calm THEN "calm" ELSE "high"

-----------------------------------------------------------------------------
(* VIX. *)

\* _record_vix_success
Succeeds ==
  /\ last' = Reading /\ age' = 0 /\ fails' = 0 /\ wait' = 0

\* Mutant: the cool-down grows without a limit.
CooldownUncapped(n) == Base * n

\* The cool-down after the n-th failure in a row.
Cooldown(n) == Least(Base * n, MaxWait)

\* _record_vix_failure
Fails ==
  /\ fails' = Least(fails + 1, MaxWait)
  /\ wait' = Cooldown(fails + 1)

Fresh == last # "none" /\ age < Ttl

\* Where a path goes on when a gate of it is shut.
Shut(g) ==
  /\ gate' = IF g = "swing" THEN "boll" ELSE "swing"
  /\ step' = IF g = "swing" THEN "vix" ELSE "idle"

Opens(g, next) == gate' = g /\ step' = next

AtVix(g) == gate = g /\ step = "vix"

\* _ensure_vix_contract
NoContract(g) ==
  /\ AtVix(g) /\ ~contract /\ ~ok
  /\ Shut(g)
  /\ UNCHANGED << world, vix, spy, data, spent, entered >>

HasContract == (contract \/ ok) /\ contract' = TRUE

VixCached(g) ==
  /\ AtVix(g) /\ Fresh /\ HasContract
  /\ IF last = "calm" THEN Opens(g, "spy") ELSE Shut(g)
  /\ UNCHANGED << world, last, age, fails, wait, spy, data, spent, entered >>

\* run_cycle forgets the reading when it gets none; the other path does not.
Forgets(g) == last' = IF g = "swing" THEN "none" ELSE last

VixSuppressed(g) ==
  /\ AtVix(g) /\ ~Fresh /\ wait > 0 /\ HasContract
  /\ Forgets(g) /\ Shut(g)
  /\ UNCHANGED << world, age, fails, wait, spy, data, spent, entered >>

\* The ticker, or the history, answers.
VixAnswers(g) ==
  /\ AtVix(g) /\ ~Fresh /\ wait = 0 /\ ok /\ HasContract
  /\ Succeeds
  /\ IF calm THEN Opens(g, "spy") ELSE Shut(g)
  /\ UNCHANGED << world, spy, data, spent, entered >>

\* Mutant: the last reading is used when there is no new one.
VixFailsToStale(g) ==
  /\ AtVix(g) /\ ~Fresh /\ wait = 0 /\ ~ok /\ HasContract
  /\ Fails
  /\ IF last = "calm" THEN Opens(g, "spy") ELSE Shut(g)
  /\ UNCHANGED << world, last, age, spy, data, spent, entered >>

\* Neither does.
VixFails(g) ==
  /\ AtVix(g) /\ ~Fresh /\ wait = 0 /\ ~ok /\ HasContract
  /\ Fails /\ Forgets(g) /\ Shut(g)
  /\ UNCHANGED << world, age, spy, data, spent, entered >>

-----------------------------------------------------------------------------
(* SPY. *)

Fetched == IF ~ok THEN "failed" ELSE IF bull THEN "bull" ELSE "bear"

\* _fetch_spy_trend: one answer a day, and a failure is an answer.
Spy(g) ==
  /\ gate = g /\ step = "spy"
  /\ spy' = IF spy = "none" THEN Fetched ELSE spy
  /\ spent' = 0
  /\ IF spy' = "bull" THEN Opens(g, "scan") ELSE Shut(g)
  /\ UNCHANGED << world, vix, data, entered >>

-----------------------------------------------------------------------------
(* The scans. *)

ScanGoesOn ==
  /\ step = "scan" /\ spent < ScanTicks
  /\ TimePasses
  /\ spent' = spent + 1
  /\ UNCHANGED << ok, link, bull, contract, last, fails, spy, data, gate, step,
                  entered >>

\* Mutant: a scan with prices does not end the blackout.
SwingScannedDarkens(dark) ==
  /\ gate = "swing" /\ step = "scan"
  /\ streak' = IF dark THEN Least(streak + 1, StreakAlert) ELSE streak
  /\ alerted' = (streak' >= StreakAlert)
  /\ entered' \in IF streak' >= StreakAlert THEN {entered} ELSE {entered, "swing"}
  /\ Shut("swing")
  /\ UNCHANGED << world, vix, spy, spent >>

\* Most candidates have no price, or enough have one; in a blackout nothing is
\* bought.
SwingScanned(dark) ==
  /\ gate = "swing" /\ step = "scan" /\ (dark => ~ok)
  /\ streak' = IF dark THEN Least(streak + 1, StreakAlert) ELSE 0
  /\ alerted' = (streak' >= StreakAlert)
  /\ entered' \in IF streak' >= StreakAlert THEN {entered} ELSE {entered, "swing"}
  /\ Shut("swing")
  /\ UNCHANGED << world, vix, spy, spent >>

\* The Bollinger path does not look at the blackout.
BollScanned ==
  /\ gate = "boll" /\ step = "scan"
  /\ entered' \in {entered, "boll"}
  /\ Shut("boll")
  /\ UNCHANGED << world, vix, spy, data, spent >>

-----------------------------------------------------------------------------
(* Cycles and the connection. *)

CycleBegins ==
  /\ step = "idle" /\ link
  /\ TimePasses
  /\ gate' = "swing" /\ step' = "vix" /\ entered' = "none"
  /\ UNCHANGED << ok, link, bull, contract, last, fails, spy, data, spent >>

\* All attempts to reconnect fail.
CycleSkipped ==
  /\ step = "idle" /\ ~link /\ ~ok
  /\ TimePasses /\ entered' = "none"
  /\ UNCHANGED << ok, link, bull, contract, last, fails, spy, data, gate, step,
                  spent >>

\* One does, and the historical data is warmed up before the cycle goes on.
Reconnects ==
  /\ step = "idle" /\ ~link /\ ok
  /\ TimePasses
  /\ link' = TRUE /\ step' = "warmup" /\ spent' = 1 /\ entered' = "none"
  /\ UNCHANGED << ok, bull, contract, last, fails, spy, data, gate >>

\* Both SPY and VIX answer.
WarmedUp ==
  /\ step = "warmup" /\ ok
  /\ Succeeds /\ contract' = TRUE
  /\ step' = "vix"
  /\ UNCHANGED << world, spy, data, gate, spent, entered >>

WarmupWaits ==
  /\ step = "warmup" /\ ~ok /\ spent < Retries
  /\ TimePasses
  /\ spent' = spent + 1
  /\ UNCHANGED << ok, link, bull, contract, last, fails, spy, data, gate, step,
                  entered >>

\* The last attempt fails; only one at the VIX itself counts as its failure.
WarmupFails ==
  /\ step = "warmup" /\ ~ok /\ spent = Retries
  /\ Fails \/ UNCHANGED << fails, wait >>
  /\ step' = "vix"
  /\ UNCHANGED << world, contract, last, age, spy, data, gate, spent, entered >>

\* Mutant: the trend is not dated.
NewDayKeepsTrend ==
  /\ step = "idle"
  /\ bull' \in BOOLEAN
  /\ UNCHANGED << ok, link, calm, calmAge, vix, spy, data, gate, step, spent,
                  entered >>

\* Another day: the trend is of the day.
NewDay ==
  /\ step = "idle"
  /\ bull' \in BOOLEAN /\ spy' = "none"
  /\ UNCHANGED << ok, link, calm, calmAge, vix, data, gate, step, spent, entered >>

\* The broker stops answering, or answers again; the socket may go meanwhile.
Outage ==
  /\ ok /\ ok' = FALSE
  /\ UNCHANGED link \/ link' = FALSE
  /\ UNCHANGED << calm, calmAge, bull, vix, spy, data, gate, step, spent, entered >>

Recovery ==
  /\ ~ok /\ ok' = TRUE
  /\ UNCHANGED << link, calm, calmAge, bull, vix, spy, data, gate, step, spent,
                  entered >>

Engine ==
  \/ \E g \in Paths : \/ NoContract(g) \/ VixCached(g) \/ VixSuppressed(g)
                      \/ VixAnswers(g) \/ VixFails(g) \/ Spy(g)
  \/ \E dark \in BOOLEAN : SwingScanned(dark)
  \/ BollScanned
  \/ CycleBegins \/ CycleSkipped \/ Reconnects
  \/ WarmedUp \/ WarmupWaits \/ WarmupFails

Next == Engine \/ ScanGoesOn \/ NewDay \/ Outage \/ Recovery

Spec == Init /\ [][Next]_vars

\* The loop keeps running, and days pass.
FairSpec == Spec /\ WF_vars(Engine) /\ SF_vars(NewDay)

-----------------------------------------------------------------------------
(* Properties. *)

Enters(g) == entered' = g /\ entered # g

\* A stale VIX reading authorises no entry: the VIX has been calm no longer ago than
\* the cache keeps a reading and the scan lasts.
EntriesOnFreshVix ==
  [][\A g \in Paths : Enters(g) => calmAge < Horizon]_vars

\* Both paths enter in a tape that is bullish by the bars of that day.
EntriesInTodaysTape == [][\A g \in Paths : Enters(g) => bull]_vars

\* When the broker answers again, the VIX stays calm and the tape bullish, the
\* scanner's entries are possible again: no failure, cool-down, warm-up or blackout
\* shuts a gate for good.
Good == ok /\ calm /\ bull

GateReopens ==
  <>[]Good => []<>(gate = "swing" /\ step = "scan" /\ streak < StreakAlert)
=============================================================================
