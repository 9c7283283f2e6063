-------------------------- MODULE SupervisorProofs --------------------------
(***************************************************************************)
(* The supervisor and the lock: however many shells run start_trader.sh,   *)
(* and whatever dies, hangs, is started by hand or is signalled, one       *)
(* engine trades and the lock file names it; an engine that hangs under a  *)
(* shell is gone in the times of the watchdog, once nobody else writes its *)
(* heartbeat; and, if an engine that is                                    *)
(* well starts in the grace and ends its cycles in the time of a stale     *)
(* heartbeat, the watchdog kills no other.                                 *)
(*                                                                         *)
(* What happens to the processes is one of a few changes (Changes), or the *)
(* clock (Tick).  What is said of processes and the lock alone is shown of *)
(* those; what is said of shells, of the steps of a shell.                 *)
(***************************************************************************)
EXTENDS Supervisor, TLAPS

Holding == {"locked", "starting", "trading", "reconnecting"}

\* How long a shell sleeps, where it does.
Sleeps(label, ticks) ==
  /\ ticks > 0 => label \in Asleep
  /\ label = "nap" => ticks <= Interval
  /\ label = "polls" => ticks <= TermWait

\* No process has two shells, and a process with a shell is one.
Kids ==
  /\ \A s, t \in Shells : kid[s] = kid[t] /\ s # t => kid[s] = NoPid
  /\ \A s \in Shells : kid[s] # NoPid => proc[kid[s]] # "none"
  /\ \A s \in Shells : Sleeps(sup[s], left[s])

LockInv ==
  \A p \in Pids : /\ proc[p] \in Holding <=> lock = p
                  /\ Trading(p) => lockPid = p

\* What the patience of the clock amounts to.
OnTime ==
  \A p \in Pids : Well(p) =>
    /\ proc[p] = "trading" => quiet[p] <= CycleMax
    /\ proc[p] = "reconnecting" => quiet[p] <= Backoff
    /\ proc[p] \notin {"trading", "reconnecting"} => age[p] <= StartMax

\* The heartbeat is at least as old as the last sign of the one that has the lock,
\* or as what the prefilter script wrote, and that of an engine which has written is
\* no older than its own.
Beats ==
  \A p \in Pids : lock = p =>
    /\ beat >= Capped(Silence(p), Stale + 1)
    /\ age[p] >= Capped(quiet[p], Horizon)
    /\ proc[p] \in {"trading", "reconnecting"} => beat <= quiet[p]

NoReconnect == "outage" \notin Faults => \A p \in Pids : proc[p] # "reconnecting"

\* How long the engine with the lock may have been silent, by where its shell is.
Watched ==
  \A s \in Shells : kid[s] # NoPid /\ kid[s] = lock =>
    /\ sup[s] \in {"forked", "watch", "look", "term"}
         => Silence(kid[s]) <= Horizon - 1 + Interval
    /\ sup[s] = "nap"   => Silence(kid[s]) + left[s] <= Horizon - 1 + Interval
    /\ sup[s] = "polls" => Silence(kid[s]) + left[s] <= Overdue

ProcInv == LockInv /\ OnTime /\ Beats /\ NoReconnect
IInv    == TypeOK /\ Kids /\ ProcInv /\ Watched

\* An engine that is well starts within the grace, and ends a cycle in the time
\* after which a heartbeat is stale; so does _reconnect, or the Gateway stays.
Timely ==
  /\ StartMax < Grace /\ CycleMax <= Stale
  /\ "outage" \in Faults => Backoff <= Stale

-----------------------------------------------------------------------------
(* Constants and types *)

LEMMA Times ==
  /\ Stale \in Nat /\ Stale > 0 /\ Grace \in Nat /\ Grace > 0
  /\ Interval \in Nat /\ Interval > 0 /\ TermWait \in Nat /\ TermWait > 0
  /\ Delay \in Nat /\ StartMax \in Nat /\ CycleMax \in Nat /\ Backoff \in Nat
  /\ Horizon \in Nat /\ Horizon >= Grace /\ Horizon >= Stale + 1
  /\ Overdue \in Nat /\ Overdue = Horizon - 1 + Interval + TermWait
  /\ NoFile \in Nat /\ NoFile = Stale + 2
BY TimesAssumption DEF Horizon, Overdue, NoFile, Largest

ProcTyped ==
  /\ proc \in [Pids -> Stages]
  /\ hung \in [Pids -> BOOLEAN]
  /\ age \in [Pids -> 0 .. Horizon]
  /\ quiet \in [Pids -> 0 .. Overdue + 1]
  /\ lock \in Pids \cup {NoPid}
  /\ lockPid \in Pids \cup {NoPid}
  /\ beat \in 0 .. NoFile
  /\ screened \in 0 .. Overdue + 1

\* One change of the processes that is not the clock's.
Changes(p) ==
  \/ Running(p) /\ Ends(p)
  \/ Starts(p)
  \/ Reaped(p)
  \/ TakesLock(p)
  \/ WritesPid(p)
  \/ \E stage \in {"trading", "reconnecting"} : Beat(p, stage)
  \/ LosesConnection(p)
  \/ Hangs(p)

LEMMA SilenceTyped ==
  ASSUME ProcTyped, NEW p \in Pids
  PROVE  /\ Silence(p) \in Nat /\ Silence(p) <= quiet[p] /\ Silence(p) <= screened
         /\ quiet[p] \in Nat /\ screened \in Nat
BY TimesAssumption DEF ProcTyped, Silence, Overdue, Horizon, Largest

LEMMA TypeParts == TypeOK => ProcTyped
BY DEF TypeOK, ProcTyped

\* stop_child changes the process of its shell at most.
LEMMA StopsChildChanges ==
  ASSUME TypeOK, NEW s \in Shells, StopsChild(s)
  PROVE  UNCHANGED procVars \/ \E p \in Pids : Changes(p)
<1>1. kid[s] \in Pids \cup {NoPid}
  BY DEF TypeOK
<1>2. CASE kid[s] = NoPid
  BY <1>2 DEF StopsChild
<1>3. CASE kid[s] # NoPid
  <2>1. kid[s] \in Pids
    BY <1>1, <1>3
  <2>2. CASE sup[s] = "forked"
    BY <1>3, <2>1, <2>2 DEF StopsChild, Changes
  <2>3. CASE sup[s] # "forked"
    BY <1>3, <2>1, <2>3 DEF StopsChild, Terminated, Changes
  <2>4. QED
    BY <2>2, <2>3
<1>4. QED
  BY <1>2, <1>3

LEMMA ShellChanges ==
  ASSUME TypeOK, NEW s \in Shells, Shell(s)
  PROVE  UNCHANGED procVars \/ \E p \in Pids : Changes(p)
<1>1. kid[s] \in Pids \cup {NoPid}
      /\ (sup[s] \notin Gone \cup {"top", "delay"} => kid[s] # NoPid)
  BY DEF TypeOK
<1>2. CASE Forks(s)
  BY <1>2 DEF Forks, Changes
<1>3. CASE Disabled(s) \/ Records(s) \/ Watches(s) \/ LooksWell(s) \/ LooksStale(s)
           \/ Wakes(s) \/ Restarts(s)
  BY <1>3 DEF Disabled, Records, Watches, LooksWell, LooksStale, Wakes, Restarts
<1>4. CASE Reaps(s)
  <2>1. kid[s] \in Pids
    BY <1>1, <1>4 DEF Reaps, At, Gone
  <2>2. Reaped(kid[s])
    BY <1>4 DEF Reaps
  <2>3. QED
    BY <2>1, <2>2 DEF Changes
<1>5. CASE Waited(s)
  <2>1. kid[s] \in Pids
    BY <1>1, <1>5 DEF Waited, Gone
  <2>2. Reaped(kid[s])
    BY <1>5 DEF Waited
  <2>3. QED
    BY <2>1, <2>2 DEF Changes
<1>6. CASE Trap(s) \/ Disables(s)
  BY <1>6, StopsChildChanges DEF Trap, Disables
<1>7. CASE Terminates(s)
  <2>1. kid[s] \in Pids
    BY <1>1, <1>7 DEF Terminates, At, Gone
  <2>2. Terminated(kid[s])
    BY <1>7 DEF Terminates
  <2>3. QED
    BY <2>1, <2>2 DEF Terminated, Changes
<1>8. CASE PollsOver(s)
  <2>1. kid[s] \in Pids
    BY <1>1, <1>8 DEF PollsOver, Gone
  <2>2. UNCHANGED procVars \/ (Running(kid[s]) /\ Ends(kid[s]))
    BY <1>8 DEF PollsOver
  <2>3. QED
    BY <2>1, <2>2 DEF Changes
<1>9. QED
  BY <1>2, <1>3, <1>4, <1>5, <1>6, <1>7, <1>8 DEF Shell

\* What a step does to the processes.
LEMMA ProcStep ==
  ASSUME TypeOK, [Next]_vars
  PROVE  UNCHANGED procVars \/ Tick \/ Screens \/ \E p \in Pids : Changes(p)
<1>1. CASE UNCHANGED vars
  BY <1>1 DEF vars
<1>2. ASSUME NEW p \in Pids, Engine(p)
      PROVE  UNCHANGED procVars \/ Changes(p)
  <2>1. CASE Proceeds(p)
    <3>1. CASE FindsLocked(p)
      <4>1. Running(p) /\ Ends(p)
        BY <3>1, PidAssumption DEF FindsLocked, Running
      <4>2. QED
        BY <4>1 DEF Changes
    <3>2. QED
      BY <2>1, <3>1 DEF Proceeds, Changes
  <2>2. CASE LosesConnection(p) \/ Hangs(p) \/ (Running(p) /\ Ends(p)) \/ Starts(p)
    BY <2>2 DEF Changes
  <2>3. QED
    BY <1>2, <2>1, <2>2 DEF Engine
<1>3. ASSUME NEW s \in Shells, Launch(s) \/ Signal(s)
      PROVE  UNCHANGED procVars
  BY <1>3 DEF Launch, Signal
<1>4. ASSUME NEW s \in Shells, ShellDies(s)
      PROVE  UNCHANGED procVars \/ \E p \in Pids : Changes(p)
  BY <1>4 DEF ShellDies, Changes, TypeOK
<1>5. CASE ToggleStopFile
  BY <1>5 DEF ToggleStopFile
<1>6. QED
  BY <1>1, <1>2, <1>3, <1>4, <1>5, ShellChanges DEF Next

LEMMA ProcTypedKept ==
  ASSUME TypeOK, NEW p \in Pids, Changes(p)
  PROVE  ProcTyped'
<1> USE TypeParts, Times, PidAssumption
<1>1. CASE Running(p) /\ Ends(p)
  <2>1. hung' \in [Pids -> BOOLEAN]
    BY <1>1, Zenon DEF ProcTyped, Ends
  <2>2. QED
    BY <1>1, <2>1 DEF ProcTyped, Ends, Stages
<1>2. CASE Starts(p)
  <2>1. hung' \in [Pids -> BOOLEAN]
    BY <1>2, Zenon DEF ProcTyped, Starts
  <2>2. QED
    BY <1>2, <2>1 DEF ProcTyped, Starts, Stages
<1>3. CASE Hangs(p)
  <2>1. hung' \in [Pids -> BOOLEAN]
    BY <1>3, Zenon DEF ProcTyped, Hangs
  <2>2. QED
    BY <1>3, <2>1 DEF ProcTyped, Hangs
<1>4. CASE Reaped(p)
  BY <1>4 DEF ProcTyped, Reaped, Stages
<1>5. CASE TakesLock(p)
  BY <1>5 DEF ProcTyped, TakesLock, Stages
<1>6. CASE WritesPid(p)
  BY <1>6 DEF ProcTyped, WritesPid, Stages
<1>7. ASSUME NEW stage \in {"trading", "reconnecting"}, Beat(p, stage)
      PROVE  ProcTyped'
  BY <1>7 DEF ProcTyped, Beat, Stages
<1>8. CASE LosesConnection(p)
  BY <1>8 DEF ProcTyped, LosesConnection, Stages
<1>9. QED
  BY <1>1, <1>2, <1>3, <1>4, <1>5, <1>6, <1>7, <1>8 DEF Changes

LEMMA ProcTypedTicks ==
  ASSUME TypeOK, Tick
  PROVE  ProcTyped'
<1> USE TypeParts, Times
<1>1. \A p \in Pids : /\ Capped(age[p] + 1, Horizon) \in 0 .. Horizon
                      /\ Capped(quiet[p] + 1, Overdue + 1) \in 0 .. Overdue + 1
  BY DEF ProcTyped, Capped
<1>2. age' \in [Pids -> 0 .. Horizon] /\ quiet' \in [Pids -> 0 .. Overdue + 1]
  BY <1>1 DEF ProcTyped, Tick
<1>3. beat' \in 0 .. NoFile /\ screened' \in 0 .. Overdue + 1
  BY DEF ProcTyped, Tick, Capped
<1>4. QED
  BY <1>2, <1>3 DEF ProcTyped, Tick

-----------------------------------------------------------------------------
(* Processes, the lock and the heartbeat *)

\* The change of one process leaves the others as they are.
LEMMA OnlyOne ==
  ASSUME TypeOK, NEW p \in Pids, Changes(p), NEW q \in Pids, q # p
  PROVE  /\ proc'[q] = proc[q] /\ hung'[q] = hung[q]
         /\ age'[q] = age[q] /\ quiet'[q] = quiet[q]
BY TypeParts DEF ProcTyped, Changes, Ends, Starts, Reaped, TakesLock, WritesPid, Beat,
                 LosesConnection, Hangs

LEMMA LockKept ==
  ASSUME TypeOK, LockInv, NEW p \in Pids, Changes(p)
  PROVE  LockInv'
<1> USE TypeParts, PidAssumption DEF Holding
<1>1. CASE Running(p) /\ Ends(p)
  BY <1>1 DEF ProcTyped, LockInv, Trading, Ends
<1>2. CASE Starts(p)
  BY <1>2 DEF ProcTyped, LockInv, Trading, Starts
<1>3. CASE Reaped(p)
  BY <1>3 DEF ProcTyped, LockInv, Trading, Reaped
<1>4. CASE TakesLock(p)
  BY <1>4 DEF ProcTyped, LockInv, Trading, TakesLock
<1>5. CASE WritesPid(p)
  BY <1>5 DEF ProcTyped, LockInv, Trading, WritesPid
<1>6. ASSUME NEW stage \in {"trading", "reconnecting"}, Beat(p, stage)
      PROVE  LockInv'
  BY <1>6 DEF ProcTyped, LockInv, Trading, Beat
<1>7. CASE LosesConnection(p)
  BY <1>7 DEF ProcTyped, LockInv, Trading, LosesConnection
<1>8. CASE Hangs(p)
  BY <1>8 DEF ProcTyped, LockInv, Trading, Hangs
<1>9. QED
  BY <1>1, <1>2, <1>3, <1>4, <1>5, <1>6, <1>7, <1>8 DEF Changes

LEMMA OnTimeKept ==
  ASSUME TypeOK, OnTime, NEW p \in Pids, Changes(p)
  PROVE  OnTime'
<1> USE TypeParts, Times
<1> SUFFICES ASSUME NEW q \in Pids, Well(q)'
             PROVE  /\ proc'[q] = "trading" => quiet'[q] <= CycleMax
                    /\ proc'[q] = "reconnecting" => quiet'[q] <= Backoff
                    /\ proc'[q] \notin {"trading", "reconnecting"} => age'[q] <= StartMax
  BY DEF OnTime
<1>1. CASE q # p
  <2>1. Well(q)
    BY <1>1, OnlyOne DEF Well, Running
  <2>2. QED
    BY <1>1, <2>1, OnlyOne DEF OnTime
<1>2. CASE q = p
  <2>1. CASE Ends(p) \/ Reaped(p)
    BY <1>2, <2>1 DEF ProcTyped, OnTime, Well, Running, Ends, Reaped
  <2>2. CASE Starts(p)
    BY <1>2, <2>2 DEF ProcTyped, Starts
  <2>3. CASE TakesLock(p) \/ WritesPid(p)
    BY <1>2, <2>3 DEF ProcTyped, OnTime, Well, Running, TakesLock, WritesPid
  <2>4. ASSUME NEW stage \in {"trading", "reconnecting"}, Beat(p, stage)
        PROVE  proc'[p] \in {"trading", "reconnecting"} /\ quiet'[p] = 0
    BY <2>4 DEF ProcTyped, Beat
  <2>5. CASE LosesConnection(p)
    BY <1>2, <2>5 DEF ProcTyped, LosesConnection
  <2>6. CASE Hangs(p)
    BY <1>2, <2>6 DEF ProcTyped, Hangs, Well
  <2>7. QED
    BY <1>2, <2>1, <2>2, <2>3, <2>4, <2>5, <2>6 DEF Changes
<1>3. QED
  BY <1>1, <1>2

LEMMA BeatsKept ==
  ASSUME TypeOK, LockInv, LockInv', Beats, NEW p \in Pids, Changes(p)
  PROVE  Beats'
<1> USE TypeParts, Times, PidAssumption
<1> SUFFICES ASSUME NEW q \in Pids, lock' = q
             PROVE  /\ beat' >= Capped(Silence(q)', Stale + 1)
                    /\ age'[q] >= Capped(quiet'[q], Horizon)
                    /\ proc'[q] \in {"trading", "reconnecting"} => beat' <= quiet'[q]
  BY DEF Beats
<1>0. /\ quiet'[q] \in Nat /\ screened' \in Nat
      /\ Silence(q)' = IF screened' < quiet'[q] THEN screened' ELSE quiet'[q]
  BY ProcTypedKept DEF ProcTyped, Silence
<1>1. proc'[q] \in Holding
  BY DEF LockInv
<1>2. CASE Ends(p) \/ Starts(p) \/ Reaped(p)
  BY <1>1, <1>2 DEF ProcTyped, Beats, Silence, LockInv, Holding, Ends, Starts, Reaped
<1>3. CASE TakesLock(p)
  BY <1>0, <1>3 DEF ProcTyped, TakesLock, Capped
<1>4. CASE WritesPid(p)
  BY <1>4 DEF ProcTyped, Beats, WritesPid, Silence
<1>5. ASSUME NEW stage \in {"trading", "reconnecting"}, Beat(p, stage)
      PROVE  lock = p /\ lock' = lock /\ quiet'[p] = 0 /\ beat' = 0 /\ age' = age
  BY <1>5 DEF ProcTyped, Beat, LockInv, Holding
<1>6. CASE LosesConnection(p)
  <2>1. lock = p /\ lock' = lock /\ quiet'[p] = 0 /\ beat' = 0 /\ age' = age
    BY <1>6 DEF ProcTyped, LosesConnection, LockInv, Holding
  <2>2. QED
    BY <1>0, <2>1 DEF ProcTyped, Capped
<1>7. CASE Hangs(p)
  BY <1>7 DEF ProcTyped, Beats, Hangs, Silence
<1>8. CASE \E stage \in {"trading", "reconnecting"} : Beat(p, stage)
  BY <1>0, <1>5, <1>8 DEF ProcTyped, Capped
<1>9. QED
  BY <1>2, <1>3, <1>4, <1>6, <1>7, <1>8 DEF Changes

LEMMA NoReconnectKept ==
  ASSUME TypeOK, NoReconnect, NEW p \in Pids, Changes(p)
  PROVE  NoReconnect'
<1> SUFFICES ASSUME "outage" \notin Faults, NEW q \in Pids
             PROVE  proc'[q] # "reconnecting"
  BY DEF NoReconnect
<1>1. proc[q] # "reconnecting"
  BY DEF NoReconnect
<1>2. ~LosesConnection(p)
  BY DEF LosesConnection, Fault
<1>3. QED
  BY <1>1, <1>2, TypeParts DEF NoReconnect, ProcTyped, Changes, Ends, Starts, Reaped,
     TakesLock, WritesPid, Beat, Hangs

\* The patience of the clock, by what a process does.
LEMMA PatienceMeans ==
  ASSUME NEW p \in Pids, Patient(p), Well(p)
  PROVE  /\ proc[p] = "trading" => quiet[p] < CycleMax
         /\ proc[p] = "reconnecting" => quiet[p] < Backoff
         /\ proc[p] \notin {"trading", "reconnecting"} => age[p] < StartMax
BY DEF Patient

LEMMA ProcTicks ==
  ASSUME TypeOK, ProcInv, Tick
  PROVE  ProcInv'
<1> USE TypeParts, Times
<1>1. LockInv'
  BY DEF ProcInv, LockInv, Trading, Tick
<1>2. NoReconnect'
  BY DEF ProcInv, NoReconnect, Tick
<1>3. ASSUME NEW p \in Pids, Running(p)
      PROVE  /\ age'[p] = Capped(age[p] + 1, Horizon)
             /\ quiet'[p] = Capped(quiet[p] + 1, Overdue + 1)
  BY <1>3 DEF Tick
<1>4. OnTime'
  <2> SUFFICES ASSUME NEW p \in Pids, Well(p)'
               PROVE  /\ proc'[p] = "trading" => quiet'[p] <= CycleMax
                      /\ proc'[p] = "reconnecting" => quiet'[p] <= Backoff
                      /\ proc'[p] \notin {"trading", "reconnecting"}
                           => age'[p] <= StartMax
    BY DEF OnTime
  <2>1. Well(p) /\ Running(p) /\ Patient(p) /\ proc' = proc
    BY DEF Tick, Well, Running
  <2>2. QED
    BY <1>3, <2>1, PatienceMeans DEF ProcTyped, Capped
<1>5. Beats'
  <2> SUFFICES ASSUME NEW p \in Pids, lock' = p
               PROVE  /\ beat' >= Capped(Silence(p)', Stale + 1)
                      /\ age'[p] >= Capped(quiet'[p], Horizon)
                      /\ proc'[p] \in {"trading", "reconnecting"}
                           => beat' <= quiet'[p]
    BY DEF Beats
  <2>1. lock = p /\ proc' = proc
    BY DEF Tick
  <2>2. Running(p)
    BY <2>1, PidAssumption DEF ProcInv, LockInv, Holding, Running
  <2>3. /\ beat >= Capped(Silence(p), Stale + 1)
        /\ age[p] >= Capped(quiet[p], Horizon)
        /\ proc[p] \in {"trading", "reconnecting"} => beat <= quiet[p]
    BY <2>1 DEF ProcInv, Beats
  <2>4. beat' = IF beat = NoFile THEN NoFile ELSE Capped(beat + 1, Stale + 1)
    BY DEF Tick
  <2>5. QED
    <3>1. /\ quiet'[p] = Capped(quiet[p] + 1, Overdue + 1)
          /\ screened' = Capped(screened + 1, Overdue + 1)
          /\ age'[p] = Capped(age[p] + 1, Horizon)
          /\ quiet[p] \in 0 .. Overdue + 1 /\ screened \in 0 .. Overdue + 1
          /\ age[p] \in 0 .. Horizon /\ beat \in 0 .. NoFile
      BY <1>3, <2>2 DEF ProcTyped, Tick
    <3>2. Silence(p)' = IF screened' < quiet'[p] THEN screened' ELSE quiet'[p]
      BY DEF Silence
    <3>3. beat' >= Capped(Silence(p)', Stale + 1)
      BY <2>3, <2>4, <3>1, <3>2 DEF Silence, Capped
    <3>4. QED
      BY <2>1, <2>3, <2>4, <3>1, <3>3 DEF Capped
<1>6. QED
  BY <1>1, <1>2, <1>4, <1>5 DEF ProcInv

\* What the prefilter script writes makes no silence longer.
LEMMA ProcScreens ==
  ASSUME TypeOK, ProcInv, Screens
  PROVE  ProcTyped' /\ ProcInv'
<1> USE TypeParts, Times
<1>1. ProcTyped'
  <2>1. hung' \in [Pids -> BOOLEAN]
    BY Zenon DEF ProcTyped, Screens
  <2>2. QED
    BY <2>1 DEF ProcTyped, Screens
<1>2. LockInv' /\ OnTime' /\ NoReconnect'
  BY DEF ProcInv, LockInv, OnTime, NoReconnect, Trading, Well, Running, Screens
<1>3. Beats'
  <2> SUFFICES ASSUME NEW p \in Pids, lock' = p
               PROVE  /\ beat' >= Capped(Silence(p)', Stale + 1)
                      /\ age'[p] >= Capped(quiet'[p], Horizon)
                      /\ proc'[p] \in {"trading", "reconnecting"}
                           => beat' <= quiet'[p]
    BY DEF Beats
  <2>1. Silence(p)' = 0 /\ beat' = 0 /\ quiet[p] \in Nat
    BY DEF ProcTyped, Screens, Silence
  <2>2. QED
    BY <2>1 DEF ProcInv, Beats, Screens, Capped
<1>4. QED
  BY <1>1, <1>2, <1>3 DEF ProcInv

LEMMA ProcInvKept ==
  ASSUME TypeOK, ProcInv, [Next]_vars
  PROVE  ProcTyped' /\ ProcInv'
<1>1. CASE UNCHANGED procVars
  BY <1>1, TypeParts
     DEF procVars, ProcTyped, ProcInv, LockInv, OnTime, Beats, NoReconnect, Trading, Well,
         Running, Silence
<1>2. CASE Tick
  BY <1>2, ProcTicks, ProcTypedTicks
<1>3. CASE Screens
  BY <1>3, ProcScreens
<1>4. CASE \E p \in Pids : Changes(p)
  BY <1>4, ProcTypedKept, LockKept, OnTimeKept, BeatsKept, NoReconnectKept DEF ProcInv
<1>5. QED
  BY <1>1, <1>2, <1>3, <1>4, ProcStep

\* A process that is hung or has ended stays so as long as there is something of it.
LEMMA StaysDown ==
  ASSUME TypeOK, [Next]_vars, NEW p \in Pids, proc[p] # "none", hung[p] \/ ~Running(p)
  PROVE  hung'[p] \/ ~Running(p)'
<1> USE TypeParts, PidAssumption
<1>1. CASE UNCHANGED procVars \/ Tick \/ Screens
  BY <1>1 DEF procVars, Tick, Screens, Running
<1>2. ASSUME NEW q \in Pids, Changes(q)
      PROVE  hung'[p] \/ ~Running(p)'
  <2>1. CASE p # q
    BY <1>2, <2>1, OnlyOne DEF Running
  <2>2. CASE p = q
    <3>1. CASE Ends(p)
      BY <3>1 DEF ProcTyped, Ends, Running
    <3>2. CASE Reaped(p)
      BY <3>2 DEF ProcTyped, Reaped, Running
    <3>3. CASE Hangs(p)
      BY <3>3 DEF ProcTyped, Hangs
    <3>4. QED
      BY <1>2, <2>2, <3>1, <3>2, <3>3
         DEF Changes, Starts, TakesLock, WritesPid, Beat, LosesConnection, Running
  <2>3. QED
    BY <2>1, <2>2
<1>3. QED
  BY <1>1, <1>2, ProcStep

\* Only the clock makes the silence of the one that has the lock longer.
LEMMA SilenceFalls ==
  ASSUME TypeOK, LockInv, ProcTyped', [Next]_vars, ~Tick, NEW p \in Pids, lock' = p
  PROVE  (lock = p /\ Silence(p)' <= Silence(p)) \/ Silence(p)' = 0
<1> USE TypeParts, PidAssumption, Times
<1>1. CASE UNCHANGED procVars
  BY <1>1, SilenceTyped DEF procVars, Silence
<1>2. CASE Screens
  BY <1>2 DEF ProcTyped, Screens, Silence
<1>3. ASSUME NEW q \in Pids, Changes(q)
      PROVE  (lock = p /\ Silence(p)' <= Silence(p)) \/ Silence(p)' = 0
  <2>1. screened' = screened
    BY <1>3 DEF Changes, Ends, Starts, Reaped, TakesLock, WritesPid, Beat,
                LosesConnection, Hangs
  <2>2. (lock = p /\ quiet'[p] <= quiet[p]) \/ quiet'[p] = 0
    <3>1. CASE lock = p
      BY <1>3, <3>1 DEF ProcTyped, Changes, Ends, Starts, Reaped, TakesLock, WritesPid,
                        Beat, LosesConnection, Hangs
    <3>2. CASE lock # p
      <4>1. TakesLock(p)
        BY <1>3, <3>2 DEF ProcTyped, Changes, Ends, Starts, Reaped, TakesLock, WritesPid,
                          Beat, LosesConnection, Hangs
      <4>2. QED
        BY <4>1 DEF ProcTyped, TakesLock
    <3>3. QED
      BY <3>1, <3>2
  <2>3. quiet[p] \in Nat /\ quiet'[p] \in Nat /\ screened \in Nat
    BY DEF ProcTyped
  <2>4. QED
    BY <2>1, <2>2, <2>3 DEF Silence
<1>4. QED
  BY <1>1, <1>2, <1>3, ProcStep

-----------------------------------------------------------------------------
(* Shells *)

Bare == Gone \cup {"top", "delay"}

\* What a step of a shell does to where it is and to its process.
Moves(s, label, ticks) ==
  /\ Goto(s, label, ticks)
  /\ Sleeps(label, ticks)
  /\ \/ kid' = kid /\ (kid[s] = NoPid <=> label \in Bare)
     \/ Forgets(s) /\ label \in Bare
     \/ label = "forked" /\ \E p \in Pids : /\ proc[p] = "none"
                                            /\ kid' = [kid EXCEPT ![s] = p]

StillShells == UNCHANGED << sup, kid, left >>

LEMMA StopsChildMoves ==
  ASSUME TypeOK, NEW s \in Shells, StopsChild(s)
  PROVE  \E label \in Labels, ticks \in Nat : Moves(s, label, ticks)
<1>1. CASE sup[s] # "forked" /\ kid[s] # NoPid
  <2>1. Moves(s, "stop", 0)
    BY <1>1, Times DEF StopsChild, Moves, Sleeps, Bare, Gone, Asleep
  <2>2. QED
    BY <2>1 DEF Labels
<1>2. CASE ~(sup[s] # "forked" /\ kid[s] # NoPid)
  <2>1. Moves(s, "ended", 0)
    BY <1>2, Times DEF StopsChild, Moves, Sleeps, Bare, Gone, Asleep
  <2>2. QED
    BY <2>1 DEF Labels
<1>3. QED
  BY <1>1, <1>2

LEMMA ShellMoves ==
  ASSUME TypeOK, NEW s \in Shells, Launch(s) \/ Shell(s) \/ ShellDies(s)
  PROVE  \E label \in Labels, ticks \in Nat : Moves(s, label, ticks)
<1> USE Times DEF Labels, Bare, Gone, Asleep, Sleeps
<1>0. kid[s] = NoPid <=> sup[s] \in Bare
  BY DEF TypeOK
<1>1. CASE Launch(s)
  <2>1. Moves(s, "top", 0)
    BY <1>0, <1>1 DEF Launch, Moves
  <2>2. QED
    BY <2>1
<1>2. CASE Forks(s)
  <2>1. \E p \in Pids : proc[p] = "none" /\ kid' = [kid EXCEPT ![s] = p]
    BY <1>2, Zenon DEF Forks, Starts
  <2>2. Goto(s, "forked", 0)
    BY <1>2 DEF Forks
  <2>3. Moves(s, "forked", 0)
    <3>1. Sleeps("forked", 0)
      OBVIOUS
    <3>2. QED
      BY <2>1, <2>2, <3>1, Zenon DEF Moves
  <2>4. QED
    BY <2>3
<1>3. CASE Disabled(s)
  <2>1. Moves(s, "ended", 0)
    BY <1>0, <1>3 DEF Disabled, Moves, At
  <2>2. QED
    BY <2>1
<1>4. CASE Records(s) \/ Wakes(s)
  <2>1. Moves(s, "watch", 0)
    BY <1>0, <1>4 DEF Records, Wakes, Moves, At
  <2>2. QED
    BY <2>1
<1>5. CASE Watches(s)
  <2>1. Moves(s, "look", 0)
    BY <1>0, <1>5 DEF Watches, Moves, At
  <2>2. QED
    BY <2>1
<1>6. CASE Reaps(s)
  <2>1. Moves(s, "ended", 0) \/ Moves(s, "delay", Delay)
    BY <1>6 DEF Reaps, Moves
  <2>2. QED
    BY <2>1
<1>7. CASE Trap(s) \/ Disables(s)
  BY <1>7, StopsChildMoves DEF Trap, Disables
<1>8. CASE Waited(s) \/ ShellDies(s)
  <2>1. Moves(s, "ended", 0) \/ Moves(s, "killed", 0)
    BY <1>8 DEF Waited, ShellDies, Moves
  <2>2. QED
    BY <2>1
<1>9. CASE LooksWell(s) \/ PollsOver(s)
  <2>1. Moves(s, "nap", Interval)
    BY <1>0, <1>9 DEF LooksWell, PollsOver, Moves, At
  <2>2. QED
    BY <2>1
<1>10. CASE LooksStale(s)
  <2>1. Moves(s, "term", 0)
    BY <1>0, <1>10 DEF LooksStale, Moves, At
  <2>2. QED
    BY <2>1
<1>11. CASE Terminates(s)
  <2>1. Moves(s, "polls", TermWait)
    BY <1>0, <1>11 DEF Terminates, Moves, At
  <2>2. QED
    BY <2>1
<1>12. CASE Restarts(s)
  <2>1. Moves(s, "top", 0)
    BY <1>0, <1>12 DEF Restarts, Moves, At
  <2>2. QED
    BY <2>1
<1>13. QED
  BY <1>1, <1>2, <1>3, <1>4, <1>5, <1>6, <1>7, <1>8, <1>9, <1>10, <1>11, <1>12 DEF Shell

LEMMA StepMoves ==
  ASSUME TypeOK, [Next]_vars
  PROVE  \/ StillShells
         \/ Tick
         \/ \E s \in Shells, label \in Labels, ticks \in Nat : Moves(s, label, ticks)
<1>1. CASE UNCHANGED vars
  BY <1>1 DEF vars, shellVars, StillShells
<1>2. ASSUME NEW p \in Pids, Engine(p)
      PROVE  StillShells
  BY <1>2 DEF Engine, shellVars, StillShells
<1>3. ASSUME NEW s \in Shells, Signal(s)
      PROVE  StillShells
  BY <1>3 DEF Signal, StillShells
<1>4. CASE ToggleStopFile \/ Screens
  BY <1>4 DEF ToggleStopFile, Screens, shellVars, StillShells
<1>5. ASSUME NEW s \in Shells, Launch(s) \/ Shell(s) \/ ShellDies(s)
      PROVE  \E label \in Labels, ticks \in Nat : Moves(s, label, ticks)
  BY <1>5, ShellMoves
<1>6. QED
  BY <1>1, <1>2, <1>3, <1>4, <1>5 DEF Next

ShellTyped ==
  /\ sup \in [Shells -> Labels]
  /\ kid \in [Shells -> Pids \cup {NoPid}]
  /\ left \in [Shells -> Nat]
  /\ \A s \in Shells : kid[s] = NoPid <=> sup[s] \in Bare

LEMMA ShellTypedKept ==
  ASSUME TypeOK, [Next]_vars
  PROVE  ShellTyped'
<1>0. ShellTyped
  BY DEF TypeOK, ShellTyped, Bare
<1>1. CASE StillShells
  BY <1>0, <1>1 DEF StillShells, ShellTyped
<1>2. CASE Tick
  BY <1>0, <1>2 DEF Tick, ShellTyped
<1>3. ASSUME NEW s \in Shells, NEW label \in Labels, NEW ticks \in Nat,
             Moves(s, label, ticks)
      PROVE  ShellTyped'
  <2>1. sup' \in [Shells -> Labels] /\ left' \in [Shells -> Nat]
        /\ sup'[s] = label /\ \A t \in Shells \ {s} : sup'[t] = sup[t]
    BY <1>0, <1>3 DEF ShellTyped, Moves, Goto
  <2>2. CASE kid' = kid /\ (kid[s] = NoPid <=> label \in Bare)
    BY <1>0, <2>1, <2>2 DEF ShellTyped
  <2>3. CASE Forgets(s) /\ label \in Bare
    BY <1>0, <2>1, <2>3 DEF ShellTyped, Forgets
  <2>4. ASSUME NEW p \in Pids, kid' = [kid EXCEPT ![s] = p], label = "forked"
        PROVE  ShellTyped'
    BY <1>0, <2>1, <2>4, PidAssumption DEF ShellTyped, Bare, Gone
  <2>5. QED
    BY <1>3, <2>2, <2>3, <2>4 DEF Moves
<1>4. QED
  BY <1>1, <1>2, <1>3, StepMoves

SigTyped == sig \in [Shells -> BOOLEAN]

LEMMA SigTypedKept ==
  ASSUME TypeOK, [Next]_vars
  PROVE  SigTyped'
<1>0. SigTyped
  BY DEF TypeOK, SigTyped
<1>1. ASSUME NEW s \in Shells, NEW b \in BOOLEAN, sig' = [sig EXCEPT ![s] = b]
      PROVE  SigTyped'
  BY <1>0, <1>1, Zenon DEF SigTyped
<1>2. CASE UNCHANGED sig
  BY <1>0, <1>2 DEF SigTyped
<1>3. ASSUME NEW p \in Pids, Engine(p)
      PROVE  UNCHANGED sig
  BY <1>3 DEF Engine, shellVars
<1>4. ASSUME NEW s \in Shells, Launch(s) \/ Shell(s), ~Trap(s)
      PROVE  UNCHANGED sig
  BY <1>4 DEF Launch, Shell, Forks, Disabled, Records, Watches, Reaps, Disables, Waited,
              LooksWell, LooksStale, Terminates, PollsOver, Wakes, Restarts
<1>5. ASSUME NEW s \in Shells, Signal(s) \/ Trap(s) \/ ShellDies(s)
      PROVE  \E b \in BOOLEAN : sig' = [sig EXCEPT ![s] = b]
  BY <1>5, Zenon DEF Signal, Trap, ShellDies
<1>6. ASSUME UNCHANGED vars \/ ToggleStopFile \/ Screens \/ Tick
      PROVE  UNCHANGED sig
  BY <1>6 DEF vars, shellVars, ToggleStopFile, Screens, Tick
<1>7. QED
  BY <1>1, <1>2, <1>3, <1>4, <1>5, <1>6 DEF Next

RestTyped == stopFile \in BOOLEAN /\ faults \in 0 .. MaxFaults

LEMMA RestTypedKept ==
  ASSUME TypeOK, [Next]_vars
  PROVE  RestTyped'
<1> USE FaultsAssumption
<1>0. RestTyped
  BY DEF TypeOK, RestTyped
<1>1. CASE UNCHANGED vars \/ ToggleStopFile \/ Screens \/ Tick
  <2>1. stopFile' = stopFile \/ stopFile' = ~stopFile
    BY <1>1, Zenon DEF vars, ToggleStopFile, Screens, Tick
  <2>2. faults' = faults \/ Fault("stopFile") \/ Fault("prefilter")
    BY <1>1 DEF vars, ToggleStopFile, Screens, Tick
  <2>3. stopFile' \in BOOLEAN
    BY <1>0, <2>1, Zenon DEF RestTyped
  <2>4. faults' \in 0 .. MaxFaults
    BY <1>0, <2>2 DEF Fault, RestTyped
  <2>5. QED
    BY <2>3, <2>4, Zenon DEF RestTyped
<1>2. ASSUME NEW p \in Pids, Engine(p)
      PROVE  RestTyped'
  BY <1>0, <1>2 DEF Engine, NoFault, LosesConnection, Hangs, Fault, RestTyped
<1>3. ASSUME NEW s \in Shells, Launch(s) \/ Signal(s) \/ ShellDies(s)
      PROVE  RestTyped'
  BY <1>0, <1>3 DEF Launch, Signal, ShellDies, NoFault, Fault, RestTyped
<1>4. ASSUME NEW s \in Shells, Shell(s)
      PROVE  RestTyped'
  <2>1. UNCHANGED stopFile /\ (NoFault \/ Fault("deaf"))
    BY <1>4 DEF Shell, Forks, Disabled, Records, Watches, Reaps, Trap, Disables, Waited,
       LooksWell, LooksStale, Terminates, PollsOver, Wakes, Restarts, StopsChild, Terminated
  <2>2. QED
    BY <1>0, <2>1 DEF NoFault, Fault, RestTyped
<1>5. QED
  BY <1>1, <1>2, <1>3, <1>4 DEF Next

LEMMA TypeKept ==
  ASSUME TypeOK, ProcInv, [Next]_vars
  PROVE  TypeOK'
<1>1. ProcTyped'
  BY ProcInvKept
<1>2. ShellTyped' /\ SigTyped' /\ RestTyped'
  BY ShellTypedKept, SigTypedKept, RestTypedKept
<1>3. QED
  BY <1>1, <1>2, Zenon DEF TypeOK, ProcTyped, ShellTyped, SigTyped, RestTyped, Bare

-----------------------------------------------------------------------------
(* Shells and their processes *)

\* A change after which there is something of p as long as it has a shell.
Alters(p) ==
  \/ Ends(p) \/ Starts(p) \/ TakesLock(p) \/ WritesPid(p)
  \/ \E stage \in {"trading", "reconnecting"} : Beat(p, stage)
  \/ LosesConnection(p) \/ Hangs(p)

LEMMA AltersLeaves ==
  ASSUME TypeOK, NEW p \in Pids, Alters(p), NEW s \in Shells, kid[s] # NoPid,
         proc[kid[s]] # "none"
  PROVE  proc'[kid[s]] # "none"
<1>0. kid[s] \in Pids
  BY DEF TypeOK
<1>1. CASE Ends(p)
  BY <1>0, <1>1, TypeParts DEF ProcTyped, Ends
<1>2. CASE ~Ends(p)
  BY <1>0, <1>2, TypeParts
     DEF ProcTyped, Alters, Starts, TakesLock, WritesPid, Beat, LosesConnection, Hangs
<1>3. QED
  BY <1>1, <1>2

\* The three ways in which a step can touch the process of a shell.
Keeps == /\ kid' = kid \/ \E t \in Shells : Forgets(t)
         /\ UNCHANGED proc \/ \E p \in Pids : Alters(p)
Buries(t) == kid[t] \in Pids /\ Reaped(kid[t]) /\ Forgets(t)
Begets(t) == \E p \in Pids : Starts(p) /\ kid' = [kid EXCEPT ![t] = p]

LEMMA StopsChildTouches ==
  ASSUME TypeOK, NEW s \in Shells, StopsChild(s)
  PROVE  Keeps \/ Buries(s)
<1>0. kid[s] \in Pids \cup {NoPid}
  BY DEF TypeOK
<1>1. CASE sup[s] # "forked" /\ kid[s] # NoPid
  BY <1>0, <1>1 DEF StopsChild, Terminated, Keeps, Alters, procVars
<1>2. CASE kid[s] = NoPid
  BY <1>2 DEF StopsChild, Keeps, procVars
<1>3. CASE sup[s] = "forked" /\ kid[s] # NoPid
  BY <1>0, <1>3 DEF StopsChild, Buries
<1>4. QED
  BY <1>1, <1>2, <1>3

LEMMA ShellTouches ==
  ASSUME TypeOK, NEW s \in Shells, Shell(s)
  PROVE  Keeps \/ Buries(s) \/ Begets(s)
<1>0. /\ kid[s] \in Pids \cup {NoPid}
      /\ sup[s] \notin Gone \cup {"top", "delay"} => kid[s] # NoPid
  BY DEF TypeOK
<1>1. CASE Forks(s)
  BY <1>1, Zenon DEF Forks, Begets
<1>2. CASE Disabled(s) \/ Records(s) \/ Watches(s) \/ LooksWell(s) \/ LooksStale(s)
           \/ Wakes(s) \/ Restarts(s)
  BY <1>2 DEF Disabled, Records, Watches, LooksWell, LooksStale, Wakes, Restarts,
              procVars, Keeps
<1>3. CASE Reaps(s)
  <2>1. kid[s] \in Pids
    BY <1>0, <1>3 DEF Reaps, At, Gone
  <2>2. QED
    BY <1>3, <2>1, Zenon DEF Reaps, Buries
<1>4. CASE Waited(s)
  <2>1. kid[s] \in Pids
    BY <1>0, <1>4 DEF Waited, Gone
  <2>2. QED
    BY <1>4, <2>1, Zenon DEF Waited, Buries
<1>5. CASE Trap(s) \/ Disables(s)
  BY <1>5, StopsChildTouches DEF Trap, Disables
<1>6. CASE Terminates(s)
  <2>1. kid[s] \in Pids
    BY <1>0, <1>6 DEF Terminates, At, Gone
  <2>2. kid' = kid /\ Terminated(kid[s])
    BY <1>6 DEF Terminates
  <2>3. QED
    BY <2>1, <2>2 DEF Terminated, Keeps, Alters, procVars
<1>7. CASE PollsOver(s)
  <2>1. kid[s] \in Pids
    BY <1>0, <1>7 DEF PollsOver, Gone
  <2>2. kid' = kid /\ (UNCHANGED procVars \/ Ends(kid[s]))
    BY <1>7 DEF PollsOver
  <2>3. QED
    BY <2>1, <2>2 DEF Keeps, Alters, procVars
<1>8. QED
  BY <1>1, <1>2, <1>3, <1>4, <1>5, <1>6, <1>7 DEF Shell

LEMMA StepTouches ==
  ASSUME TypeOK, [Next]_vars
  PROVE  Keeps \/ \E s \in Shells : Buries(s) \/ Begets(s)
<1>1. CASE UNCHANGED vars \/ ToggleStopFile \/ Screens \/ Tick
  BY <1>1 DEF vars, shellVars, procVars, ToggleStopFile, Screens, Tick, Keeps
<1>2. ASSUME NEW p \in Pids, Engine(p)
      PROVE  Keeps
  BY <1>2 DEF Engine, Proceeds, FindsLocked, shellVars, Keeps, Alters
<1>3. ASSUME NEW s \in Shells, Launch(s) \/ Signal(s)
      PROVE  Keeps
  BY <1>3 DEF Launch, Signal, procVars, Keeps
<1>4. ASSUME NEW s \in Shells, ShellDies(s)
      PROVE  Keeps \/ Buries(s)
  BY <1>4 DEF ShellDies, procVars, Keeps, Buries, TypeOK
<1>5. QED
  BY <1>1, <1>2, <1>3, <1>4, ShellTouches DEF Next

LEMMA KidsKept ==
  ASSUME TypeOK, Kids, [Next]_vars
  PROVE  Kids'
<1> USE PidAssumption
<1>0. /\ kid \in [Shells -> Pids \cup {NoPid}]
      /\ left \in [Shells -> Nat] /\ sup \in [Shells -> Labels]
  BY DEF TypeOK
<1>1. ASSUME NEW s \in Shells, NEW t \in Shells, kid'[s] = kid'[t], s # t
      PROVE  kid'[s] = NoPid
  <2>1. CASE Keeps
    BY <1>0, <1>1, <2>1 DEF Keeps, Forgets, Kids
  <2>2. ASSUME NEW u \in Shells, Buries(u)
        PROVE  kid'[s] = NoPid
    BY <1>0, <1>1, <2>2 DEF Buries, Forgets, Kids
  <2>3. ASSUME NEW u \in Shells, Begets(u)
        PROVE  kid'[s] = NoPid
    BY <1>0, <1>1, <2>3 DEF Begets, Starts, Kids
  <2>4. QED
    BY <2>1, <2>2, <2>3, StepTouches
<1>2. ASSUME NEW s \in Shells, kid'[s] # NoPid
      PROVE  proc'[kid'[s]] # "none"
  <2>1. CASE Keeps
    <3>1. kid'[s] = kid[s] /\ proc[kid[s]] # "none"
      BY <1>0, <1>2, <2>1 DEF Keeps, Forgets, Kids
    <3>2. QED
      BY <1>2, <2>1, <3>1, AltersLeaves DEF Keeps
  <2>2. ASSUME NEW u \in Shells, Buries(u)
        PROVE  proc'[kid'[s]] # "none"
    <3>1. s # u /\ kid'[s] = kid[s] /\ kid[s] \in Pids
      BY <1>0, <1>2, <2>2 DEF Buries, Forgets
    <3>2. kid[s] # kid[u] /\ proc[kid[s]] # "none"
      BY <1>2, <3>1 DEF Kids
    <3>3. QED
      BY <2>2, <3>1, <3>2, TypeParts DEF Buries, Reaped, ProcTyped
  <2>3. ASSUME NEW u \in Shells, Begets(u)
        PROVE  proc'[kid'[s]] # "none"
    BY <1>0, <1>2, <2>3, TypeParts DEF Begets, Starts, Kids, ProcTyped
  <2>4. QED
    BY <2>1, <2>2, <2>3, StepTouches
<1>3. ASSUME NEW s \in Shells
      PROVE  Sleeps(sup'[s], left'[s])
  <2>1. CASE StillShells
    BY <2>1 DEF StillShells, Kids
  <2>2. CASE Tick
    BY <1>0, <2>2, Times DEF Tick, Kids, Sleeps
  <2>3. ASSUME NEW u \in Shells, NEW label \in Labels, NEW ticks \in Nat,
               Moves(u, label, ticks)
        PROVE  Sleeps(sup'[s], left'[s])
    BY <1>0, <2>3 DEF Moves, Goto, Kids
  <2>4. QED
    BY <2>1, <2>2, <2>3, StepMoves
<1>4. QED
  BY <1>1, <1>2, <1>3 DEF Kids

-----------------------------------------------------------------------------
(* The times of the watchdog *)

\* The watchdog that finds nothing has seen a heartbeat of somebody within Horizon.
LEMMA LooksWellMeans ==
  ASSUME TypeOK, ProcInv, NEW p \in Pids, lock = p, ~(Running(p) /\ Silent(p))
  PROVE  Silence(p) <= Horizon - 1
<1> USE TypeParts, Times
<1>1. Running(p)
  BY PidAssumption DEF ProcInv, LockInv, Holding, Running
<1>2. /\ beat >= Capped(Silence(p), Stale + 1)
      /\ age[p] >= Capped(quiet[p], Horizon)
  BY DEF ProcInv, Beats
<1>3. age[p] < Grace \/ (IF beat = NoFile THEN age[p] ELSE beat) <= Stale
  BY <1>1 DEF Silent, ProcTyped
<1>4. QED
  BY <1>2, <1>3, SilenceTyped DEF ProcTyped, Capped

\* A well engine that is not too slow has been heard.
LEMMA SilentIsHung ==
  ASSUME TypeOK, ProcInv, Timely, NEW p \in Pids, Running(p), Silent(p)
  PROVE  hung[p]
<1> USE TypeParts, Times
<1> SUFFICES ASSUME ~hung[p]
             PROVE  FALSE
  OBVIOUS
<1>1. /\ proc[p] = "trading" => quiet[p] <= CycleMax
      /\ proc[p] = "reconnecting" => quiet[p] <= Backoff /\ "outage" \in Faults
      /\ proc[p] \notin {"trading", "reconnecting"} => age[p] <= StartMax
  BY DEF ProcInv, OnTime, NoReconnect, Well
<1>2. CASE proc[p] \in {"trading", "reconnecting"}
  <2>1. lock = p
    BY <1>2 DEF ProcInv, LockInv, Holding
  <2>2. beat <= quiet[p]
    BY <1>2, <2>1 DEF ProcInv, Beats
  <2>3. beat <= Stale
    BY <1>1, <1>2, <2>2 DEF Timely, ProcTyped
  <2>4. QED
    BY <2>3 DEF Silent, ProcTyped
<1>3. CASE proc[p] \notin {"trading", "reconnecting"}
  BY <1>1, <1>3 DEF Timely, Silent, ProcTyped
<1>4. QED
  BY <1>2, <1>3

ActsOf(s) == Launch(s) \/ Shell(s) \/ ShellDies(s)

\* What is not an act of a shell leaves it where it is.
LEMMA StaysPut ==
  ASSUME TypeOK, [Next]_vars, ~Tick, NEW s \in Shells, ~ActsOf(s)
  PROVE  sup'[s] = sup[s] /\ left'[s] = left[s] /\ kid'[s] = kid[s]
<1>0. /\ sup \in [Shells -> Labels] /\ left \in [Shells -> Nat]
      /\ kid \in [Shells -> Pids \cup {NoPid}]
  BY DEF TypeOK
<1>1. CASE UNCHANGED vars \/ ToggleStopFile \/ Screens
  BY <1>1 DEF vars, shellVars, ToggleStopFile, Screens
<1>2. ASSUME NEW p \in Pids, Engine(p)
      PROVE  UNCHANGED << sup, left, kid >>
  BY <1>2 DEF Engine, shellVars
<1>3. ASSUME NEW t \in Shells, Signal(t)
      PROVE  UNCHANGED << sup, left, kid >>
  BY <1>3 DEF Signal
<1>4. ASSUME NEW t \in Shells, ActsOf(t)
      PROVE  sup'[s] = sup[s] /\ left'[s] = left[s] /\ kid'[s] = kid[s]
  <2>1. s # t
    BY <1>4
  <2>2. PICK label \in Labels, ticks \in Nat : Moves(t, label, ticks)
    BY <1>4, ShellMoves DEF ActsOf
  <2>3. sup'[s] = sup[s] /\ left'[s] = left[s]
    BY <1>0, <2>1, <2>2 DEF Moves, Goto
  <2>4. kid'[s] = kid[s]
    BY <1>0, <2>1, <2>2 DEF Moves, Forgets
  <2>5. QED
    BY <2>3, <2>4
<1>5. QED
  BY <1>1, <1>2, <1>3, <1>4 DEF Next, ActsOf

\* Of the one that has the lock: what its shell's own step makes of its time.
LEMMA WatchedByAct ==
  ASSUME TypeOK, Kids, ProcInv, Watched, NEW s \in Shells, ActsOf(s),
         kid[s] # NoPid, kid[s] = lock, kid'[s] = kid[s], lock' = lock,
         NEW q \in Nat, q <= Silence(kid[s])
  PROVE  /\ sup'[s] \in {"forked", "watch", "look", "term"} => q <= Horizon - 1 + Interval
         /\ sup'[s] = "nap"   => q + left'[s] <= Horizon - 1 + Interval
         /\ sup'[s] = "polls" => q + left'[s] <= Overdue
<1> USE Times, PidAssumption
<1> DEFINE k == kid[s]
<1>0. /\ sup \in [Shells -> Labels] /\ left \in [Shells -> Nat]
      /\ kid \in [Shells -> Pids \cup {NoPid}] /\ k \in Pids
      /\ Silence(k) \in Nat
  BY TypeParts, SilenceTyped DEF TypeOK
<1>1. sup[s] \notin Gone \cup {"top", "delay"}
  BY DEF TypeOK
<1>2. Running(k)
  BY <1>0 DEF ProcInv, LockInv, Holding, Running
<1>3. /\ sup[s] \in {"forked", "watch", "look", "term"} => Silence(k) <= Horizon - 1 + Interval
      /\ sup[s] = "nap"   => Silence(k) + left[s] <= Horizon - 1 + Interval
      /\ sup[s] = "polls" => Silence(k) + left[s] <= Overdue
  BY DEF Watched
<1>4. CASE Launch(s) \/ Disabled(s) \/ Forks(s) \/ Restarts(s)
  BY <1>1, <1>4 DEF Launch, Disabled, Forks, Restarts, At, Gone
<1>5. CASE Records(s) \/ Watches(s) \/ Wakes(s)
  BY <1>0, <1>3, <1>5 DEF Records, Watches, Wakes, At, Goto
<1>6. CASE Reaps(s) \/ Waited(s) \/ ShellDies(s)
  BY <1>0, <1>6 DEF Reaps, Waited, ShellDies, Forgets
<1>7. CASE Trap(s) \/ Disables(s)
  <2>1. StopsChild(s)
    BY <1>7 DEF Trap, Disables
  <2>2. sup'[s] \in {"stop", "ended"}
    BY <1>0, <2>1 DEF StopsChild, Goto
  <2>3. QED
    BY <2>2
<1>8. CASE LooksWell(s)
  <2>1. Silence(k) <= Horizon - 1
    BY <1>0, <1>8, LooksWellMeans DEF LooksWell
  <2>2. sup'[s] = "nap" /\ left'[s] = Interval
    BY <1>0, <1>8 DEF LooksWell, Goto
  <2>3. QED
    BY <1>0, <2>1, <2>2
<1>9. CASE LooksStale(s)
  BY <1>0, <1>3, <1>9 DEF LooksStale, At, Goto
<1>10. CASE Terminates(s)
  <2>1. sup'[s] = "polls" /\ left'[s] = TermWait /\ sup[s] = "term"
    BY <1>0, <1>10 DEF Terminates, At, Goto
  <2>2. QED
    BY <1>0, <1>3, <2>1
<1>11. CASE PollsOver(s)
  <2>1. Ends(k)
    BY <1>2, <1>11 DEF PollsOver
  <2>2. QED
    BY <1>0, <2>1 DEF Ends
<1>12. QED
  BY <1>4, <1>5, <1>6, <1>7, <1>8, <1>9, <1>10, <1>11 DEF ActsOf, Shell

LEMMA WatchedKept ==
  ASSUME IInv, [Next]_vars
  PROVE  Watched'
<1> USE Times, PidAssumption
<1>0. /\ TypeOK /\ Kids /\ ProcInv /\ Watched /\ LockInv
      /\ TypeOK' /\ Kids' /\ ProcInv' /\ LockInv' /\ ProcTyped /\ ProcTyped'
  BY TypeKept, TypeParts, KidsKept, ProcInvKept DEF IInv, ProcInv
<1> SUFFICES ASSUME NEW s \in Shells, kid'[s] # NoPid, kid'[s] = lock'
             PROVE  /\ sup'[s] \in {"forked", "watch", "look", "term"}
                         => Silence(kid[s])' <= Horizon - 1 + Interval
                    /\ sup'[s] = "nap"
                         => Silence(kid[s])' + left'[s] <= Horizon - 1 + Interval
                    /\ sup'[s] = "polls" => Silence(kid[s])' + left'[s] <= Overdue
  BY DEF Watched
<1>k. PICK k \in Pids : k = kid'[s]
  BY <1>0 DEF TypeOK
<1>1. /\ Silence(k) \in Nat /\ Silence(k)' \in Nat /\ left'[s] \in Nat
      /\ Sleeps(sup'[s], left'[s])
      /\ Silence(kid[s])' = Silence(k)'
  <2>1. left'[s] \in Nat /\ Sleeps(sup'[s], left'[s])
    BY <1>0 DEF TypeOK, Kids
  <2>2. quiet'[k] \in Nat /\ screened' \in Nat
    BY <1>0 DEF ProcTyped
  <2>3. Silence(kid[s])' = Silence(k)' /\ Silence(k)' \in Nat
    BY <1>k, <2>2 DEF Silence
  <2>4. QED
    BY <1>0, <1>k, <2>1, <2>3, SilenceTyped
<1>2. CASE Tick
  <2>1. /\ kid' = kid /\ lock' = lock /\ sup' = sup /\ Resting(s)
        /\ left'[s] = IF left[s] > 0 THEN left[s] - 1 ELSE 0
    BY <1>2 DEF Tick
  <2>2. Silence(k)' <= Silence(k) + 1
    <3>1. /\ quiet'[k] <= quiet[k] + 1 /\ screened' <= screened + 1
          /\ quiet[k] \in Nat /\ screened \in Nat
          /\ quiet'[k] \in Nat /\ screened' \in Nat
      BY <1>0, <1>k, <1>2 DEF Tick, Capped, ProcTyped
    <3>2. QED
      BY <1>1, <3>1 DEF Silence
  <2>3. sup[s] \notin Gone
    BY <1>0, <1>k, <2>1 DEF TypeOK
  <2>4. CASE sup[s] = "nap" \/ sup[s] = "polls"
    <3>1. left[s] > 0
      BY <2>1, <2>3, <2>4 DEF Resting
    <3>2. /\ sup[s] = "nap"   => Silence(k) + left[s] <= Horizon - 1 + Interval
          /\ sup[s] = "polls" => Silence(k) + left[s] <= Overdue
      BY <1>0, <1>k, <2>1 DEF Watched
    <3>3. QED
      BY <1>0, <1>k, <1>1, <2>1, <2>2, <2>4, <3>1, <3>2 DEF TypeOK
  <2>5. CASE sup[s] # "nap" /\ sup[s] # "polls"
    BY <2>1, <2>3, <2>5 DEF Resting, Asleep
  <2>6. QED
    BY <2>4, <2>5
<1>3. CASE ~Tick
  <2>1. CASE Silence(k)' = 0
    BY <1>1, <2>1 DEF Sleeps
  <2>2. CASE lock = k /\ Silence(k)' <= Silence(k)
    <3>1. kid[s] = k
      <4>1. CASE Keeps
        BY <1>0, <1>k, <4>1 DEF Keeps, Forgets, TypeOK
      <4>2. ASSUME NEW t \in Shells, Buries(t)
            PROVE  kid[s] = k
        BY <1>0, <1>k, <4>2 DEF Buries, Forgets, TypeOK
      <4>3. ASSUME NEW t \in Shells, Begets(t)
            PROVE  kid[s] = k
        <5>1. proc[k] # "none"
          BY <1>0, <1>k, <1>1, <2>2 DEF LockInv, Holding
        <5>2. QED
          BY <1>0, <1>k, <4>3, <5>1 DEF Begets, Starts, TypeOK
      <4>4. QED
        BY <1>0, <1>k, <4>1, <4>2, <4>3, StepTouches
    <3>2. CASE ~ActsOf(s)
      <4>1. sup'[s] = sup[s] /\ left'[s] = left[s]
        BY <1>0, <1>k, <1>3, <3>2, StaysPut
      <4>2. QED
        BY <1>0, <1>k, <1>1, <2>2, <3>1, <4>1 DEF Watched
    <3>3. CASE ActsOf(s)
      BY <1>0, <1>k, <1>1, <2>2, <3>1, <3>3, WatchedByAct
    <3>4. QED
      BY <3>2, <3>3
  <2>3. QED
    <3>1. \/ lock = k /\ Silence(k)' <= Silence(k)
          \/ Silence(k)' = 0
      BY <1>0, <1>k, <1>1, <1>3, SilenceFalls
    <3>2. QED
      BY <1>1, <2>1, <2>2, <3>1
<1>4. QED
  BY <1>2, <1>3

-----------------------------------------------------------------------------
(* The invariant and what it shows *)

LEMMA InitIInv == Init => IInv
<1> SUFFICES ASSUME Init PROVE IInv
  OBVIOUS
<1> USE Times, PidAssumption, FaultsAssumption DEF Init
<1>1. sig \in [Shells -> BOOLEAN] /\ hung \in [Pids -> BOOLEAN]
  BY Zenon
<1>2. TypeOK
  <2>1. ShellTyped
    BY DEF ShellTyped, Labels, Bare, Gone
  <2>2. /\ proc \in [Pids -> Stages] /\ age \in [Pids -> 0 .. Horizon]
        /\ quiet \in [Pids -> 0 .. Overdue + 1]
        /\ lock \in Pids \cup {NoPid} /\ lockPid \in Pids \cup {NoPid}
        /\ screened \in 0 .. Overdue + 1
    BY DEF Stages
  <2>3. beat \in 0 .. NoFile
    OBVIOUS
  <2>4. faults \in 0 .. MaxFaults
    OBVIOUS
  <2>5. stopFile \in BOOLEAN
    BY Zenon
  <2>6. QED
    BY <1>1, <2>1, <2>2, <2>3, <2>4, <2>5, Zenon DEF TypeOK, ShellTyped, Bare
<1>3. Kids
  BY DEF Kids, Sleeps
<1>4. ProcInv
  BY DEF ProcInv, LockInv, OnTime, Beats, NoReconnect, Holding, Trading, Well, Running
<1>5. Watched
  BY DEF Watched
<1>6. QED
  BY <1>2, <1>3, <1>4, <1>5 DEF IInv

LEMMA NextIInv == IInv /\ [Next]_vars => IInv'
BY TypeKept, KidsKept, ProcInvKept, WatchedKept DEF IInv

THEOREM Inductive == Spec => []IInv
BY InitIInv, NextIInv, PTL DEF Spec

\* The variables keep their types, and a shell has a process exactly where
\* start_trader.sh has one to watch or to stop.
THEOREM TypeCorrect == Spec => []TypeOK
<1>1. IInv => TypeOK
  BY DEF IInv
<1>2. QED
  BY <1>1, Inductive, PTL

\* Whatever is started by hand, killed, hung or refused: one engine trades, and
\* velocity_engine.lock names it (_acquire_instance_lock).
THEOREM AtMostOneEngine == Spec => []OneEngine
<1>1. IInv => OneEngine
  BY DEF IInv, ProcInv, LockInv, OneEngine, Trading, Holding
<1>2. QED
  BY <1>1, Inductive, PTL

\* stop_stale_child_if_needed and the loop around it: no engine that has the lock
\* and a shell is silent for longer than the grace or the time of a stale heartbeat,
\* the interval of the watchdog and its polls add up to.
THEOREM HungIsKilledInTime == Spec => []HungNotForLong
<1>1. IInv => HungNotForLong
  <2> SUFFICES ASSUME IInv, NEW s \in Shells, kid[s] # NoPid, kid[s] = lock,
                      sup[s] # "stop"
               PROVE  Silence(kid[s]) <= Overdue
    BY DEF HungNotForLong
  <2>1. /\ sup[s] \in Labels /\ sup[s] \notin Gone \cup {"top", "delay"}
        /\ left[s] \in Nat /\ kid[s] \in Pids /\ Silence(kid[s]) \in Nat
    BY Times, TypeParts, SilenceTyped DEF IInv, TypeOK
  <2>2. /\ sup[s] \in {"forked", "watch", "look", "term"}
             => Silence(kid[s]) <= Horizon - 1 + Interval
        /\ sup[s] = "nap"   => Silence(kid[s]) + left[s] <= Horizon - 1 + Interval
        /\ sup[s] = "polls" => Silence(kid[s]) + left[s] <= Overdue
    BY DEF IInv, Watched
  <2>3. QED
    BY <2>1, <2>2, Times DEF Labels, Gone, Asleep
<1>2. QED
  BY <1>1, Inductive, PTL

LEMMA OnlyHungKept ==
  ASSUME Timely, IInv, KillsOnlyHung, [Next]_vars
  PROVE  KillsOnlyHung'
<1> SUFFICES ASSUME NEW s \in Shells, sup'[s] \in {"term", "polls"}
             PROVE  hung'[kid'[s]] \/ ~Running(kid[s])'
  BY DEF KillsOnlyHung
<1>0. /\ TypeOK /\ Kids /\ ProcInv
      /\ sup \in [Shells -> Labels] /\ left \in [Shells -> Nat]
      /\ kid \in [Shells -> Pids \cup {NoPid}]
  BY DEF IInv, TypeOK
<1>1. ASSUME sup[s] \in {"term", "polls"}, kid'[s] = kid[s]
      PROVE  hung'[kid'[s]] \/ ~Running(kid[s])'
  <2>1. kid[s] \in Pids /\ proc[kid[s]] # "none"
    BY <1>0, <1>1 DEF TypeOK, Gone, Kids
  <2>2. hung[kid[s]] \/ ~Running(kid[s])
    BY <1>1 DEF KillsOnlyHung
  <2>3. QED
    BY <1>0, <1>1, <2>1, <2>2, StaysDown DEF Running
<1>2. CASE Tick
  <2>1. sup[s] \in {"term", "polls"} /\ kid'[s] = kid[s]
    BY <1>2 DEF Tick
  <2>2. QED
    BY <1>1, <2>1
<1>3. CASE ~Tick /\ ~ActsOf(s)
  <2>1. sup[s] \in {"term", "polls"} /\ kid'[s] = kid[s]
    BY <1>0, <1>3, StaysPut
  <2>2. QED
    BY <1>1, <2>1
<1>4. CASE ActsOf(s)
  <2>1. CASE LooksStale(s)
    <3>1. Running(kid[s]) /\ Silent(kid[s]) /\ kid' = kid /\ hung' = hung
      BY <2>1 DEF LooksStale, procVars
    <3>2. kid[s] \in Pids
      BY <1>0, <3>1 DEF Running
    <3>3. QED
      BY <1>0, <3>1, <3>2, SilentIsHung
  <2>2. CASE Terminates(s)
    <3>1. sup[s] \in {"term", "polls"} /\ kid'[s] = kid[s]
      BY <2>2 DEF Terminates, At
    <3>2. QED
      BY <1>1, <3>1
  <2>3. ASSUME ~LooksStale(s), ~Terminates(s)
        PROVE  sup'[s] \notin {"term", "polls"}
    BY <1>0, <1>4, <2>3
       DEF ActsOf, Shell, Launch, ShellDies, Forks, Disabled, Records, Watches, Reaps,
           Trap, Disables, Waited, LooksWell, PollsOver, Wakes, Restarts, StopsChild, Goto
  <2>4. QED
    BY <2>1, <2>2, <2>3
<1>5. QED
  BY <1>2, <1>3, <1>4

\* "Defaults are deliberately conservative so a slow IBKR scanner cycle is not
\* mistaken for a hang" (start_trader.sh): if an engine that is well starts within
\* the grace and ends a cycle within WATCHDOG_STALE_SEC, and so does _reconnect or the
\* Gateway stays, the watchdog signals a hung engine only, or one that has ended.
THEOREM OnlyHungKilled == Timely => (Spec => []KillsOnlyHung)
<1> SUFFICES ASSUME Timely PROVE Spec => []KillsOnlyHung
  OBVIOUS
<1>1. Init => KillsOnlyHung
  BY DEF Init, KillsOnlyHung
<1>2. IInv /\ KillsOnlyHung /\ [Next]_vars => KillsOnlyHung'
  BY OnlyHungKept
<1>3. QED
  BY <1>1, <1>2, Inductive, PTL DEF Spec

\* A shell ends with an engine left in one place only: between the start of the
\* engine and child_pid="$!".
StoppedClean ==
  \A s \in Shells : Stopped(s) => ~Running(kid[s]) \/ (sig[s] /\ sup[s] = "forked")

LEMMA StopsClean == IInv /\ [Next]_vars => StoppedClean
<1> SUFFICES ASSUME IInv, [Next]_vars, NEW s \in Shells, Stopped(s)
             PROVE  ~Running(kid[s]) \/ (sig[s] /\ sup[s] = "forked")
  BY DEF StoppedClean
<1>0. /\ TypeOK /\ sup \in [Shells -> Labels]
      /\ kid[s] = NoPid <=> sup[s] \in Gone \cup {"top", "delay"}
  BY DEF IInv, TypeOK
<1>1. ~Tick
  BY DEF Tick, Stopped
<1>2. ActsOf(s)
  BY <1>0, <1>1, StaysPut DEF Stopped
<1>3. CASE Reaps(s) \/ Waited(s)
  BY <1>3 DEF Reaps, Waited
<1>4. CASE Disabled(s)
  BY <1>0, <1>4 DEF Disabled, At, Running
<1>5. CASE Trap(s)
  BY <1>0, <1>5 DEF Trap, StopsChild, Stopped, Goto, Running
<1>6. CASE Disables(s)
  BY <1>0, <1>6 DEF Disables, At, StopsChild, Stopped, Goto, Running
<1>7. ASSUME ~Reaps(s), ~Waited(s), ~Disabled(s), ~Trap(s), ~Disables(s)
      PROVE  FALSE
  BY <1>0, <1>2, <1>7
     DEF ActsOf, Shell, Launch, ShellDies, Forks, Records, Watches, LooksWell, LooksStale,
         Terminates, PollsOver, Wakes, Restarts, Goto, Stopped
<1>8. QED
  BY <1>3, <1>4, <1>5, <1>6, <1>7

\* stop_child: a shell that ends has waited for its engine, unless a signal has come
\* between the line that starts it and the next.
THEOREM OnlyTheForkRaces == Spec => [][StoppedClean]_vars
<1>1. IInv /\ [Next]_vars => [StoppedClean]_vars
  BY StopsClean
<1>2. QED
  BY <1>1, Inductive, PTL DEF Spec

DisabledClean == \A s \in Shells : Stopped(s) /\ ~sig[s] => ~Running(kid[s])

\* DISABLE_AUTO_RESTART ends no shell before its engine, whatever the operator and
\* the engine do meanwhile.
THEOREM DisableStops == Spec => DisableLeavesNoEngine
<1>1. IInv /\ [Next]_vars => [DisabledClean]_vars
  BY StopsClean DEF StoppedClean, DisabledClean
<1>2. QED
  BY <1>1, Inductive, PTL DEF Spec, DisableLeavesNoEngine, DisabledClean
=============================================================================
