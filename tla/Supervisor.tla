------------------------------ MODULE Supervisor ------------------------------
(***************************************************************************)
(* Who runs the engine: shells in which start_trader.sh runs, the engine   *)
(* processes they start, watch, stop and start again, and the lock file    *)
(* that lets one engine trade.                                             *)
(*                                                                         *)
(* Time is counted in ticks.  The commands of the script take none: a tick *)
(* passes while every shell sleeps, polls or waits.  A process that hangs  *)
(* stays as it is until it is killed; the kernel frees the lock of one     *)
(* that ends.  The heartbeat is the file dashboard_data.json, which any    *)
(* engine of the profile writes: the one with the lock, and that of        *)
(* run_premarket_prefilter.py, which takes none.  What matters of it is    *)
(* its age.                                                                *)
(*                                                                         *)
(* Named abstractions: the watchdog is on and AUTO_RESTART is 1, as by     *)
(* default (an engine started by hand stands for AUTO_RESTART=0); a pid is *)
(* not used again before the shell that waited for it has forgotten it;    *)
(* the lock file is emptied and written in one step; no second signal      *)
(* comes while stop_child waits.                                           *)
(***************************************************************************)
EXTENDS Integers, FiniteSets

CONSTANTS
  Shells,     \* the terminals in which start_trader.sh may run
  Pids,       \* process slots; that of a process that is gone is used again
  NoPid,      \* no process
  Stale,      \* WATCHDOG_STALE_SEC
  Grace,      \* WATCHDOG_STARTUP_GRACE_SEC
  Interval,   \* WATCHDOG_INTERVAL_SEC
  TermWait,   \* the polls between SIGTERM and SIGKILL
  Delay,      \* RESTART_DELAY_SEC
  StartMax,   \* an engine that is well has written by this age
  CycleMax,   \* longest time between two heartbeats of its cycles
  Backoff,    \* longest time without one in _reconnect
  MaxFaults,  \* adverse events per behaviour
  Faults      \* which adverse events may happen

FaultKinds ==
  { "dies",     \* an engine ends by an exception, sys.exit or a kill
    "hangs",    \* an engine stops making progress and stays alive
    "deaf",     \* a hung engine does not react to SIGTERM
    "outage",   \* the Gateway is away and the engine tries to reconnect
    "manual",   \* an engine is started without a shell
    "again",    \* start_trader.sh is started again after its end
    "signal",   \* the operator sends SIGINT or SIGTERM to a shell
    "shellDies",\* a shell is killed
    "prefilter",\* the prefilter script connects, or saves a checkpoint
    "stopFile" }\* DISABLE_AUTO_RESTART is created or removed

ASSUME TimesAssumption ==
  /\ Stale \in Nat \ {0} /\ Grace \in Nat \ {0} /\ Interval \in Nat \ {0}
  /\ TermWait \in Nat \ {0} /\ Delay \in Nat \ {0}
  /\ StartMax \in Nat /\ CycleMax \in Nat /\ Backoff \in Nat
ASSUME PidAssumption    == NoPid \notin Pids
ASSUME FaultsAssumption == Faults \subseteq FaultKinds /\ MaxFaults \in Nat

VARIABLES
  sup,      \* where a shell is in start_trader.sh
  kid,      \* the process it has started and not waited for yet
  left,     \* ticks left of the sleep or the polls it is in
  sig,      \* a signal has come and its trap has not run yet
  proc,     \* what an engine process has come to
  hung,     \* it makes no progress
  age,      \* ticks since it was started, up to Horizon
  quiet,    \* ticks since its last sign of life: its start, the lock, a heartbeat
  lock,     \* the process that holds the flock on velocity_engine.lock
  lockPid,  \* the pid written in velocity_engine.lock
  beat,     \* age of dashboard_data.json, up to Stale + 1; NoFile if there is none
  screened, \* history: ticks since the prefilter script last wrote that file
  stopFile, \* DISABLE_AUTO_RESTART exists
  faults    \* adverse events still to come at most

shellVars == << sup, kid, left, sig >>
procVars  == << proc, hung, age, quiet, lock, lockPid, beat, screened >>
vars      == << shellVars, procVars, stopFile, faults >>

Largest(a, b) == IF a > b THEN a ELSE b
Capped(n, c)  == IF n < c THEN n ELSE c

\* From this age on the watchdog can tell a process that never wrote.
Horizon == Largest(Grace, Stale + 1)
\* The longest a hung engine may stay: until the watchdog can tell, until it
\* looks, and until it no longer asks politely.
Overdue == Horizon - 1 + Interval + TermWait
NoFile  == Stale + 2

Asleep == {"nap", "delay", "polls"}
Labels == Asleep \cup { "off", "top", "forked", "watch", "look", "term", "stop",
                        "ended", "killed" }
Gone   == {"off", "ended", "killed"}
Stages == {"none", "zombie", "loading", "locked", "starting", "trading",
           "reconnecting"}

TypeOK ==
  /\ sup \in [Shells -> Labels]
  /\ kid \in [Shells -> Pids \cup {NoPid}]
  /\ left \in [Shells -> Nat]
  /\ sig \in [Shells -> BOOLEAN]
  /\ proc \in [Pids -> Stages]
  /\ hung \in [Pids -> BOOLEAN]
  /\ age \in [Pids -> 0 .. Horizon]
  /\ quiet \in [Pids -> 0 .. Overdue + 1]
  /\ lock \in Pids \cup {NoPid}
  /\ lockPid \in Pids \cup {NoPid}
  /\ beat \in 0 .. NoFile
  /\ screened \in 0 .. Overdue + 1
  /\ stopFile \in BOOLEAN
  /\ faults \in 0 .. MaxFaults
  /\ \A s \in Shells : kid[s] = NoPid <=> sup[s] \in Gone \cup {"top", "delay"}

Init ==
  /\ sup = [s \in Shells |-> "off"] /\ kid = [s \in Shells |-> NoPid]
  /\ left = [s \in Shells |-> 0] /\ sig = [s \in Shells |-> FALSE]
  /\ proc = [p \in Pids |-> "none"] /\ hung = [p \in Pids |-> FALSE]
  /\ age = [p \in Pids |-> 0] /\ quiet = [p \in Pids |-> 0]
  /\ lock = NoPid /\ lockPid = NoPid
  /\ beat \in {Stale + 1, NoFile} /\ screened = Overdue + 1
  /\ stopFile = FALSE
  /\ faults = MaxFaults

-----------------------------------------------------------------------------
(* Processes *)

NoFault  == UNCHANGED faults
Fault(f) == f \in Faults /\ faults > 0 /\ faults' = faults - 1

\* child_is_running, of a process of the shell
Running(p) == p # NoPid /\ proc[p] \notin {"none", "zombie"}
Well(p)    == Running(p) /\ ~hung[p]

\* A new process, in the first free slot of any.
Starts(p) ==
  /\ proc[p] = "none"
  /\ proc' = [proc EXCEPT ![p] = "loading"]
  /\ hung' = [hung EXCEPT ![p] = FALSE]
  /\ age' = [age EXCEPT ![p] = 0]
  /\ quiet' = [quiet EXCEPT ![p] = 0]
  /\ UNCHANGED << lock, lockPid, beat, screened >>

\* The end of p: a zombie as long as there is a shell that has not waited for it.
Ends(p) ==
  /\ proc' = [proc EXCEPT ![p] = IF \E s \in Shells : kid[s] = p THEN "zombie" ELSE "none"]
  /\ lock' = IF lock = p THEN NoPid ELSE lock
  /\ hung' = [hung EXCEPT ![p] = FALSE]
  /\ age' = [age EXCEPT ![p] = 0]
  /\ quiet' = [quiet EXCEPT ![p] = 0]
  /\ UNCHANGED << lockPid, beat, screened >>

\* SIGTERM: the engine installs no handler for it
Terminated(p) ==
  \/ Running(p) /\ Ends(p) /\ NoFault
  \/ Running(p) /\ hung[p] /\ Fault("deaf") /\ UNCHANGED procVars
  \/ ~Running(p) /\ NoFault /\ UNCHANGED procVars

\* wait: the zombie of p goes.
Reaped(p) ==
  /\ proc' = [proc EXCEPT ![p] = IF @ = "zombie" THEN "none" ELSE @]
  /\ UNCHANGED << hung, age, quiet, lock, lockPid, beat, screened >>

\* _acquire_instance_lock: flock(LOCK_EX | LOCK_NB)
TakesLock(p) ==
  /\ proc[p] = "loading" /\ ~hung[p]
  /\ lock = NoPid
  /\ lock' = p
  /\ proc' = [proc EXCEPT ![p] = "locked"]
  /\ quiet' = [quiet EXCEPT ![p] = 0]
  /\ UNCHANGED << hung, age, lockPid, beat, screened >>

\* Mutant: the lock file is opened with "w", which empties it.
FindsLockedEmptied(p) ==
  /\ proc[p] = "loading" /\ ~hung[p]
  /\ lock # NoPid
  /\ proc' = [proc EXCEPT ![p] = IF \E s \in Shells : kid[s] = p THEN "zombie" ELSE "none"]
  /\ age' = [age EXCEPT ![p] = 0]
  /\ quiet' = [quiet EXCEPT ![p] = 0]
  /\ lockPid' = NoPid
  /\ UNCHANGED << hung, lock, beat, screened >>

\* "Another VelocityEngine instance is already running"
FindsLocked(p) ==
  /\ proc[p] = "loading" /\ ~hung[p]
  /\ lock # NoPid
  /\ Ends(p)

WritesPid(p) ==
  /\ proc[p] = "locked" /\ ~hung[p]
  /\ lockPid' = p
  /\ proc' = [proc EXCEPT ![p] = "starting"]
  /\ UNCHANGED << hung, age, quiet, lock, beat, screened >>

\* _write_dashboard_data: when connected, after each cycle and after an error,
\* and when a reconnect has succeeded or been given up
Beat(p, stage) ==
  /\ proc[p] \in {"starting", "trading", "reconnecting"} /\ ~hung[p]
  /\ stage = "reconnecting" => proc[p] = "reconnecting"
  /\ proc' = [proc EXCEPT ![p] = stage]
  /\ quiet' = [quiet EXCEPT ![p] = 0]
  /\ beat' = 0
  /\ UNCHANGED << hung, age, lock, lockPid, screened >>

\* _on_ib_disconnect writes a heartbeat, and the next cycle begins with _reconnect.
LosesConnection(p) ==
  /\ Fault("outage")
  /\ proc[p] = "trading" /\ ~hung[p]
  /\ proc' = [proc EXCEPT ![p] = "reconnecting"]
  /\ quiet' = [quiet EXCEPT ![p] = 0]
  /\ beat' = 0
  /\ UNCHANGED << hung, age, lock, lockPid, screened >>

Hangs(p) ==
  /\ Fault("hangs")
  /\ Well(p)
  /\ hung' = [hung EXCEPT ![p] = TRUE]
  /\ UNCHANGED << proc, age, quiet, lock, lockPid, beat, screened >>

\* What an engine does by itself, without an adverse event.
Proceeds(p) ==
  \/ TakesLock(p) \/ FindsLocked(p) \/ WritesPid(p)
  \/ \E stage \in {"trading", "reconnecting"} : Beat(p, stage)

Engine(p) ==
  /\ \/ Proceeds(p) /\ NoFault
     \/ LosesConnection(p)
     \/ Hangs(p)
     \/ Running(p) /\ Fault("dies") /\ Ends(p)
     \/ Fault("manual") /\ Starts(p)
  /\ UNCHANGED << shellVars, stopFile >>

\* run_premarket_prefilter.py builds an engine of its own, with no lock: it writes the
\* heartbeat when it has connected and after each checkpoint of its sieve.
Screens ==
  /\ Fault("prefilter")
  /\ beat' = 0 /\ screened' = 0
  /\ UNCHANGED << shellVars, proc, hung, age, quiet, lock, lockPid, stopFile >>

-----------------------------------------------------------------------------
(* start_trader.sh *)

At(s, label) == sup[s] = label /\ ~(sig[s] /\ left[s] = 0)
Goto(s, label, ticks) ==
  sup' = [sup EXCEPT ![s] = label] /\ left' = [left EXCEPT ![s] = ticks]
Forgets(s) == kid' = [kid EXCEPT ![s] = NoPid]

\* The script is started in s, for the first time or again.
Launch(s) ==
  /\ \/ sup[s] = "off" /\ NoFault
     \/ sup[s] \in {"ended", "killed"} /\ Fault("again")
  /\ Goto(s, "top", 0)
  /\ UNCHANGED << kid, sig, procVars, stopFile >>

\* The loop begins; the engine is started in the background.
Forks(s) ==
  /\ At(s, "top")
  /\ ~stopFile
  /\ \E p \in Pids : Starts(p) /\ kid' = [kid EXCEPT ![s] = p]
  /\ Goto(s, "forked", 0)
  /\ NoFault /\ UNCHANGED << sig, stopFile >>

Disabled(s) ==
  /\ At(s, "top")
  /\ stopFile
  /\ Goto(s, "ended", 0)
  /\ NoFault /\ UNCHANGED << kid, sig, procVars, stopFile >>

\* child_pid="$!" and the time of the start
Records(s) ==
  /\ At(s, "forked")
  /\ Goto(s, "watch", 0)
  /\ NoFault /\ UNCHANGED << kid, sig, procVars, stopFile >>

Watches(s) ==
  /\ At(s, "watch")
  /\ Running(kid[s])
  /\ Goto(s, "look", 0)
  /\ NoFault /\ UNCHANGED << kid, sig, procVars, stopFile >>

\* Mutant: a non-zero status of the engine ends the script, as set -e does.
ReapsAndEnds(s) ==
  /\ At(s, "watch")
  /\ ~Running(kid[s])
  /\ Reaped(kid[s])
  /\ Forgets(s)
  /\ Goto(s, "ended", 0)
  /\ NoFault /\ UNCHANGED << sig, stopFile >>

\* Mutant: the script goes on with the pid of the process that is gone.
ReapsRemembers(s) ==
  /\ At(s, "watch")
  /\ ~Running(kid[s])
  /\ Reaped(kid[s])
  /\ IF stopFile THEN Goto(s, "ended", 0) ELSE Goto(s, "delay", Delay)
  /\ NoFault /\ UNCHANGED << kid, sig, stopFile >>

\* The engine has ended: wait for it, and for the time of RESTART_DELAY_SEC.
Reaps(s) ==
  /\ At(s, "watch")
  /\ ~Running(kid[s])
  /\ Reaped(kid[s])
  /\ Forgets(s)
  /\ IF stopFile THEN Goto(s, "ended", 0) ELSE Goto(s, "delay", Delay)
  /\ NoFault /\ UNCHANGED << sig, stopFile >>

\* stop_child
StopsChild(s) ==
  IF sup[s] # "forked" /\ kid[s] # NoPid
  THEN Terminated(kid[s]) /\ Goto(s, "stop", 0) /\ UNCHANGED kid
  ELSE /\ Goto(s, "ended", 0) /\ Forgets(s)
       /\ IF kid[s] # NoPid THEN Reaped(kid[s]) ELSE UNCHANGED procVars
       /\ NoFault

\* The trap of SIGINT and SIGTERM, which runs between two commands.
Trap(s) ==
  /\ sig[s]
  /\ sup[s] \notin Gone \cup {"stop"}
  /\ left[s] = 0 \/ sup[s] = "polls"
  /\ StopsChild(s)
  /\ sig' = [sig EXCEPT ![s] = FALSE]
  /\ UNCHANGED stopFile

Disables(s) ==
  /\ At(s, "look")
  /\ stopFile
  /\ StopsChild(s)
  /\ UNCHANGED << sig, stopFile >>

Waited(s) ==
  /\ sup[s] = "stop"
  /\ ~Running(kid[s])
  /\ Reaped(kid[s])
  /\ Forgets(s)
  /\ Goto(s, "ended", 0)
  /\ NoFault /\ UNCHANGED << sig, stopFile >>

\* Mutant: without a heartbeat file there is nothing to be stale.
SilentWithFile(p) == age[p] >= Grace /\ beat # NoFile /\ beat > Stale

\* Mutant: no grace for an engine that is starting.
SilentFromStart(p) == (IF beat = NoFile THEN age[p] ELSE beat) > Stale

\* The child is old enough and the heartbeat older than it may be.
Silent(p) ==
  /\ age[p] >= Grace
  /\ (IF beat = NoFile THEN age[p] ELSE beat) > Stale

\* stop_stale_child_if_needed finds nothing.
LooksWell(s) ==
  /\ At(s, "look")
  /\ ~stopFile
  /\ ~(Running(kid[s]) /\ Silent(kid[s]))
  /\ Goto(s, "nap", Interval)
  /\ NoFault /\ UNCHANGED << kid, sig, procVars, stopFile >>

LooksStale(s) ==
  /\ At(s, "look")
  /\ ~stopFile
  /\ Running(kid[s]) /\ Silent(kid[s])
  /\ Goto(s, "term", 0)
  /\ NoFault /\ UNCHANGED << kid, sig, procVars, stopFile >>

Terminates(s) ==
  /\ At(s, "term")
  /\ Terminated(kid[s])
  /\ Goto(s, "polls", TermWait)
  /\ UNCHANGED << kid, sig, stopFile >>

PollsOver(s) ==
  /\ sup[s] = "polls" /\ ~sig[s]
  /\ \/ ~Running(kid[s]) /\ UNCHANGED procVars
     \/ Running(kid[s]) /\ left[s] = 0 /\ Ends(kid[s])      \* SIGKILL
  /\ Goto(s, "nap", Interval)
  /\ NoFault /\ UNCHANGED << kid, sig, stopFile >>

Wakes(s) ==
  /\ At(s, "nap") /\ left[s] = 0
  /\ Goto(s, "watch", 0)
  /\ NoFault /\ UNCHANGED << kid, sig, procVars, stopFile >>

Restarts(s) ==
  /\ At(s, "delay") /\ left[s] = 0
  /\ Goto(s, "top", 0)
  /\ NoFault /\ UNCHANGED << kid, sig, procVars, stopFile >>

Shell(s) ==
  \/ Forks(s) \/ Disabled(s) \/ Records(s) \/ Watches(s) \/ Reaps(s) \/ Trap(s)
  \/ Disables(s) \/ Waited(s) \/ LooksWell(s) \/ LooksStale(s) \/ Terminates(s)
  \/ PollsOver(s) \/ Wakes(s) \/ Restarts(s)

-----------------------------------------------------------------------------
(* The operator and the clock. *)

Signal(s) ==
  /\ Fault("signal")
  /\ sup[s] \notin Gone \cup {"stop"}
  /\ ~sig[s]
  /\ sig' = [sig EXCEPT ![s] = TRUE]
  /\ UNCHANGED << sup, kid, left, procVars, stopFile >>

\* SIGKILL, or the machine's memory: the engine goes on without its shell.
ShellDies(s) ==
  /\ Fault("shellDies")
  /\ sup[s] \notin Gone
  /\ Goto(s, "killed", 0)
  /\ Forgets(s)
  /\ IF kid[s] # NoPid THEN Reaped(kid[s]) ELSE UNCHANGED procVars
  /\ sig' = [sig EXCEPT ![s] = FALSE]
  /\ UNCHANGED stopFile

ToggleStopFile ==
  /\ Fault("stopFile")
  /\ stopFile' = ~stopFile
  /\ UNCHANGED << shellVars, procVars >>

\* Named assumption: a well engine starts, ends a cycle and gives up a reconnect
\* in the times it is given.
Patient(p) ==
  Well(p) => CASE proc[p] = "trading"      -> quiet[p] < CycleMax
               [] proc[p] = "reconnecting" -> quiet[p] < Backoff
               [] OTHER                    -> age[p] < StartMax

Resting(s) ==
  \/ sup[s] \in Gone
  \/ sup[s] \in Asleep /\ left[s] > 0 /\ (sup[s] = "polls" => Running(kid[s]) /\ ~sig[s])
  \/ sup[s] = "stop" /\ Running(kid[s])

Tick ==
  /\ \A p \in Pids : Patient(p)
  /\ \A s \in Shells : Resting(s)
  /\ age' = [p \in Pids |-> IF Running(p) THEN Capped(age[p] + 1, Horizon) ELSE age[p]]
  /\ quiet' = [p \in Pids |->
                 IF Running(p) THEN Capped(quiet[p] + 1, Overdue + 1) ELSE quiet[p]]
  /\ beat' = IF beat = NoFile THEN NoFile ELSE Capped(beat + 1, Stale + 1)
  /\ screened' = Capped(screened + 1, Overdue + 1)
  /\ left' = [s \in Shells |-> IF left[s] > 0 THEN left[s] - 1 ELSE 0]
  /\ UNCHANGED << sup, kid, sig, proc, hung, lock, lockPid, stopFile, faults >>

Next ==
  \/ \E p \in Pids : Engine(p)
  \/ \E s \in Shells : Launch(s) \/ Shell(s) \/ Signal(s) \/ ShellDies(s)
  \/ ToggleStopFile
  \/ Screens
  \/ Tick

Spec == Init /\ [][Next]_vars

\* A shell that runs goes on, a well engine starts and writes, and time passes.
Fairness ==
  /\ \A s \in Shells : WF_vars(Shell(s))
  /\ \A p \in Pids : WF_vars(Proceeds(p) /\ NoFault /\ UNCHANGED << shellVars, stopFile >>)
  /\ WF_vars(Tick)

FairSpec == Spec /\ Fairness
-----------------------------------------------------------------------------
(* Properties *)

Trading(p) == proc[p] \in {"starting", "trading", "reconnecting"}

\* "Prevent two live engines from trading the same account/client id", and the
\* lock file names the one that trades, whatever is started, killed or refused
\* beside it (_acquire_instance_lock).
OneEngine ==
  \A p \in Pids : Trading(p) =>
    /\ lockPid = p
    /\ \A q \in Pids : Trading(q) => p = q

\* The watchdog terminates a stuck process only: "auto_trader.py stays alive but
\* stops writing fresh dashboard heartbeat data", "so a slow IBKR scanner cycle is
\* not mistaken for a hang" (start_trader.sh).
KillsOnlyHung ==
  \A s \in Shells : sup[s] \in {"term", "polls"} => hung[kid[s]] \/ ~Running(kid[s])

\* An engine that has the lock and a shell that watches it never hangs for longer than
\* the watchdog's times add up to after the last heartbeat that anyone wrote, also if
\* it never wrote one, if an old one lies there, or if it ignores SIGTERM
\* (stop_stale_child_if_needed).
Silence(p) == IF screened < quiet[p] THEN screened ELSE quiet[p]
HungNotForLong ==
  \A s \in Shells :
    kid[s] # NoPid /\ kid[s] = lock /\ sup[s] # "stop" => Silence(kid[s]) <= Overdue

\* The same, whoever else writes the file (HungHidden.cfg).
HungIsSeen ==
  \A s \in Shells :
    kid[s] # NoPid /\ kid[s] = lock /\ sup[s] # "stop" => quiet[kid[s]] <= Overdue

\* "forward it to the engine and wait so auto_trader.py can release its instance
\* lock" (stop_child): a shell that ends leaves no engine behind.
Stopped(s) == sup[s] # "ended" /\ sup'[s] = "ended"
StopLeavesNoEngine == [][ \A s \in Shells : Stopped(s) => ~Running(kid[s]) ]_vars

\* The same for a shell that no signal has come to: DISABLE_AUTO_RESTART stops the
\* engine before the script ends.
DisableLeavesNoEngine ==
  [][ \A s \in Shells : Stopped(s) /\ ~sig[s] => ~Running(kid[s]) ]_vars

\* An engine comes to trade as long as a shell runs that nobody has told to stop,
\* unless one without a shell has the lock: a hung one of those stays.
Guarding(s) == sup[s] \notin Gone \cup {"stop"}
Working     == \E p \in Pids : Well(p) /\ proc[p] \in {"trading", "reconnecting"}
Told(s)     == stopFile \/ sig[s] \/ sup[s] = "killed"
Unwatched   == lock # NoPid /\ \A s \in Shells : kid[s] = lock => ~Guarding(s)

EngineReturns ==
  \A s \in Shells : Guarding(s) ~> (Working \/ Told(s) \/ Unwatched)
=============================================================================
