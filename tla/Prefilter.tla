------------------------------ MODULE Prefilter ------------------------------
(***************************************************************************)
(* The premarket sieve of ScannerMixin and the list it leaves for the day: *)
(* the engine screens the universe symbol by symbol before the entry       *)
(* window, writes checkpoints, is interrupted, restarted and resumed, and  *)
(* the first cycle of the session resets what it remembers and reads the   *)
(* file back.  scripts/run_premarket_prefilter.py runs the same sieve from *)
(* a process of its own: at any time of the day, beside the engine's, and  *)
(* beyond midnight if it takes so long.                                    *)
(*                                                                         *)
(* Days are trading days.  Whether a symbol's completed daily bars pass    *)
(* the static rules or those of the Bollinger strategy is a verdict of the *)
(* day; a symbol that passes both is left out.  Files are written whole.   *)
(***************************************************************************)
EXTENDS Integers, FiniteSets

CONSTANTS
  Size,       \* symbols in the universe
  Every,      \* APP_PREFILTER_PROGRESS_EVERY
  Days,       \* trading days
  MaxFaults,  \* adverse events per behaviour
  Faults      \* which adverse events may happen (see FaultKinds)

FaultKinds ==
  { "outage",   \* the history of a symbol cannot be fetched
    "abort",    \* the sieve ends with an exception
    "crash",    \* the engine dies and is restarted
    "force" }   \* the operator has the script delete the list

ASSUME PrefilterAssumption ==
  /\ {Size, Every, Days, MaxFaults} \subseteq Nat /\ Every > 0 /\ Days > 0
  /\ Faults \subseteq FaultKinds

Universe == 0 .. Size - 1
Runs     == {"engine", "script"}
Verdicts == {"fails", "fits", "reverts"}

VARIABLES
  day,      \* the trading day
  clock,    \* 1 before 06:30, 2 before 09:30, 3 before ENTRY_START, 4 after it
  verdict,  \* what today's completed bars say of each symbol
  file,     \* APP_PREFILTER_CACHE_FILE
  mem,      \* _prefilter_date, _status, _candidates, _bollinger_candidates
  lastRun,  \* _last_premarket_prefilter_date
  rolled,   \* _day_start_date
  run,      \* the sieve the engine, or the script, is in the middle of
  faults    \* adverse events still to come at most

vars == << day, clock, verdict, file, mem, lastRun, rolled, run, faults >>

List   == [ date : 0 .. Days,
            status : {"not_started", "running", "partial", "complete"},
            cands : SUBSET Universe, boll : SUBSET Universe ]
NoList == [ date |-> 0, status |-> "not_started", cands |-> {}, boll |-> {} ]
NoFile == [ date |-> 0, status |-> "not_started", cands |-> {}, boll |-> {},
            done |-> {} ]

\* heeds: it stops at ENTRY_START; alone (history): the other has not been on since.
Sieve  == [ date : 0 .. Days, done : SUBSET Universe, cands : SUBSET Universe,
            boll : SUBSET Universe, heeds : BOOLEAN, alone : BOOLEAN ]
NoRun  == [ date |-> 0, done |-> {}, cands |-> {}, boll |-> {}, heeds |-> TRUE,
            alone |-> TRUE ]

On(p) == run[p].date # 0

TypeOK ==
  /\ day \in 1 .. Days /\ clock \in 1 .. 4
  /\ verdict \in [Universe -> Verdicts]
  /\ file \in [ date : 0 .. Days, status : {"not_started", "partial", "complete"},
                cands : SUBSET Universe, boll : SUBSET Universe,
                done : SUBSET Universe ]
  /\ mem \in List
  /\ lastRun \in 0 .. Days /\ rolled \in 0 .. Days
  /\ run \in [Runs -> Sieve]
  /\ faults \in Nat

Init ==
  /\ day = 1 /\ clock = 1
  /\ verdict \in [Universe -> Verdicts]
  /\ file = NoFile /\ mem = NoList
  /\ lastRun = 0 /\ rolled = 0
  /\ run = [ p \in Runs |-> NoRun ]
  /\ faults = MaxFaults

Fault(kind) ==
  /\ kind \in Faults /\ faults > 0
  /\ faults' = faults - 1

-----------------------------------------------------------------------------
(* The file. *)

ListOf(f) ==
  [ date |-> f.date, status |-> f.status, cands |-> f.cands, boll |-> f.boll ]

\* _read_prefilter_cache: is there a list of the day
Cached(today) == file.date = today

\* What reading the file leaves in memory, and in _last_premarket_prefilter_date.
Read(m)     == IF Cached(day) THEN [ ListOf(file) EXCEPT !.date = day ] ELSE m
ReadDone(l) == IF Cached(day) /\ file.status = "complete" THEN day ELSE l

\* Mutant: the reason of a stop is written for its status.
PayloadOfStop(r, status) ==
  [ date |-> r.date, status |-> IF status = "partial" THEN "entry_window_open"
                                ELSE status,
    cands |-> r.cands, boll |-> r.boll, done |-> r.done ]

\* write_checkpoint, of a run
Payload(r, status) ==
  [ date |-> r.date, status |-> status, cands |-> r.cands, boll |-> r.boll,
    done |-> r.done ]

-----------------------------------------------------------------------------
(* The sieve. *)

\* Mutant: the list of the Bollinger strategy is not taken over.
BeginWithoutBollinger(today) ==
  IF Cached(today)
  THEN [ NoRun EXCEPT !.date = today, !.done = file.done, !.cands = file.cands ]
  ELSE [ NoRun EXCEPT !.date = today ]

\* Mutant: processed_symbols is not read back.
BeginUnprocessed(today) ==
  IF Cached(today)
  THEN [ NoRun EXCEPT !.date = today, !.cands = file.cands, !.boll = file.boll ]
  ELSE [ NoRun EXCEPT !.date = today ]

\* Mutant: a run never resumes.
BeginAnew(today) == [ NoRun EXCEPT !.date = today ]

\* A run resumes from the checkpoint of the day.
Begin(today) ==
  IF Cached(today)
  THEN [ NoRun EXCEPT !.date = today, !.done = file.done, !.cands = file.cands,
                      !.boll = file.boll ]
  ELSE [ NoRun EXCEPT !.date = today ]

\* No lock and no look at the other run keeps p from beginning.
Begins(p, heeds) ==
  run' = [ q \in Runs |->
             IF q = p
             THEN [ Begin(day) EXCEPT !.heeds = heeds,
                                      !.alone = \A o \in Runs : ~On(o) ]
             ELSE [ run[q] EXCEPT !.alone = ~On(q) ] ]

\* _maybe_run_off_hours_jobs, when the list of the day is complete already
EngineFindsList ==
  /\ clock \in {2, 3} /\ ~On("engine") /\ lastRun # day
  /\ Cached(day) /\ file.status = "complete"
  /\ mem' = Read(mem) /\ lastRun' = day
  /\ UNCHANGED << day, clock, verdict, file, rolled, run, faults >>

\* ... and when it is not.
EngineStarts ==
  /\ clock \in {2, 3} /\ ~On("engine") /\ lastRun # day
  /\ ~(Cached(day) /\ file.status = "complete")
  /\ Begins("engine", TRUE)
  /\ mem' = [ Read(mem) EXCEPT !.date = day, !.status = "running",
                               !.boll = Begin(day).boll ]
  /\ UNCHANGED << day, clock, verdict, file, lastRun, rolled, faults >>

\* The operator runs the script, with or without --ignore-entry-cutoff; a second
\* one would be refused its client id.
ScriptStarts ==
  /\ ~On("script") /\ ~(Cached(day) /\ file.status = "complete")
  /\ \E heeds \in BOOLEAN : Begins("script", heeds)
  /\ UNCHANGED << day, clock, verdict, file, mem, lastRun, rolled, faults >>

\* --force: a script deletes the list, and only then connects and starts.
ScriptForced ==
  /\ Fault("force")
  /\ file' = NoFile
  /\ UNCHANGED << day, clock, verdict, mem, lastRun, rolled, run >>

Left(p) == Universe \ run[p].done

NextOf(p) == CHOOSE s \in Left(p) : \A t \in Left(p) : s <= t

\* The run after the next symbol: it counts as processed whether its history was
\* fetched or not.
After(p, verd, fetched) ==
  LET s == NextOf(p)
  IN  [ run[p] EXCEPT
          !.done  = @ \cup {s},
          !.cands = IF fetched /\ verd = "fits" THEN @ \cup {s} ELSE @,
          !.boll  = IF fetched /\ verd = "reverts" THEN @ \cup {s} ELSE @ ]

\* Past ENTRY_START, unless --ignore-entry-cutoff was given; not after midnight.
Stops(p) == clock = 4 /\ run[p].heeds

CheckpointDue(p, r) == Cardinality(r.done) % Every = 0 \/ Stops(p)

\* The lists in memory are the engine's; a checkpoint brings them up to date.
Kept(p, r) ==
  IF p = "engine" /\ CheckpointDue(p, r) THEN ListOf(Payload(r, "partial")) ELSE mem

\* One symbol is screened; past ENTRY_START a sieve that heeds it ends with it.
Screen(p) ==
  /\ On(p) /\ Left(p) # {}
  /\ \E fetched \in BOOLEAN :
       /\ IF fetched THEN UNCHANGED faults ELSE Fault("outage")
       /\ \E verd \in IF run[p].date = day THEN {verdict[NextOf(p)]} ELSE Verdicts :
            LET r == After(p, verd, fetched)
            IN  /\ file' = IF CheckpointDue(p, r)
                           THEN Payload(r, "partial") ELSE file
                /\ mem' = Kept(p, r)
                /\ run' = [ run EXCEPT ![p] = IF Stops(p) THEN NoRun ELSE r ]
  /\ lastRun' = IF p = "engine" /\ Stops(p) THEN day ELSE lastRun
  /\ UNCHANGED << day, clock, verdict, rolled >>

\* Every symbol has been processed.
Completes(p) ==
  /\ On(p) /\ Left(p) = {}
  /\ file' = Payload(run[p], "complete")
  /\ run' = [ run EXCEPT ![p] = NoRun ]
  /\ IF p = "engine"
     THEN mem' = ListOf(file') /\ lastRun' = day
     ELSE UNCHANGED << mem, lastRun >>
  /\ UNCHANGED << day, clock, verdict, rolled, faults >>

\* The engine lives on with what the sieve found for the Bollinger strategy.
Aborts(p) ==
  /\ On(p) /\ Fault("abort")
  /\ run' = [ run EXCEPT ![p] = NoRun ]
  /\ mem' = IF p = "engine" THEN [ mem EXCEPT !.boll = run[p].boll ] ELSE mem
  /\ UNCHANGED << day, clock, verdict, file, lastRun, rolled >>

-----------------------------------------------------------------------------
(* The session. *)

\* Mutant: what is remembered of another day stays.
DayBeginsKeeps ==
  /\ clock \in {3, 4} /\ ~On("engine") /\ rolled # day
  /\ mem' = Read(mem)
  /\ lastRun' = ReadDone(lastRun) /\ rolled' = day
  /\ UNCHANGED << day, clock, verdict, file, run, faults >>

\* The first cycle of the session forgets what is remembered, and reads the file.
DayBegins ==
  /\ clock \in {3, 4} /\ ~On("engine") /\ rolled # day
  /\ mem' = Read(NoList)
  /\ lastRun' = ReadDone(lastRun) /\ rolled' = day
  /\ UNCHANGED << day, clock, verdict, file, run, faults >>

InMemory == mem.date = day /\ mem.status \in {"complete", "partial"}

\* _prefilter_candidates_for_today: the list, unless the scanner falls back to the
\* sources that are not screened.
Listed == InMemory \/ Cached(day)
Offer  == IF InMemory THEN mem.cands ELSE Read(mem).cands

Scanning == clock = 4 /\ rolled = day /\ ~On("engine")

\* get_institutional_scan
Scan ==
  /\ Scanning /\ ~InMemory /\ Cached(day)
  /\ mem' = Read(mem) /\ lastRun' = ReadDone(lastRun)
  /\ UNCHANGED << day, clock, verdict, file, rolled, run, faults >>

Restart ==
  /\ Fault("crash")
  /\ mem' = NoList /\ lastRun' = 0 /\ rolled' = 0
  /\ run' = [ run EXCEPT !["engine"] = NoRun ]
  /\ UNCHANGED << day, clock, verdict, file >>

\* Time passes; the engine's sieve is done before the next day, the script's when it
\* is.
TimePasses ==
  /\ IF clock < 4
     THEN clock' = clock + 1 /\ UNCHANGED << day, verdict >>
     ELSE /\ ~On("engine") /\ day < Days
          /\ clock' = 1 /\ day' = day + 1
          /\ verdict' \in [Universe -> Verdicts]
  /\ UNCHANGED << file, mem, lastRun, rolled, run, faults >>

Next ==
  \/ EngineFindsList \/ EngineStarts \/ ScriptStarts \/ ScriptForced
  \/ DayBegins \/ Scan \/ Restart \/ TimePasses
  \/ \E p \in Runs : Screen(p) \/ Completes(p) \/ Aborts(p)

Spec == Init /\ [][Next]_vars

-----------------------------------------------------------------------------
(* Properties. *)

Of(v) == { s \in Universe : verdict[s] = v }

\* Whatever was interrupted, resumed, restarted or left over from another day, an
\* entry scan is offered symbols of the lists that today's bars qualify.
OffersQualified ==
  Scanning =>
    /\ Listed => Offer \subseteq Of("fits")
    /\ mem.boll \subseteq Of("reverts")

\* A complete list has every symbol that qualifies, as the sieve of the full
\* universe promises, in one run or in several.
CompleteIsWhole ==
  file.date = day /\ file.status = "complete" =>
    file.cands = Of("fits") /\ file.boll = Of("reverts")

\* The sieves that are on have been alone since they began.
NoneBeside == \A p \in Runs : On(p) => run[p].alone

\* What a checkpoint of the day has is not fetched from the broker again by a run
\* that has had the day's list to itself.
NotScreenedTwice ==
  [][\A p \in Runs :
       run'[p].date = day /\ On(p) /\ run[p].alone /\ file.date = day
         => (run'[p].done \ run[p].done) \cap file.done = {}]_vars

Grows ==
  /\ file'.date = day
  /\ file.cands \subseteq file'.cands /\ file.boll \subseteq file'.boll
  /\ file.status = "complete" => file'.status = "complete"

\* The list of a day stays the day's, grows and stays complete, whatever is
\* interrupted, resumed or forgotten, until the operator deletes it or has two
\* sieves on at once: no restart takes a symbol from the entry scans.
ListOnlyGrows ==
  [][NoneBeside /\ file.date = day /\ file'.date # 0 => Grows]_vars

\* So it does, whoever else writes it.  (It does not: see ListShrinks.cfg.)
ListNeverShrinks == [][file.date = day /\ file'.date # 0 => Grows]_vars
=============================================================================
