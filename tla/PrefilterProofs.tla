--------------------------- MODULE PrefilterProofs ---------------------------
(***************************************************************************)
(* The list of the day: whatever interrupts the sieve, and however many    *)
(* symbols, days and adverse events there are, an entry scan is offered    *)
(* none that today's bars do not qualify, a list that is complete has all  *)
(* that they do if every history was fetched, and the list of a day grows  *)
(* without a symbol being fetched twice.                                   *)
(***************************************************************************)
EXTENDS Prefilter, WellFoundedInduction, TLAPS

\* What has been found is in the right list ...
Sieved(r) == r.cands \subseteq Of("fits") /\ r.boll \subseteq Of("reverts")

\* ... and, if every history was fetched, nothing that has been processed is missing.
Whole(r) ==
  "outage" \notin Faults =>
    /\ Of("fits") \cap r.done \subseteq r.cands
    /\ Of("reverts") \cap r.done \subseteq r.boll

FileToday ==
  /\ file.date <= day
  /\ file.date = day => /\ Sieved(file) /\ Whole(file)
                        /\ file.status = "complete" => file.done = Universe

RunToday ==
  \A p \in Runs : /\ run[p].date <= day
                  /\ run[p].date = day => Sieved(run[p]) /\ Whole(run[p])

\* The engine's sieve does not outlive the day; the script's may.
EngineToday == On("engine") => run["engine"].date = day

MemToday ==
  /\ mem.date <= day /\ rolled <= day
  /\ InMemory => mem.cands \subseteq Of("fits")
  /\ rolled = day => mem.boll \subseteq Of("reverts")

IInv == TypeOK /\ FileToday /\ RunToday /\ EngineToday /\ MemToday

LEMMA Constants ==
  /\ Size \in Nat /\ Every \in Nat /\ Every > 0 /\ Days \in Nat /\ Days > 0
  /\ MaxFaults \in Nat
BY PrefilterAssumption

LEMMA InitIInv == Init => IInv
<1> SUFFICES ASSUME Init PROVE IInv
  OBVIOUS
<1>1. TypeOK
  <2>1. day \in 1 .. Days /\ clock \in 1 .. 4 /\ lastRun \in 0 .. Days
        /\ rolled \in 0 .. Days /\ faults \in Nat
    BY Constants DEF Init
  <2>2. mem \in List /\ run \in [Runs -> Sieve]
    BY Constants DEF Init, NoList, NoRun, List, Sieve
  <2>3. file \in [ date : 0 .. Days, status : {"not_started", "partial", "complete"},
                   cands : SUBSET Universe, boll : SUBSET Universe,
                   done : SUBSET Universe ]
    BY Constants DEF Init, NoFile
  <2>4. verdict \in [Universe -> Verdicts]
    BY DEF Init
  <2>5. QED
    BY <2>1, <2>2, <2>3, <2>4, Zenon DEF TypeOK, Sieve
<1>2. FileToday /\ RunToday /\ EngineToday /\ MemToday
  BY DEF Init, FileToday, RunToday, EngineToday, MemToday, NoFile, NoList, NoRun,
         On, InMemory, Runs
<1>3. QED
  BY <1>1, <1>2 DEF IInv

LEMMA ReadTyped ==
  ASSUME TypeOK, NEW m \in List
  PROVE  Read(m) \in List /\ ReadDone(lastRun) \in 0 .. Days
<1>1. ListOf(file) \in List
  BY DEF TypeOK, ListOf, List
<1>2. QED
  BY <1>1 DEF TypeOK, Read, ReadDone, ListOf, List

LEMMA Nothing == NoRun \in Sieve /\ NoList \in List
BY Constants DEF NoRun, NoList, Sieve, List

LEMMA RunTyped ==
  ASSUME TypeOK, NEW p \in Runs
  PROVE  run[p] \in Sieve
BY DEF TypeOK, Sieve

\* A sieve that is resumed is of the day, and has what the file has.
LEMMA BeginTyped ==
  ASSUME TypeOK, FileToday
  PROVE  /\ Begin(day) \in Sieve /\ Begin(day).date = day
         /\ Sieved(Begin(day)) /\ Whole(Begin(day))
<1>1. CASE Cached(day)
  BY <1>1 DEF TypeOK, FileToday, Begin, NoRun, Cached, Sieve, Sieved, Whole
<1>2. CASE ~Cached(day)
  <2>1. Begin(day) = [ NoRun EXCEPT !.date = day ]
    BY <1>2 DEF Begin
  <2>2. Begin(day) = [ date |-> day, done |-> {}, cands |-> {}, boll |-> {},
                       heeds |-> TRUE, alone |-> TRUE ]
    BY <2>1 DEF NoRun
  <2>3. Begin(day) \in Sieve
    BY <2>2, Constants DEF TypeOK, Sieve
  <2>4. QED
    BY <2>2, <2>3 DEF Sieved, Whole
<1>3. QED
  BY <1>1, <1>2

\* The sieve p begins with what Begin gives, and the other one only stops being alone.
LEMMA BeginsRuns ==
  ASSUME TypeOK, FileToday, NEW p \in Runs, NEW heeds \in BOOLEAN, Begins(p, heeds)
  PROVE  /\ run' \in [Runs -> Sieve]
         /\ run'[p] = [ Begin(day) EXCEPT !.heeds = heeds,
                                          !.alone = \A o \in Runs : ~On(o) ]
         /\ run'[p].date = day /\ Sieved(run'[p]) /\ Whole(run'[p])
         /\ \A q \in Runs \ {p} : run'[q] = [ run[q] EXCEPT !.alone = ~On(q) ]
<1>1. run' = [ q \in Runs |->
                 IF q = p
                 THEN [ Begin(day) EXCEPT !.heeds = heeds,
                                          !.alone = \A o \in Runs : ~On(o) ]
                 ELSE [ run[q] EXCEPT !.alone = ~On(q) ] ]
  BY DEF Begins
<1> DEFINE r == [ Begin(day) EXCEPT !.heeds = heeds,
                                    !.alone = \A o \in Runs : ~On(o) ]
<1>2. r \in Sieve /\ r.date = day /\ Sieved(r) /\ Whole(r)
  <2>1. (\A o \in Runs : ~On(o)) \in BOOLEAN
    OBVIOUS
  <2> DEFINE a == \A o \in Runs : ~On(o)
  <2> HIDE DEF a
  <2>2. [ Begin(day) EXCEPT !.heeds = heeds, !.alone = a ].date = day
    BY BeginTyped DEF Sieve
  <2>3. a \in BOOLEAN
    BY <2>1 DEF a
  <2>4. LET t == [ Begin(day) EXCEPT !.heeds = heeds, !.alone = a ]
        IN  t \in Sieve /\ t.cands = Begin(day).cands /\ t.boll = Begin(day).boll
            /\ t.done = Begin(day).done /\ t.date = day
    BY <2>3, BeginTyped DEF Sieve
  <2>5. QED
    BY <2>4, BeginTyped DEF a, Sieved, Whole
<1>3. \A q \in Runs : [ run[q] EXCEPT !.alone = ~On(q) ] \in Sieve
  <2> SUFFICES ASSUME NEW q \in Runs PROVE [ run[q] EXCEPT !.alone = ~On(q) ] \in Sieve
    OBVIOUS
  <2> DEFINE off == ~On(q)
  <2>1. off \in BOOLEAN
    OBVIOUS
  <2> HIDE DEF off
  <2>2. [ run[q] EXCEPT !.alone = off ] \in Sieve
    BY <2>1, RunTyped DEF Sieve
  <2>3. QED
    BY <2>2 DEF off
<1> HIDE DEF r
<1>4. run' = [ q \in Runs |-> IF q = p THEN r ELSE [ run[q] EXCEPT !.alone = ~On(q) ] ]
  BY <1>1 DEF r
<1>5. QED
  BY <1>2, <1>3, <1>4 DEF r

LEMMA BeginsToday ==
  ASSUME IInv, NEW p \in Runs, NEW heeds \in BOOLEAN, Begins(p, heeds),
         UNCHANGED << day, clock, verdict, file >>, p = "engine" => ~On("engine")
  PROVE  FileToday' /\ RunToday' /\ EngineToday'
<1>1. FileToday'
  BY DEF IInv, FileToday, Sieved, Whole, Of
<1>2. \A q \in Runs : /\ run'[q].date = IF q = p THEN day ELSE run[q].date
                      /\ q # p => /\ run'[q].done = run[q].done
                                  /\ run'[q].cands = run[q].cands
                                  /\ run'[q].boll = run[q].boll
  <2> SUFFICES ASSUME NEW q \in Runs, q # p
               PROVE  /\ run'[q].date = run[q].date /\ run'[q].done = run[q].done
                      /\ run'[q].cands = run[q].cands
                      /\ run'[q].boll = run[q].boll
    BY BeginsRuns DEF IInv
  <2>1. run'[q] = [ run[q] EXCEPT !.alone = ~On(q) ]
    BY BeginsRuns DEF IInv
  <2>2. QED
    BY <2>1, RunTyped DEF IInv, Sieve
<1>3. \A q \in Runs : run'[q].date = day => Sieved(run'[q]) /\ Whole(run'[q])
  <2> SUFFICES ASSUME NEW q \in Runs, run'[q].date = day
               PROVE  Sieved(run'[q]) /\ Whole(run'[q])
    OBVIOUS
  <2>1. CASE q = p
    BY <2>1, BeginsRuns DEF IInv
  <2>2. CASE q # p
    BY <1>2, <2>2 DEF IInv, RunToday, Sieved, Whole
  <2>3. QED
    BY <2>1, <2>2
<1>4. RunToday'
  <2>1. day <= day
    BY DEF IInv, TypeOK
  <2>2. \A q \in Runs : run'[q].date <= day
    BY <1>2, <2>1 DEF IInv, RunToday
  <2>3. QED
    BY <1>3, <2>2 DEF RunToday, Sieved, Whole, Of
<1>5. EngineToday'
  BY <1>2 DEF IInv, EngineToday, On, Runs
<1>6. QED
  BY <1>1, <1>4, <1>5

LEMMA NewRunTyped ==
  ASSUME TypeOK, NEW p \in Runs, NEW r \in Sieve
  PROVE  [ run EXCEPT ![p] = r ] \in [Runs -> Sieve]
BY DEF TypeOK, Sieve

\* The engine reads a list that is complete.
LEMMA EngineFindsListInv == ASSUME IInv, EngineFindsList PROVE IInv'
<1>1. TypeOK'
  BY ReadTyped DEF IInv, TypeOK, EngineFindsList
<1>2. FileToday'
  BY Constants DEF IInv, FileToday, TypeOK, RunToday, EngineFindsList, Cached, Read,
                   ListOf, Of, Sieved, Whole, On, Runs, List, NoList, NoRun, NoFile,
                   InMemory, vars
<1>3. RunToday'
  BY Constants DEF IInv, RunToday, TypeOK, FileToday, EngineFindsList, Cached, Read,
                   ListOf, Of, Sieved, Whole, On, Runs, List, NoList, NoRun, NoFile,
                   InMemory, vars
<1>4. EngineToday'
  BY Constants DEF IInv, EngineToday, TypeOK, EngineFindsList, Cached, Read, ListOf,
                   Of, Sieved, Whole, On, Runs, List, NoList, NoRun, NoFile,
                   InMemory, vars
<1>5. MemToday'
  BY Constants DEF IInv, MemToday, TypeOK, FileToday, RunToday, EngineToday,
                   EngineFindsList, Cached, Read, ListOf, Of, Sieved, Whole, On,
                   Runs, List, NoList, NoRun, NoFile, InMemory, vars
<1>6. QED
  BY <1>1, <1>2, <1>3, <1>4, <1>5 DEF IInv

\* The engine's sieve begins, or resumes.
LEMMA EngineStartsInv == ASSUME IInv, EngineStarts PROVE IInv'
<1>1. /\ Begins("engine", TRUE) /\ "engine" \in Runs /\ ~On("engine")
      /\ UNCHANGED << day, clock, verdict, file, lastRun, rolled, faults >>
  BY DEF EngineStarts, Runs
<1>2. TypeOK'
  <2>1. run' \in [Runs -> Sieve]
    BY <1>1, BeginsRuns DEF IInv
  <2>2. mem' \in List
    <3>1. Read(mem) \in List /\ Begin(day).boll \subseteq Universe /\ day \in 0 .. Days
      BY ReadTyped, BeginTyped DEF IInv, TypeOK, Sieve
    <3>2. QED
      BY <3>1 DEF EngineStarts, List
  <2>3. QED
    BY <1>1, <2>1, <2>2 DEF IInv, TypeOK
<1>3. FileToday' /\ RunToday' /\ EngineToday'
  BY <1>1, BeginsToday
<1>4. MemToday'
  <2>1. /\ mem'.date = day /\ mem'.status = "running" /\ mem'.boll = Begin(day).boll
    BY ReadTyped DEF IInv, TypeOK, EngineStarts, List
  <2>2. Begin(day).boll \subseteq Of("reverts")
    BY BeginTyped DEF IInv, Sieved
  <2>3. QED
    BY <1>1, <2>1, <2>2 DEF IInv, TypeOK, MemToday, InMemory, Of
<1>5. QED
  BY <1>2, <1>3, <1>4 DEF IInv

\* So does the script's.
LEMMA ScriptStartsInv == ASSUME IInv, ScriptStarts PROVE IInv'
<1>1. PICK heeds \in BOOLEAN : Begins("script", heeds)
  BY DEF ScriptStarts
<1>2. "script" \in Runs /\ "script" # "engine"
      /\ UNCHANGED << day, clock, verdict, file, mem, lastRun, rolled, faults >>
  BY DEF ScriptStarts, Runs
<1>3. TypeOK'
  <2>1. run' \in [Runs -> Sieve]
    BY <1>1, <1>2, BeginsRuns DEF IInv
  <2>2. QED
    BY <1>2, <2>1 DEF IInv, TypeOK
<1>4. FileToday' /\ RunToday' /\ EngineToday'
  BY <1>1, <1>2, BeginsToday
<1>5. MemToday'
  BY <1>2 DEF IInv, MemToday, InMemory, Of
<1>6. QED
  BY <1>3, <1>4, <1>5 DEF IInv

\* The list is deleted.
LEMMA ScriptForcedInv == ASSUME IInv, ScriptForced PROVE IInv'
<1>1. TypeOK'
  <2>1. faults' \in Nat
    BY DEF IInv, TypeOK, ScriptForced, Fault
  <2>2. file' \in [ date : 0 .. Days, status : {"not_started", "partial", "complete"},
                    cands : SUBSET Universe, boll : SUBSET Universe,
                    done : SUBSET Universe ]
    BY Constants DEF ScriptForced, NoFile
  <2>3. QED
    BY <2>1, <2>2 DEF IInv, TypeOK, ScriptForced
<1>2. FileToday' /\ RunToday' /\ EngineToday' /\ MemToday'
  BY DEF IInv, TypeOK, FileToday, RunToday, EngineToday, MemToday, ScriptForced,
         NoFile, Of, Sieved, Whole, On, InMemory
<1>3. QED
  BY <1>1, <1>2 DEF IInv

\* The session starts with the file.
LEMMA DayBeginsInv == ASSUME IInv, DayBegins PROVE IInv'
<1>1. TypeOK'
  <2>1. mem' \in List /\ lastRun' \in 0 .. Days /\ rolled' \in 0 .. Days
    BY ReadTyped, Nothing DEF IInv, TypeOK, DayBegins
  <2>2. QED
    BY <2>1 DEF IInv, TypeOK, DayBegins
<1>2. FileToday'
  BY Constants DEF IInv, FileToday, TypeOK, RunToday, DayBegins, Cached, Read,
                   ReadDone, ListOf, NoList, Of, Sieved, Whole, On, Runs, List,
                   NoRun, NoFile, InMemory, vars
<1>3. RunToday'
  BY Constants DEF IInv, RunToday, TypeOK, FileToday, DayBegins, Cached, Read,
                   ReadDone, ListOf, NoList, Of, Sieved, Whole, On, Runs, List,
                   NoRun, NoFile, InMemory, vars
<1>4. EngineToday'
  BY Constants DEF IInv, EngineToday, TypeOK, DayBegins, Cached, Read, ReadDone,
                   ListOf, NoList, Of, Sieved, Whole, On, Runs, List, NoRun, NoFile,
                   InMemory, vars
<1>5. MemToday'
  BY Constants DEF IInv, MemToday, TypeOK, FileToday, RunToday, EngineToday,
                   DayBegins, Cached, Read, ReadDone, ListOf, NoList, Of, Sieved,
                   Whole, On, Runs, List, NoRun, NoFile, InMemory, vars
<1>6. QED
  BY <1>1, <1>2, <1>3, <1>4, <1>5 DEF IInv

\* A scan reads the file.
LEMMA ScanInv == ASSUME IInv, Scan PROVE IInv'
<1>1. TypeOK'
  <2>1. mem' \in List /\ lastRun' \in 0 .. Days
    BY ReadTyped DEF IInv, TypeOK, Scan
  <2>2. QED
    BY <2>1 DEF IInv, TypeOK, Scan
<1>2. FileToday'
  BY Constants DEF IInv, FileToday, TypeOK, RunToday, Scan, Cached, Read, ReadDone,
                   ListOf, Scanning, Of, Sieved, Whole, On, Runs, List, NoList,
                   NoRun, NoFile, InMemory, vars
<1>3. RunToday'
  BY Constants DEF IInv, RunToday, TypeOK, FileToday, Scan, Cached, Read, ReadDone,
                   ListOf, Scanning, Of, Sieved, Whole, On, Runs, List, NoList,
                   NoRun, NoFile, InMemory, vars
<1>4. EngineToday'
  BY Constants DEF IInv, EngineToday, TypeOK, Scan, Cached, Read, ReadDone, ListOf,
                   Scanning, Of, Sieved, Whole, On, Runs, List, NoList, NoRun,
                   NoFile, InMemory, vars
<1>5. MemToday'
  BY Constants DEF IInv, MemToday, TypeOK, FileToday, RunToday, EngineToday, Scan,
                   Cached, Read, ReadDone, ListOf, Scanning, Of, Sieved, Whole, On,
                   Runs, List, NoList, NoRun, NoFile, InMemory, vars
<1>6. QED
  BY <1>1, <1>2, <1>3, <1>4, <1>5 DEF IInv

\* A restart forgets all but the file.
LEMMA RestartInv == ASSUME IInv, Restart PROVE IInv'
<1>1. TypeOK'
  <2>1. mem' \in List /\ run' \in [Runs -> Sieve]
    BY Nothing, NewRunTyped DEF IInv, Restart, Runs
  <2>2. lastRun' \in 0 .. Days /\ rolled' \in 0 .. Days /\ faults' \in Nat
    BY Constants DEF IInv, TypeOK, Restart, Fault
  <2>3. QED
    BY <2>1, <2>2 DEF IInv, TypeOK, Restart
<1>2. FileToday'
  BY Constants DEF IInv, FileToday, TypeOK, RunToday, Restart, NoList, NoRun, Fault,
                   Of, Sieved, Whole, On, Runs, List, NoFile, InMemory, vars
<1>3. RunToday'
  BY Constants DEF IInv, RunToday, TypeOK, FileToday, Restart, NoList, NoRun, Fault,
                   Of, Sieved, Whole, On, Runs, List, NoFile, InMemory, vars
<1>4. EngineToday'
  BY Constants DEF IInv, EngineToday, TypeOK, Restart, NoList, NoRun, Fault, Of,
                   Sieved, Whole, On, Runs, List, NoFile, InMemory, vars
<1>5. MemToday'
  BY Constants DEF IInv, MemToday, TypeOK, FileToday, RunToday, EngineToday,
                   Restart, NoList, NoRun, Fault, Of, Sieved, Whole, On, Runs, List,
                   NoFile, InMemory, vars
<1>6. QED
  BY <1>1, <1>2, <1>3, <1>4, <1>5 DEF IInv

\* Nothing that is dated becomes another day's.
LEMMA TimePassesInv == ASSUME IInv, TimePasses PROVE IInv'
<1>1. TypeOK'
  <2>1. clock' \in 1 .. 4 /\ day' \in 1 .. Days
    BY Constants DEF IInv, TypeOK, TimePasses
  <2>2. verdict' \in [Universe -> Verdicts]
    BY DEF IInv, TypeOK, TimePasses
  <2>3. QED
    BY <2>1, <2>2 DEF IInv, TypeOK, TimePasses
<1>2. FileToday'
  BY Constants DEF IInv, FileToday, TypeOK, RunToday, TimePasses, Of, Sieved, Whole,
                   On, Runs, List, NoList, NoRun, NoFile, InMemory, vars
<1>3. RunToday'
  <2>1. CASE UNCHANGED << day, verdict >>
    BY <2>1 DEF IInv, RunToday, TimePasses, Sieved, Whole, Of
  <2>2. CASE day' = day + 1
    <3> SUFFICES ASSUME NEW p \in Runs
                 PROVE  run[p].date <= day' /\ run[p].date # day'
      BY DEF RunToday, TimePasses
    <3>1. run[p].date \in 0 .. Days /\ run[p].date <= day /\ day \in 1 .. Days
      BY RunTyped DEF IInv, TypeOK, RunToday, Sieve
    <3>2. QED
      BY <2>2, <3>1, Constants
  <2>3. QED
    BY <2>1, <2>2 DEF TimePasses
<1>4. EngineToday'
  BY Constants DEF IInv, EngineToday, TypeOK, TimePasses, Of, Sieved, Whole, On,
                   Runs, List, NoList, NoRun, NoFile, InMemory, vars
<1>5. MemToday'
  BY Constants DEF IInv, MemToday, TypeOK, FileToday, RunToday, EngineToday,
                   TimePasses, Of, Sieved, Whole, On, Runs, List, NoList, NoRun,
                   NoFile, InMemory, vars
<1>6. QED
  BY <1>1, <1>2, <1>3, <1>4, <1>5 DEF IInv

\* A sieve has processed every symbol.
LEMMA CompletesInv == ASSUME IInv, NEW p \in Runs, Completes(p) PROVE IInv'
<1>1. TypeOK'
  <2>1. run' \in [Runs -> Sieve]
    BY Nothing, NewRunTyped DEF IInv, Completes
  <2>2. run[p] \in Sieve
    BY RunTyped DEF IInv
  <2>3. file' \in [ date : 0 .. Days, status : {"not_started", "partial", "complete"},
                    cands : SUBSET Universe, boll : SUBSET Universe,
                    done : SUBSET Universe ]
    BY <2>2 DEF Completes, Payload, Sieve
  <2>4. mem' \in List /\ lastRun' \in 0 .. Days
    BY <2>2, Constants DEF IInv, TypeOK, Completes, ListOf, Payload, Sieve, List
  <2>5. QED
    BY <2>1, <2>3, <2>4 DEF IInv, TypeOK, Completes
<1>2. FileToday'
  <2>1. /\ run[p] \in Sieve
        /\ run[p].date <= day
        /\ run[p].date = day => Sieved(run[p]) /\ Whole(run[p])
    BY RunTyped DEF IInv, RunToday
  <2>2. /\ file' = Payload(run[p], "complete")
        /\ UNCHANGED << day, verdict >>
        /\ run[p].done = Universe
    BY <2>1 DEF Completes, Left, Sieve
  <2>3. /\ file'.date = run[p].date /\ file'.done = run[p].done
        /\ file'.cands = run[p].cands /\ file'.boll = run[p].boll
    BY <2>2 DEF Payload
  <2>4. QED
    BY <2>1, <2>2, <2>3 DEF FileToday, Sieved, Whole, Of
<1>3. RunToday'
  BY Constants DEF IInv, RunToday, TypeOK, FileToday, Completes, Payload, ListOf,
                   Left, NoRun, Of, Sieved, Whole, On, Runs, List, NoList, NoFile,
                   InMemory, vars
<1>4. EngineToday'
  BY Constants DEF IInv, EngineToday, TypeOK, Completes, Payload, ListOf, Left,
                   NoRun, Of, Sieved, Whole, On, Runs, List, NoList, NoFile,
                   InMemory, vars
<1>5. MemToday'
  BY Constants DEF IInv, MemToday, TypeOK, FileToday, RunToday, EngineToday,
                   Completes, Payload, ListOf, Left, NoRun, Of, Sieved, Whole, On,
                   Runs, List, NoList, NoFile, InMemory, vars
<1>6. QED
  BY <1>1, <1>2, <1>3, <1>4, <1>5 DEF IInv

\* A sieve ends early.
LEMMA AbortsInv == ASSUME IInv, NEW p \in Runs, Aborts(p) PROVE IInv'
<1>1. TypeOK'
  <2>1. run' \in [Runs -> Sieve]
    BY Nothing, NewRunTyped DEF IInv, Aborts
  <2>2. mem' \in List
    <3>1. run[p].boll \subseteq Universe
      BY RunTyped DEF IInv, Sieve
    <3>2. QED
      BY <3>1 DEF IInv, TypeOK, Aborts, List
  <2>3. faults' \in Nat
    BY DEF IInv, TypeOK, Aborts, Fault
  <2>4. QED
    BY <2>1, <2>2, <2>3 DEF IInv, TypeOK, Aborts, Sieve
<1>2. FileToday'
  BY Constants DEF IInv, FileToday, TypeOK, RunToday, Aborts, NoRun, Fault, Of,
                   Sieved, Whole, On, Runs, List, NoList, NoFile, InMemory, vars
<1>3. RunToday'
  BY Constants DEF IInv, RunToday, TypeOK, FileToday, Aborts, NoRun, Fault, Of,
                   Sieved, Whole, On, Runs, List, NoList, NoFile, InMemory, vars
<1>4. EngineToday'
  BY Constants DEF IInv, EngineToday, TypeOK, Aborts, NoRun, Fault, Of, Sieved,
                   Whole, On, Runs, List, NoList, NoFile, InMemory, vars
<1>5. MemToday'
  BY Constants DEF IInv, MemToday, TypeOK, FileToday, RunToday, EngineToday, Aborts,
                   NoRun, Fault, Of, Sieved, Whole, On, Runs, List, NoList, NoFile,
                   InMemory, vars
<1>6. QED
  BY <1>1, <1>2, <1>3, <1>4, <1>5 DEF IInv

\* There is a next symbol as long as one is left.
LEMMA NextIsLeft ==
  ASSUME NEW p \in Runs, Left(p) # {}
  PROVE  NextOf(p) \in Left(p)
<1>1. Left(p) \subseteq Nat
  BY Constants DEF Left, Universe
<1>2. PICK s \in Left(p) : \A t \in Left(p) : ~(<< t, s >> \in OpToRel(<, Nat))
  BY <1>1, NatLessThanWellFounded, WFMin, Zenon
<1>3. \A t \in Left(p) : s <= t
  <2> SUFFICES ASSUME NEW t \in Left(p), t < s
               PROVE  FALSE
    BY <1>1
  <2>1. << t, s >> \in Nat \X Nat /\ << t, s >>[1] < << t, s >>[2]
    BY <1>1
  <2>2. << t, s >> \in OpToRel(<, Nat)
    BY <2>1 DEF OpToRel
  <2>3. QED
    BY <1>2, <2>2
<1>4. QED
  BY <1>3, Zenon DEF NextOf

\* The run after the next symbol has it in the right list, or in none.
LEMMA AfterSieved ==
  ASSUME IInv, NEW p \in Runs, Left(p) # {},
         NEW verd \in Verdicts, NEW fetched \in BOOLEAN,
         run[p].date = day => verd = verdict[NextOf(p)],
         ~fetched => "outage" \in Faults
  PROVE  LET r == After(p, verd, fetched)
         IN  /\ r \in Sieve /\ r.date = run[p].date
             /\ r.date = day => Sieved(r) /\ Whole(r)
<1> DEFINE s == NextOf(p)
           r == After(p, verd, fetched)
<1>1. s \in Universe
  BY NextIsLeft DEF Left
<1>2. run[p] \in Sieve
  BY RunTyped DEF IInv
<1>3. /\ r.date = run[p].date
      /\ r.done = run[p].done \cup {s}
      /\ r.cands = IF fetched /\ verd = "fits"
                   THEN run[p].cands \cup {s} ELSE run[p].cands
      /\ r.boll = IF fetched /\ verd = "reverts"
                  THEN run[p].boll \cup {s} ELSE run[p].boll
  BY <1>2 DEF After, Sieve
<1>4. r \in Sieve
  BY <1>1, <1>2 DEF After, Sieve
<1>5. ASSUME r.date = day
      PROVE  Sieved(r) /\ Whole(r)
  <2>1. Sieved(run[p]) /\ Whole(run[p]) /\ verd = verdict[s]
    BY <1>3, <1>5 DEF IInv, RunToday
  <2>2. Sieved(r)
    BY <1>1, <1>3, <2>1 DEF Sieved, Of
  <2>3. Whole(r)
    BY <1>1, <1>3, <2>1 DEF Whole, Of
  <2>4. QED
    BY <2>2, <2>3
<1>6. QED
  BY <1>3, <1>4, <1>5

\* One more symbol.
LEMMA ScreenInv == ASSUME IInv, NEW p \in Runs, Screen(p) PROVE IInv'
<1>1. PICK fetched \in BOOLEAN :
        /\ IF fetched THEN UNCHANGED faults ELSE Fault("outage")
        /\ \E verd \in IF run[p].date = day THEN {verdict[NextOf(p)]} ELSE Verdicts :
             LET r == After(p, verd, fetched)
             IN  /\ file' = IF CheckpointDue(p, r) THEN Payload(r, "partial") ELSE file
                 /\ mem' = Kept(p, r)
                 /\ run' = [ run EXCEPT ![p] = IF Stops(p) THEN NoRun ELSE r ]
  BY DEF Screen
<1>2. PICK verd \in IF run[p].date = day THEN {verdict[NextOf(p)]} ELSE Verdicts :
        LET r == After(p, verd, fetched)
        IN  /\ file' = IF CheckpointDue(p, r) THEN Payload(r, "partial") ELSE file
            /\ mem' = Kept(p, r)
            /\ run' = [ run EXCEPT ![p] = IF Stops(p) THEN NoRun ELSE r ]
  BY <1>1
<1> DEFINE r == After(p, verd, fetched)
<1>3. /\ On(p) /\ Left(p) # {}
      /\ lastRun' = IF p = "engine" /\ Stops(p) THEN day ELSE lastRun
      /\ UNCHANGED << day, clock, verdict, rolled >>
  BY DEF Screen
<1>4. ~fetched => "outage" \in Faults
  BY <1>1 DEF Fault
<1>5. NextOf(p) \in Universe
  BY <1>3, NextIsLeft DEF Left
<1>6. verd \in Verdicts /\ (run[p].date = day => verd = verdict[NextOf(p)])
  BY <1>2, <1>5 DEF IInv, TypeOK
<1>7. r \in Sieve /\ r.date = run[p].date /\ (r.date = day => Sieved(r) /\ Whole(r))
  BY <1>3, <1>4, <1>6, AfterSieved
<1>8. run[p].date <= day /\ r.date <= day
  BY <1>7 DEF IInv, RunToday
<1>9. /\ file' \in {file, Payload(r, "partial")}
      /\ mem' \in {mem, ListOf(Payload(r, "partial"))}
      /\ mem' # mem => p = "engine"
      /\ run' = [ run EXCEPT ![p] = IF Stops(p) THEN NoRun ELSE r ]
  BY <1>2 DEF Kept
<1> HIDE DEF r
<1>10. TypeOK'
  <2>1. run' \in [Runs -> Sieve]
    BY <1>7, <1>9, Nothing, NewRunTyped DEF IInv
  <2>2. file' \in [ date : 0 .. Days, status : {"not_started", "partial", "complete"},
                    cands : SUBSET Universe, boll : SUBSET Universe,
                    done : SUBSET Universe ]
    BY <1>7, <1>9 DEF IInv, TypeOK, Payload, Sieve
  <2>3. mem' \in List
    BY <1>7, <1>9 DEF IInv, TypeOK, ListOf, Payload, Sieve, List
  <2>4. faults' \in Nat
    BY <1>1 DEF IInv, TypeOK, Fault
  <2>5. QED
    BY <1>3, <2>1, <2>2, <2>3, <2>4 DEF IInv, TypeOK, Sieve
<1>11. FileToday'
  <2>1. CASE file' = file
    BY <1>3, <2>1 DEF IInv, FileToday, Sieved, Whole, Of
  <2>2. CASE file' = Payload(r, "partial")
    BY <1>3, <1>7, <1>8, <2>2 DEF FileToday, Payload, Sieved, Whole, Of
  <2>3. QED
    BY <1>9, <2>1, <2>2
<1>12. \A q \in Runs : run'[q] = IF q = p THEN IF Stops(p) THEN NoRun ELSE r ELSE run[q]
  BY <1>9 DEF IInv, TypeOK
<1>13. RunToday'
  <2> SUFFICES ASSUME NEW q \in Runs
               PROVE  /\ run'[q].date <= day
                      /\ run'[q].date = day => (Sieved(run[q]) /\ Whole(run[q]))'
    BY <1>3 DEF RunToday, Sieved, Whole, Of
  <2>1. CASE run'[q] = run[q]
    BY <1>3, <2>1 DEF IInv, RunToday, Sieved, Whole, Of
  <2>2. CASE run'[q] = r
    BY <1>3, <1>7, <1>8, <2>2 DEF Sieved, Whole, Of
  <2>3. CASE run'[q] = NoRun
    BY <2>3 DEF IInv, TypeOK, NoRun
  <2>4. QED
    BY <1>12, <2>1, <2>2, <2>3
<1>14. EngineToday'
  BY <1>3, <1>7, <1>12 DEF IInv, EngineToday, On, NoRun, Runs
<1>15. MemToday'
  <2>1. CASE mem' = mem
    BY <1>3, <2>1 DEF IInv, MemToday, InMemory, Of
  <2>2. CASE mem' = ListOf(Payload(r, "partial")) /\ p = "engine"
    <3>1. r.date = day
      BY <1>3, <1>7, <2>2 DEF IInv, EngineToday
    <3>2. QED
      BY <1>3, <1>7, <2>2, <3>1
      DEF IInv, TypeOK, MemToday, InMemory, ListOf, Payload, Sieved, Of
  <2>3. QED
    BY <1>9, <2>1, <2>2
<1>16. QED
  BY <1>10, <1>11, <1>13, <1>14, <1>15 DEF IInv

LEMMA StutterInv == ASSUME IInv, UNCHANGED vars PROVE IInv'
<1>1. TypeOK'
  BY DEF IInv, TypeOK, vars
<1>2. FileToday' /\ RunToday' /\ EngineToday' /\ MemToday'
  BY DEF IInv, FileToday, RunToday, EngineToday, MemToday, Sieved, Whole, Of, On,
         InMemory, vars
<1>3. QED
  BY <1>1, <1>2 DEF IInv

LEMMA NextInv == IInv /\ [Next]_vars => IInv'
<1> SUFFICES ASSUME IInv, [Next]_vars PROVE IInv'
  OBVIOUS
<1>1. CASE EngineFindsList \/ EngineStarts \/ ScriptStarts \/ ScriptForced
  BY <1>1, EngineFindsListInv, EngineStartsInv, ScriptStartsInv, ScriptForcedInv
<1>2. CASE DayBegins \/ Scan \/ Restart \/ TimePasses
  BY <1>2, DayBeginsInv, ScanInv, RestartInv, TimePassesInv
<1>3. ASSUME NEW p \in Runs, Screen(p) \/ Completes(p) \/ Aborts(p)
      PROVE  IInv'
  BY <1>3, ScreenInv, CompletesInv, AbortsInv
<1>4. CASE UNCHANGED vars
  BY <1>4, StutterInv
<1>5. QED
  BY <1>1, <1>2, <1>3, <1>4 DEF Next

LEMMA Inductive == Spec => []IInv
<1>1. Init => IInv
  BY InitIInv
<1>2. IInv /\ [Next]_vars => IInv'
  BY NextInv
<1>3. QED
  BY <1>1, <1>2, PTL DEF Spec

\* The file, the lists in memory and the sieves keep to their types.
THEOREM TypeCorrect == Spec => []TypeOK
<1>1. IInv => TypeOK
  BY DEF IInv
<1>2. QED
  BY <1>1, Inductive, PTL

\* However the sieve is interrupted and resumed, get_institutional_scan and the
\* Bollinger scan are offered no symbol that today's bars do not qualify.
THEOREM OffersOnlyQualified == Spec => []OffersQualified
<1>1. IInv => OffersQualified
  <2> SUFFICES ASSUME IInv, Scanning
               PROVE  /\ Listed => Offer \subseteq Of("fits")
                      /\ mem.boll \subseteq Of("reverts")
    BY DEF OffersQualified
  <2>1. mem.boll \subseteq Of("reverts")
    BY DEF IInv, MemToday, Scanning
  <2>2. CASE InMemory
    BY <2>1, <2>2 DEF IInv, MemToday, Offer
  <2>3. CASE ~InMemory /\ Cached(day)
    BY <2>1, <2>3 DEF IInv, TypeOK, FileToday, Sieved, Offer, Read, ListOf, Cached
  <2>4. CASE ~InMemory /\ ~Cached(day)
    BY <2>1, <2>4 DEF Listed
  <2>5. QED
    BY <2>2, <2>3, <2>4
<1>2. QED
  BY <1>1, Inductive, PTL

\* If every history can be fetched, a list that _run_premarket_universe_prefilter has
\* marked complete has every symbol that qualifies, in however many runs it was made.
THEOREM CompleteListIsWhole ==
  ASSUME "outage" \notin Faults
  PROVE  Spec => []CompleteIsWhole
<1>1. IInv => CompleteIsWhole
  <2> SUFFICES ASSUME IInv, file.date = day, file.status = "complete"
               PROVE  file.cands = Of("fits") /\ file.boll = Of("reverts")
    BY DEF CompleteIsWhole
  <2>1. Sieved(file) /\ Whole(file) /\ file.done = Universe
    BY DEF IInv, FileToday
  <2>2. QED
    BY <2>1 DEF Sieved, Whole, Of
<1>2. QED
  BY <1>1, Inductive, PTL

-----------------------------------------------------------------------------
(***************************************************************************)
(* The list grows.  A sieve writes the file whole, from what it has found  *)
(* itself, so what is in the file is kept only if the sieve is ahead of    *)
(* it.  One that has been alone since it began is: it began with the file, *)
(* and none but itself has written it since.                               *)
(***************************************************************************)

OnTogether ==
  \A p, q \in Runs : On(p) /\ On(q) /\ p # q => ~run[p].alone

\* The sieve r has what the file f has, and has not ended.
Ahead(f, r) ==
  /\ f.done \subseteq r.done /\ f.cands \subseteq r.cands
  /\ f.boll \subseteq r.boll /\ f.status # "complete"

RunAhead ==
  \A p \in Runs : On(p) /\ run[p].alone /\ file.date = day
                    => run[p].date = day /\ Ahead(file, run[p])

GrowInv == OnTogether /\ RunAhead

LEMMA InitGrow == Init => GrowInv
BY DEF Init, GrowInv, OnTogether, RunAhead, On, NoRun, Runs

\* A sieve begins with what the file has, if the file is of the day.
LEMMA BeginAhead ==
  ASSUME TypeOK, ~(Cached(day) /\ file.status = "complete"), file.date = day
  PROVE  Ahead(file, Begin(day))
BY DEF TypeOK, Cached, Begin, Ahead

\* The sieve p begins: alone, with what the file has, or beside the other one.
LEMMA BeginsGrow ==
  ASSUME IInv, GrowInv, NEW p \in Runs, NEW heeds \in BOOLEAN, Begins(p, heeds),
         ~On(p), ~(Cached(day) /\ file.status = "complete"),
         UNCHANGED << day, file >>
  PROVE  GrowInv'
<1> USE RunTyped DEF IInv
<1>1. /\ run'[p].alone <=> \A o \in Runs : ~On(o)
      /\ run'[p].date = day /\ run'[p].done = Begin(day).done
      /\ run'[p].cands = Begin(day).cands /\ run'[p].boll = Begin(day).boll
  <2> DEFINE a == \A o \in Runs : ~On(o)
  <2>1. a \in BOOLEAN
    OBVIOUS
  <2>2. run'[p] = [ Begin(day) EXCEPT !.heeds = heeds, !.alone = a ]
    BY BeginsRuns
  <2> HIDE DEF a
  <2>3. run'[p].alone = a
    BY <2>2, BeginTyped DEF Sieve
  <2>4. /\ run'[p].date = day /\ run'[p].done = Begin(day).done
        /\ run'[p].cands = Begin(day).cands /\ run'[p].boll = Begin(day).boll
    BY <2>2, BeginTyped DEF Sieve
  <2>5. QED
    BY <2>3, <2>4 DEF a
<1>2. \A q \in Runs \ {p} : /\ run'[q].date = run[q].date
                            /\ run'[q].alone = ~On(q)
  <2> SUFFICES ASSUME NEW q \in Runs \ {p}
               PROVE  run'[q].date = run[q].date /\ run'[q].alone = ~On(q)
    OBVIOUS
  <2>1. run'[q] = [ run[q] EXCEPT !.alone = ~On(q) ]
    BY BeginsRuns
  <2>2. QED
    BY <2>1 DEF Sieve
<1>3. \A q \in Runs \ {p} : On(q)' <=> On(q)
  BY <1>2 DEF On
<1>4. OnTogether'
  <2> SUFFICES ASSUME NEW q \in Runs, NEW t \in Runs, On(q)', On(t)', q # t
               PROVE  ~run'[q].alone
    BY DEF OnTogether
  <2>1. CASE q = p
    BY <1>1, <1>3, <2>1
  <2>2. CASE q # p
    BY <1>2, <1>3, <2>2
  <2>3. QED
    BY <2>1, <2>2
<1>5. RunAhead'
  <2> SUFFICES ASSUME NEW q \in Runs, On(q)', run'[q].alone, file.date = day
               PROVE  run'[q].date = day /\ Ahead(file, run'[q])
    BY DEF RunAhead
  <2>1. q = p
    BY <1>2, <1>3
  <2>2. QED
    BY <1>1, <2>1, BeginAhead DEF Ahead
<1>6. QED
  BY <1>4, <1>5 DEF GrowInv

\* The sieve p ends, and only it may have written the file.
LEMMA EndsGrow ==
  ASSUME IInv, GrowInv, NEW p \in Runs,
         run' = [ run EXCEPT ![p] = NoRun ], UNCHANGED day,
         On(p) \/ file' = file
  PROVE  GrowInv'
<1>1. \A q \in Runs : run'[q] = IF q = p THEN NoRun ELSE run[q]
  BY DEF IInv, TypeOK
<1>2. OnTogether'
  BY <1>1 DEF GrowInv, OnTogether, On, NoRun
<1>3. RunAhead'
  <2> SUFFICES ASSUME NEW q \in Runs, On(q)', run'[q].alone, file'.date = day
               PROVE  run'[q].date = day /\ Ahead(file', run'[q])
    BY DEF RunAhead
  <2>1. q # p /\ run'[q] = run[q]
    BY <1>1 DEF On, NoRun
  <2>2. On(q)
    BY <2>1 DEF On
  <2>3. ~On(p)
    BY <2>1, <2>2 DEF GrowInv, OnTogether
  <2>4. QED
    BY <2>1, <2>2, <2>3 DEF GrowInv, RunAhead
<1>4. QED
  BY <1>2, <1>3 DEF GrowInv

\* Nothing is screened, written, begun or ended, and time does not pass.
LEMMA AloneGrow ==
  ASSUME GrowInv, UNCHANGED << day, file, run >>
  PROVE  GrowInv'
BY DEF GrowInv, OnTogether, RunAhead, On

LEMMA StartsGrow ==
  ASSUME IInv, GrowInv, EngineStarts \/ ScriptStarts \/ ScriptForced
  PROVE  GrowInv'
<1>1. CASE EngineStarts
  BY <1>1, BeginsGrow DEF EngineStarts, Runs
<1>2. CASE ScriptStarts
  BY <1>2, BeginsGrow DEF ScriptStarts, Runs
<1>3. CASE ScriptForced
  BY <1>3 DEF IInv, TypeOK, ScriptForced, NoFile, GrowInv, OnTogether, RunAhead, On
<1>4. QED
  BY <1>1, <1>2, <1>3

\* No file is dated tomorrow.
LEMMA TimePassesGrow == ASSUME IInv, GrowInv, TimePasses PROVE GrowInv'
<1>1. OnTogether'
  BY DEF GrowInv, OnTogether, TimePasses, On
<1>2. RunAhead'
  <2>1. CASE day' = day
    BY <2>1 DEF GrowInv, RunAhead, TimePasses, On
  <2>2. CASE day' = day + 1
    BY <2>2 DEF IInv, TypeOK, FileToday, RunAhead, TimePasses
  <2>3. QED
    BY <2>1, <2>2 DEF TimePasses
<1>3. QED
  BY <1>1, <1>2 DEF GrowInv

\* A step of Screen: the next symbol s is added, and what a checkpoint writes is
\* what the run then has.
LEMMA Screened ==
  ASSUME IInv, NEW p \in Runs, Screen(p)
  PROVE  \E r \in Sieve :
           /\ r.date = run[p].date /\ r.alone = run[p].alone
           /\ r.done = run[p].done \cup {NextOf(p)}
           /\ NextOf(p) \notin run[p].done
           /\ run[p].cands \subseteq r.cands /\ run[p].boll \subseteq r.boll
           /\ file' \in {file, Payload(r, "partial")}
           /\ run' = [ run EXCEPT ![p] = IF Stops(p) THEN NoRun ELSE r ]
<1>1. PICK fetched \in BOOLEAN :
        \E verd \in IF run[p].date = day THEN {verdict[NextOf(p)]} ELSE Verdicts :
          LET r == After(p, verd, fetched)
          IN  /\ file' = IF CheckpointDue(p, r) THEN Payload(r, "partial") ELSE file
              /\ run' = [ run EXCEPT ![p] = IF Stops(p) THEN NoRun ELSE r ]
  BY DEF Screen
<1>2. PICK verd : LET r == After(p, verd, fetched)
                  IN  /\ file' = IF CheckpointDue(p, r)
                                 THEN Payload(r, "partial") ELSE file
                      /\ run' = [ run EXCEPT ![p] = IF Stops(p) THEN NoRun ELSE r ]
  BY <1>1
<1> DEFINE r == After(p, verd, fetched)
<1>3. NextOf(p) \in Left(p)
  BY NextIsLeft DEF Screen
<1>4. run[p] \in Sieve /\ NextOf(p) \in Universe /\ NextOf(p) \notin run[p].done
  BY <1>3, RunTyped DEF IInv, Left
<1>5. /\ r \in Sieve /\ r.date = run[p].date /\ r.alone = run[p].alone
      /\ r.done = run[p].done \cup {NextOf(p)}
      /\ run[p].cands \subseteq r.cands /\ run[p].boll \subseteq r.boll
  BY <1>4 DEF After, Sieve
<1>6. /\ file' \in {file, Payload(r, "partial")}
      /\ run' = [ run EXCEPT ![p] = IF Stops(p) THEN NoRun ELSE r ]
  BY <1>2
<1> HIDE DEF r
<1>7. QED
  BY <1>4, <1>5, <1>6, Zenon

LEMMA ScreenGrow ==
  ASSUME IInv, GrowInv, NEW p \in Runs, Screen(p)
  PROVE  GrowInv'
<1>1. PICK r \in Sieve :
        /\ r.date = run[p].date /\ r.alone = run[p].alone
        /\ r.done = run[p].done \cup {NextOf(p)}
        /\ run[p].cands \subseteq r.cands /\ run[p].boll \subseteq r.boll
        /\ file' \in {file, Payload(r, "partial")}
        /\ run' = [ run EXCEPT ![p] = IF Stops(p) THEN NoRun ELSE r ]
  BY Screened, Zenon
<1>2. On(p) /\ UNCHANGED day
  BY DEF Screen
<1>3. CASE Stops(p)
  BY <1>1, <1>2, <1>3, EndsGrow
<1>4. CASE ~Stops(p)
  <2>1. \A q \in Runs : run'[q] = IF q = p THEN r ELSE run[q]
    BY <1>1, <1>4 DEF IInv, TypeOK
  <2>2. \A q \in Runs : On(q)' <=> On(q)
    BY <1>1, <2>1 DEF On
  <2>3. OnTogether'
    BY <1>1, <2>1, <2>2 DEF GrowInv, OnTogether
  <2>4. RunAhead'
    <3> SUFFICES ASSUME NEW q \in Runs, On(q), run'[q].alone, file'.date = day
                 PROVE  run'[q].date = day /\ Ahead(file', run'[q])
      BY <1>2, <2>2 DEF RunAhead
    <3>1. q = p /\ run'[q] = r
      BY <1>1, <1>2, <2>1 DEF GrowInv, OnTogether
    <3>2. CASE file' = file
      <4>1. run[p].date = day /\ Ahead(file, run[p])
        BY <1>1, <1>2, <3>1, <3>2 DEF GrowInv, RunAhead
      <4>2. QED
        BY <1>1, <3>1, <3>2, <4>1 DEF Ahead
    <3>3. CASE file' = Payload(r, "partial")
      BY <1>1, <3>1, <3>3 DEF Ahead, Payload
    <3>4. QED
      BY <1>1, <3>2, <3>3
  <2>5. QED
    BY <2>3, <2>4 DEF GrowInv
<1>5. QED
  BY <1>3, <1>4

LEMMA NextGrow == IInv /\ GrowInv /\ [Next]_vars => GrowInv'
<1> SUFFICES ASSUME IInv, GrowInv, [Next]_vars PROVE GrowInv'
  OBVIOUS
<1>1. CASE EngineFindsList \/ DayBegins \/ Scan \/ UNCHANGED vars
  BY <1>1, AloneGrow DEF EngineFindsList, DayBegins, Scan, vars
<1>2. CASE EngineStarts \/ ScriptStarts \/ ScriptForced
  BY <1>2, StartsGrow
<1>3. CASE Restart
  BY <1>3, EndsGrow DEF Restart, Runs
<1>4. CASE TimePasses
  BY <1>4, TimePassesGrow
<1>5. ASSUME NEW p \in Runs, Screen(p)
      PROVE  GrowInv'
  BY <1>5, ScreenGrow
<1>6. ASSUME NEW p \in Runs, Completes(p) \/ Aborts(p)
      PROVE  GrowInv'
  BY <1>6, EndsGrow DEF Completes, Aborts
<1>7. QED
  BY <1>1, <1>2, <1>3, <1>4, <1>5, <1>6 DEF Next

LEMMA GrowInductive == Spec => [](IInv /\ GrowInv)
<1>1. Init => GrowInv
  BY InitGrow
<1>2. IInv /\ GrowInv /\ [Next]_vars => GrowInv'
  BY NextGrow
<1>3. QED
  BY <1>1, <1>2, Inductive, PTL DEF Spec

NothingTwice ==
  \A p \in Runs :
    run'[p].date = day /\ On(p) /\ run[p].alone /\ file.date = day
      => (run'[p].done \ run[p].done) \cap file.done = {}

Grown == NoneBeside /\ file.date = day /\ file'.date # 0 => Grows

LEMMA ScreenKeeps ==
  ASSUME IInv, GrowInv, NEW p \in Runs, Screen(p)
  PROVE  NothingTwice /\ Grown
<1>1. PICK r \in Sieve :
        /\ r.date = run[p].date /\ r.alone = run[p].alone
        /\ r.done = run[p].done \cup {NextOf(p)}
        /\ NextOf(p) \notin run[p].done
        /\ run[p].cands \subseteq r.cands /\ run[p].boll \subseteq r.boll
        /\ file' \in {file, Payload(r, "partial")}
        /\ run' = [ run EXCEPT ![p] = IF Stops(p) THEN NoRun ELSE r ]
  BY Screened, Zenon
<1>2. On(p) /\ UNCHANGED day
  BY DEF Screen
<1>3. \A q \in Runs : run'[q] = IF q = p THEN IF Stops(p) THEN NoRun ELSE r
                                         ELSE run[q]
  BY <1>1 DEF IInv, TypeOK
<1>4. run[p].alone /\ file.date = day
        => run[p].date = day /\ Ahead(file, run[p])
  BY <1>2 DEF GrowInv, RunAhead
<1>5. Grown
  <2>1. CASE file' = file
    BY <2>1 DEF Grown, Grows
  <2>2. CASE file' = Payload(r, "partial")
    BY <1>1, <1>2, <1>4, <2>2 DEF Grown, Grows, NoneBeside, Payload, Ahead
  <2>3. QED
    BY <1>1, <2>1, <2>2
<1>6. NothingTwice
  <2> SUFFICES ASSUME NEW q \in Runs, run'[q].date = day, On(q), run[q].alone,
                      file.date = day
               PROVE  (run'[q].done \ run[q].done) \cap file.done = {}
    BY DEF NothingTwice
  <2>1. CASE run'[q] = run[q]
    BY <2>1
  <2>2. CASE q = p /\ run'[q] = r
    <3>1. NextOf(p) \notin file.done \/ NextOf(p) \in run[p].done
      BY <1>1, <1>4, <2>2 DEF Ahead
    <3>2. QED
      BY <1>1, <1>4, <2>2 DEF Ahead
  <2>3. CASE q = p /\ run'[q] = NoRun
    BY <2>3 DEF NoRun
  <2>4. QED
    BY <1>3, <2>1, <2>2, <2>3
<1>7. QED
  BY <1>5, <1>6

LEMMA BeginsKeep ==
  ASSUME IInv, NEW p \in Runs, NEW heeds \in BOOLEAN, Begins(p, heeds), ~On(p),
         UNCHANGED << day, file >>
  PROVE  NothingTwice /\ Grown
<1>1. Grown
  BY DEF Grown, Grows
<1>2. \A q \in Runs \ {p} : run'[q].done = run[q].done
  <2> SUFFICES ASSUME NEW q \in Runs \ {p} PROVE run'[q].done = run[q].done
    OBVIOUS
  <2>1. run'[q] = [ run[q] EXCEPT !.alone = ~On(q) ]
    BY BeginsRuns DEF IInv
  <2>2. QED
    BY <2>1, RunTyped DEF IInv, Sieve
<1>3. QED
  BY <1>1, <1>2 DEF NothingTwice

LEMMA StepKeeps == IInv /\ GrowInv /\ [Next]_vars => NothingTwice /\ Grown
<1> SUFFICES ASSUME IInv, GrowInv, [Next]_vars PROVE NothingTwice /\ Grown
  OBVIOUS
<1>1. CASE EngineFindsList \/ DayBegins \/ Scan \/ TimePasses \/ UNCHANGED vars
  BY <1>1 DEF EngineFindsList, DayBegins, Scan, TimePasses, vars, NothingTwice, Grown,
         Grows
<1>2. CASE EngineStarts
  BY <1>2, BeginsKeep DEF EngineStarts, Runs
<1>3. CASE ScriptStarts
  BY <1>3, BeginsKeep DEF ScriptStarts, Runs
<1>4. CASE ScriptForced
  BY <1>4 DEF IInv, TypeOK, ScriptForced, NothingTwice, Grown, NoFile, Runs
<1>5. CASE Restart
  BY <1>5 DEF IInv, TypeOK, Restart, NothingTwice, Grown, Grows, NoRun,
              Runs
<1>6. ASSUME NEW p \in Runs, Screen(p)
      PROVE  NothingTwice /\ Grown
  BY <1>6, ScreenKeeps
<1>7. ASSUME NEW p \in Runs, Completes(p)
      PROVE  NothingTwice /\ Grown
  <2>1. run' = [ run EXCEPT ![p] = NoRun ] /\ On(p)
        /\ file' = Payload(run[p], "complete")
    BY <1>7 DEF Completes
  <2>2. NothingTwice
    BY <2>1 DEF IInv, TypeOK, NothingTwice, NoRun
  <2>3. run[p].alone /\ file.date = day
          => run[p].date = day /\ Ahead(file, run[p])
    BY <2>1 DEF GrowInv, RunAhead
  <2>4. Grown
    BY <2>1, <2>3 DEF Grown, Grows, NoneBeside, Payload, Ahead
  <2>5. QED
    BY <2>2, <2>4
<1>8. ASSUME NEW p \in Runs, Aborts(p)
      PROVE  NothingTwice /\ Grown
  BY <1>8 DEF IInv, TypeOK, Aborts, NothingTwice, Grown, Grows, NoRun
<1>9. QED
  BY <1>1, <1>2, <1>3, <1>4, <1>5, <1>6, <1>7, <1>8 DEF Next

\* A symbol that a checkpoint of the day has is not fetched from the broker again by
\* a run that _run_premarket_universe_prefilter resumes, the engine's or the
\* script's, if no other was on beside it.
THEOREM NothingScreenedTwice == Spec => NotScreenedTwice
<1>1. IInv /\ GrowInv /\ [Next]_vars => [NothingTwice]_vars
  BY StepKeeps
<1>2. QED
  BY <1>1, GrowInductive, PTL DEF Spec, NotScreenedTwice, NothingTwice

\* No interruption, restart or later run takes a symbol from the file of the day,
\* makes a complete list partial or the file another day's: only the operator's
\* --force does, and two sieves that are on at once.
THEOREM TheListGrows == Spec => ListOnlyGrows
<1>1. IInv /\ GrowInv /\ [Next]_vars => [Grown]_vars
  BY StepKeeps
<1>2. QED
  BY <1>1, GrowInductive, PTL DEF Spec, ListOnlyGrows, Grown
=============================================================================
