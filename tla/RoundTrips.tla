------------------------------ MODULE RoundTrips ------------------------------
(***************************************************************************)
(* What the trade ledger promises of its history, without its file, the    *)
(* engine's records, snapshots or restarts: every position that was opened *)
(* and has ended gets its row, and no row is written for a position that   *)
(* is still open.  A row normally descends from the open record of its own *)
(* position; a row without one is marked (entry 0), and only such a row    *)
(* may repeat a position that already has a row.  PositionBooks is shown   *)
(* to implement this.                                                      *)
(***************************************************************************)
EXTENDS Integers, Sequences

CONSTANT Symbols

VARIABLES
  held,     \* does the account hold the symbol
  trips,    \* how many positions in it were opened so far
  history   \* the closed rows, oldest first: [of, entry]

rtVars == << held, trips, history >>

\* A row about position number of, built from the open record of position entry.
Row(of, entry) == [ of |-> of, entry |-> entry ]

RowsOf(h) == { h[i].of : i \in DOMAIN h }

\* The positions in s that have ended.
Finished(s) == { t \in 1 .. trips[s] : t < trips[s] \/ ~held[s] }

Init ==
  /\ held = [ s \in Symbols |-> FALSE ]
  /\ trips = [ s \in Symbols |-> 0 ]
  /\ history = [ s \in Symbols |-> << >> ]

Buy(s) ==
  /\ ~held[s]
  /\ held' = [ held EXCEPT ![s] = TRUE ]
  /\ trips' = [ trips EXCEPT ![s] = @ + 1 ]
  /\ UNCHANGED history

Sell(s) ==
  /\ held[s]
  /\ held' = [ held EXCEPT ![s] = FALSE ]
  /\ UNCHANGED << trips, history >>

\* The row of a position that has none: from its own open record, or marked.
Account(s) ==
  \E t \in Finished(s) \ RowsOf(history[s]) : \E e \in {0, t} :
    /\ history' = [ history EXCEPT ![s] = Append(@, Row(t, e)) ]
    /\ UNCHANGED << held, trips >>

\* A position accounted for is closed again, after a crash: the row is marked.
Repeat(s) ==
  \E t \in RowsOf(history[s]) :
    /\ history' = [ history EXCEPT ![s] = Append(@, Row(t, 0)) ]
    /\ UNCHANGED << held, trips >>

Next == \E s \in Symbols : Buy(s) \/ Sell(s) \/ Account(s) \/ Repeat(s)

Spec == Init /\ [][Next]_rtVars
===============================================================================
