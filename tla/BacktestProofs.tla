---------------------------- MODULE BacktestProofs ----------------------------
(***************************************************************************)
(* The backtest's loop for every set of symbols, period, account and data: *)
(* types, cash, solvency, settlement, entries and the end of the curve.    *)
(*                                                                         *)
(* The account is a matter of sums over symbols and days.  The community   *)
(* modules' MapThenSumSet recurses on subsets; what a change of one        *)
(* summand does to such a sum is derived first, from the fact that a set   *)
(* of finite sets has a smallest element.                                  *)
(***************************************************************************)
EXTENDS Backtest, FiniteSetTheorems, WellFoundedInduction, TLAPS

-----------------------------------------------------------------------------
(* Sums. *)

Pick(U) == CHOOSE x \in U : TRUE

\* The function that MapThenSumSet recurses on: g[U] is the sum of f over U.
SumsOf(g, f, S) ==
  g = [ U \in SUBSET S |-> IF U = {} THEN 0 ELSE f[Pick(U)] + g[U \ {Pick(U)}] ]

\* A set of subsets of a finite set has a smallest one: the provers' way to an induction.
LEMMA SmallestSet ==
  ASSUME NEW S, IsFiniteSet(S), NEW A \in SUBSET SUBSET S, A # {}
  PROVE  \E U \in A : \A V \in A : V \subseteq U => V = U
<1>1. IsWellFoundedOn(StrictSubsetOrdering(S), SUBSET S)
  BY FS_StrictSubsetOrderingWellFounded, FS_FiniteSubsetsOfFinite
<1>2. PICK U \in A : \A V \in A : << V, U >> \notin StrictSubsetOrdering(S)
  BY <1>1, WFMin
<1>3. QED
  BY <1>2 DEF StrictSubsetOrdering

LEMMA PickIn == ASSUME NEW U, U # {} PROVE Pick(U) \in U
BY DEF Pick

\* There is one such function and no other.
LEMMA SumsAgree ==
  ASSUME NEW f, NEW S, NEW T, IsFiniteSet(S), NEW g, NEW h, SumsOf(g, f, S),
         SumsOf(h, f, T)
  PROVE  \A U \in SUBSET (S \cap T) : g[U] = h[U]
<1> DEFINE Bad == { U \in SUBSET (S \cap T) : g[U] # h[U] }
<1>1. SUFFICES ASSUME Bad # {} PROVE FALSE
  OBVIOUS
<1>2. Bad \in SUBSET SUBSET S
  OBVIOUS
<1>3. PICK U \in Bad : \A V \in Bad : V \subseteq U => V = U
  <2> HIDE DEF Bad
  <2> QED BY <1>1, <1>2, SmallestSet
<1>4. U # {} 
  BY <1>3 DEF SumsOf
<1>5. Pick(U) \in U
  BY <1>4, PickIn
<1>6. g[U \ {Pick(U)}] = h[U \ {Pick(U)}]
  BY <1>3, <1>5
<1>7. g[U] = h[U]
  BY <1>4, <1>6 DEF SumsOf
<1>8. QED
  BY <1>3, <1>7

LEMMA SumsExist ==
  ASSUME NEW f, NEW S, IsFiniteSet(S)
  PROVE  \E g : SumsOf(g, f, S)
<1> DEFINE Bad == { T \in SUBSET S : ~ \E g : SumsOf(g, f, T) }
<1>1. SUFFICES ASSUME Bad # {} PROVE FALSE
  OBVIOUS
<1>2. Bad \in SUBSET SUBSET S
  OBVIOUS
<1>3. PICK T \in Bad : \A V \in Bad : V \subseteq T => V = T
  <2> HIDE DEF Bad
  <2> QED BY <1>1, <1>2, SmallestSet
<1> DEFINE H(V) == CHOOSE g : SumsOf(g, f, V)
           G == [ U \in SUBSET T |-> IF U = {} THEN 0
                     ELSE f[Pick(U)] + H(U \ {Pick(U)})[U \ {Pick(U)}] ]
<1>4. \A V \in SUBSET T : V # T => SumsOf(H(V), f, V)
  BY <1>3
<1>5. \A V \in SUBSET T : IsFiniteSet(V)
  BY FS_Subset
<1>6. ASSUME NEW V \in SUBSET T, V # T PROVE G[V] = H(V)[V]
  <2>1. SumsOf(H(V), f, V)
    BY <1>4, <1>6
  <2>2. CASE V = {}
    BY <2>1, <2>2 DEF SumsOf
  <2>3. CASE V # {}
    <3>1. Pick(V) \in V
      BY <2>3, PickIn
    <3> DEFINE P == V \ {Pick(V)}
    <3>2. P \in SUBSET T /\ P # T /\ P \in SUBSET (V \cap P)
      BY <3>1, <1>6
    <3>3. SumsOf(H(P), f, P)
      BY <1>4, <3>2
    <3>4. H(V)[P] = H(P)[P]
      <4> HIDE DEF P, H
      <4> QED BY <1>5, <1>6, <2>1, <3>2, <3>3, SumsAgree
    <3>5. H(V)[V] = f[Pick(V)] + H(V)[P]
      <4> HIDE DEF H
      <4> QED BY <2>1, <2>3 DEF SumsOf
    <3>6. G[V] = f[Pick(V)] + H(P)[P]
      <4> HIDE DEF H
      <4> QED BY <1>6, <2>3
    <3>7. QED
      BY <3>4, <3>5, <3>6
  <2>4. QED
    BY <2>2, <2>3
<1>7. SumsOf(G, f, T)
  <2>1. ASSUME NEW U \in SUBSET T, U # {}
        PROVE  G[U] = f[Pick(U)] + G[U \ {Pick(U)}]
    <3>1. Pick(U) \in U
      BY <2>1, PickIn
    <3>2. U \ {Pick(U)} \in SUBSET T /\ U \ {Pick(U)} # T
      BY <3>1
    <3>3. G[U \ {Pick(U)}] = H(U \ {Pick(U)})[U \ {Pick(U)}]
      <4> HIDE DEF G, H
      <4> QED BY <3>2, <1>6
    <3>4. G[U] = f[Pick(U)] + H(U \ {Pick(U)})[U \ {Pick(U)}]
      <4> HIDE DEF H
      <4> QED BY <2>1
    <3>5. QED
      BY <3>3, <3>4
  <2>2. G[{}] = 0
    <3> HIDE DEF H
    <3> QED OBVIOUS
  <2>3. G = [ U \in SUBSET T |-> G[U] ]
    <3> HIDE DEF H
    <3> QED OBVIOUS
  <2>4. QED
    <3> HIDE DEF G
    <3> QED BY <2>1, <2>2, <2>3 DEF SumsOf
<1>8. QED
  BY <1>3, <1>7

LEMMA TotalSums ==
  ASSUME NEW f, IsFiniteSet(DOMAIN f)
  PROVE  \E g : SumsOf(g, f, DOMAIN f) /\ Total(f) = g[DOMAIN f]
<1> DEFINE S == DOMAIN f
           Iter == CHOOSE g : g = [ U \in SUBSET S |-> IF U = {} THEN 0
                                  ELSE f[Pick(U)] + g[U \ {Pick(U)}] ]
<1>1. Total(f) = Iter[S]
  BY DEF Total, MapThenSumSet, MapThenFoldSet, Pick
<1>2. PICK h : SumsOf(h, f, S)
  BY SumsExist
<1>3. h = [ U \in SUBSET S |-> IF U = {} THEN 0 ELSE f[Pick(U)] + h[U \ {Pick(U)}] ]
  BY <1>2 DEF SumsOf
<1>4. Iter = [ U \in SUBSET S |-> IF U = {} THEN 0 ELSE f[Pick(U)] + Iter[U \ {Pick(U)}] ]
  BY <1>3
<1>5. QED
  <2> HIDE DEF Iter
  <2> QED BY <1>1, <1>4 DEF SumsOf

\* The sum of integers over a finite set is an integer.
LEMMA TotalType ==
  ASSUME NEW S, IsFiniteSet(S), NEW f \in [S -> Int]
  PROVE  Total(f) \in Int
<1>0. DOMAIN f = S
  OBVIOUS
<1>1. PICK g : SumsOf(g, f, S) /\ Total(f) = g[S]
  BY <1>0, TotalSums
<1> DEFINE Bad == { U \in SUBSET S : g[U] \notin Int }
<1>2. SUFFICES ASSUME Bad # {} PROVE FALSE
  BY <1>1
<1>3. Bad \in SUBSET SUBSET S
  OBVIOUS
<1>4. PICK U \in Bad : \A V \in Bad : V \subseteq U => V = U
  <2> HIDE DEF Bad
  <2> QED BY <1>2, <1>3, SmallestSet
<1>5. U # {}
  BY <1>1, <1>4 DEF SumsOf
<1>6. Pick(U) \in U
  BY <1>5, PickIn
<1>7. g[U \ {Pick(U)}] \in Int
  BY <1>4, <1>6
<1>8. g[U] \in Int
  <2>1. g[U] = f[Pick(U)] + g[U \ {Pick(U)}]
    BY <1>1, <1>4, <1>5 DEF SumsOf
  <2>2. f[Pick(U)] \in Int
    BY <1>4, <1>6
  <2>3. QED
    BY <2>1, <2>2, <1>7
<1>9. QED
  BY <1>4, <1>8

\* A change of one summand changes the sum by as much.
LEMMA TotalChange ==
  ASSUME NEW S, IsFiniteSet(S), NEW f \in [S -> Int], NEW x \in S, NEW v \in Int
  PROVE  Total([f EXCEPT ![x] = v]) = Total(f) + v - f[x]
<1> DEFINE k == [f EXCEPT ![x] = v]
<1>0. /\ k \in [S -> Int] /\ DOMAIN k = S /\ DOMAIN f = S
      /\ k[x] = v /\ \A y \in S \ {x} : k[y] = f[y]
  OBVIOUS
<1> HIDE DEF k
<1>1. PICK g : SumsOf(g, f, S) /\ Total(f) = g[S]
  BY <1>0, TotalSums
<1>2. PICK h : SumsOf(h, k, S) /\ Total(k) = h[S]
  BY <1>0, TotalSums
<1> DEFINE Good(U) == /\ g[U] \in Int /\ h[U] \in Int
                      /\ h[U] = g[U] + (IF x \in U THEN v - f[x] ELSE 0)
           Bad == { U \in SUBSET S : ~Good(U) }
<1>3. SUFFICES ASSUME Bad # {} PROVE FALSE
  <2>1. S \notin Bad => Good(S)
    OBVIOUS
  <2>2. QED
    BY <2>1, <1>0, <1>1, <1>2 DEF k
<1>4. Bad \in SUBSET SUBSET S
  OBVIOUS
<1>5. PICK U \in Bad : \A V \in Bad : V \subseteq U => V = U
  <2> HIDE DEF Bad
  <2> QED BY <1>3, <1>4, SmallestSet
<1>6. U # {}
  BY <1>1, <1>2, <1>5 DEF SumsOf
<1>7. Pick(U) \in U /\ Pick(U) \in S
  BY <1>5, <1>6, PickIn
<1> DEFINE P == U \ {Pick(U)}
<1>8. Good(P)
  BY <1>5, <1>7
<1>9. g[U] = f[Pick(U)] + g[P] /\ h[U] = k[Pick(U)] + h[P]
  BY <1>1, <1>2, <1>5, <1>6 DEF SumsOf
<1>10. x \in U <=> (x \in P \/ x = Pick(U))
  BY <1>7
<1>11. x \in P => x # Pick(U)
  OBVIOUS
<1> HIDE DEF P
<1>12. Good(U)
  BY <1>0, <1>7, <1>8, <1>9, <1>10, <1>11
<1>13. QED
  BY <1>5, <1>12

\* The sum of nothing but zeros is zero.
LEMMA TotalZero ==
  ASSUME NEW S, IsFiniteSet(S), NEW f \in [S -> Int], \A y \in S : f[y] = 0
  PROVE  Total(f) = 0
<1>0. DOMAIN f = S
  OBVIOUS
<1>1. PICK g : SumsOf(g, f, S) /\ Total(f) = g[S]
  BY <1>0, TotalSums
<1> DEFINE Bad == { U \in SUBSET S : g[U] # 0 }
<1>2. SUFFICES ASSUME Bad # {} PROVE FALSE
  BY <1>1
<1>3. Bad \in SUBSET SUBSET S
  OBVIOUS
<1>4. PICK U \in Bad : \A V \in Bad : V \subseteq U => V = U
  <2> HIDE DEF Bad
  <2> QED BY <1>2, <1>3, SmallestSet
<1>5. U # {}
  BY <1>1, <1>4 DEF SumsOf
<1>6. Pick(U) \in U
  BY <1>5, PickIn
<1>7. g[U \ {Pick(U)}] = 0
  BY <1>4, <1>6
<1>8. g[U] = 0
  <2>1. g[U] = f[Pick(U)] + g[U \ {Pick(U)}]
    BY <1>1, <1>4, <1>5 DEF SumsOf
  <2>2. f[Pick(U)] = 0
    BY <1>4, <1>6
  <2>3. QED
    BY <2>1, <2>2, <1>7
<1>9. QED
  BY <1>4, <1>8

-----------------------------------------------------------------------------
(* Settlement. *)

LEMMA Given ==
  /\ Days \in Nat /\ Days > 0 /\ GapDays \in Nat /\ GapDays > 0 /\ Capital \in Nat
  /\ TrailPct \in 0 .. 100 /\ HardPct \in 0 .. 100 /\ Slippage \in Nat /\ Fee \in Nat
  /\ RiskPct \in Nat /\ BearRiskPct \in Nat /\ IsFiniteSet(Symbols)
BY BacktestAssumption, SizesAssumption

\* The days are those of the period, and the loop is in one of them when it closes
\* a trade.
Calendar ==
  /\ today \in 0 .. Days /\ (phase # "morning" => today > 0)
  /\ pending = [ d \in Day |-> pending[d] ]

Settling == Calendar /\ SettlesLater

LEMMA InitSettling == Init => Settling
BY Given DEF Init, Settling, Calendar, SettlesLater, Day

\* Proceeds go to a later day, or to the last.
LEMMA CloseInv ==
  ASSUME Settling, NEW s \in Symbols, NEW price, Close(s, price), phase # "morning",
         UNCHANGED << today, phase >>
  PROVE  Settling'
<1> DEFINE next == NextSession(today)
           credit == pending[next] + price * open[s].qty - Fee
<1>1. today \in 1 .. Days
  BY Given DEF Settling, Calendar
<1>2. next \in Day /\ (next > today \/ next = Days)
  BY <1>1, Given DEF NextSession, Day
<1>3. pending' = [ pending EXCEPT ![next] = credit ]
  BY DEF Close
<1> HIDE DEF next, credit
<1>4. /\ pending' = [ d \in Day |-> pending'[d] ]
      /\ \A d \in Day : d # next => pending'[d] = pending[d]
  BY <1>2, <1>3 DEF Settling, Calendar
<1>5. Calendar'
  BY <1>4 DEF Settling, Calendar
<1>6. SettlesLater'
  BY <1>2, <1>4 DEF Settling, SettlesLater
<1>7. QED
  BY <1>5, <1>6 DEF Settling

\* What is due today leaves pending_settlements before the day goes on.
LEMMA MorningInv == ASSUME Settling, Morning PROVE Settling'
<1>1. /\ today' = today + 1 /\ today' \in 1 .. Days
      /\ pending' = [ pending EXCEPT ![today + 1] = 0 ]
  BY Given DEF Settling, Calendar, Morning
<1>2. /\ pending' = [ d \in Day |-> pending'[d] ]
      /\ \A d \in Day : pending'[d] = IF d = today + 1 THEN 0 ELSE pending[d]
  BY <1>1 DEF Settling, Calendar
<1>3. Calendar'
  BY <1>1, <1>2, Given DEF Calendar
<1>4. SettlesLater'
  BY <1>1, <1>2, Given DEF Settling, Calendar, SettlesLater, Day
<1>5. QED
  BY <1>3, <1>4 DEF Settling

\* Every other step leaves pending_settlements alone, and the day.
LEMMA QuietInv ==
  ASSUME Settling, UNCHANGED << today, pending >>, phase' # "morning" => today > 0
  PROVE  Settling'
BY DEF Settling, Calendar, SettlesLater

LEMMA NextInv == Settling /\ [Next]_vars => Settling'
<1> SUFFICES ASSUME Settling, [Next]_vars PROVE Settling'
  OBVIOUS
<1>1. CASE RegimeAllows \/ RegimeBlocks \/ Report
  BY <1>1, QuietInv DEF Settling, Calendar, RegimeAllows, RegimeBlocks, Report, ExitsDone
<1>2. CASE DayEnds
  BY <1>2, QuietInv DEF Settling, Calendar, DayEnds
<1>3. ASSUME NEW s \in Symbols,
             DataGap(s) \/ StopHit(s) \/ ExitAtClose(s) \/ Survives(s)
      PROVE  Settling'
  <2>1. phase = "exits" /\ UNCHANGED << today, phase >>
    BY <1>3 DEF DataGap, StopHit, ExitAtClose, Survives, LookedAt
  <2>2. (\E price : Close(s, price)) \/ UNCHANGED pending
    BY <1>3, Zenon DEF DataGap, StopHit, ExitAtClose, Survives
  <2>3. QED
    BY <2>1, <2>2, CloseInv, QuietInv DEF Settling, Calendar
<1>4. ASSUME NEW s \in Symbols, Enter(s) \/ EndOfPeriod(s)
      PROVE  Settling'
  BY <1>4, QuietInv DEF Settling, Calendar, Enter, EndOfPeriod
<1>5. CASE UNCHANGED vars
  BY <1>5, QuietInv DEF Settling, Calendar, vars
<1>6. QED
  BY <1>1, <1>2, <1>3, <1>4, <1>5, MorningInv DEF Next

-----------------------------------------------------------------------------
(* The state of the loop. *)

\* What the loop keeps of its positions from phase to phase: only positions are looked
\* at, a trade has at most one bar a day, and a bar of today ends a data gap.
Booked ==
  /\ TypeOK
  /\ phase # "morning" => today > 0
  /\ \A s \in Symbols : open[s].bars <= today
  /\ phase = "exits" => \A s \in todo : open[s].qty > 0 /\ open[s].bars < today
  /\ phase \in {"period", "done"} => todo = Held
  /\ phase = "done" => todo = {}


\* A bar is one of prices, and the low is the least of them.
LEMMA BarPrices ==
  ASSUME TypeOK, NEW s \in Symbols
  PROVE  /\ bar[s].open \in Nat /\ bar[s].high \in Nat /\ bar[s].low \in Nat
         /\ bar[s].close \in Nat
         /\ HasBar(s) => bar[s] \in Bars /\ bar[s].low <= bar[s].open
                         /\ bar[s].low <= bar[s].close
<1>1. CASE bar[s] = NoBar
  BY <1>1 DEF NoBar, HasBar
<1>2. CASE bar[s] # NoBar
  <2>1. bar[s] \in Bars
    BY <1>2 DEF TypeOK
  <2>2. bar[s] \in [ open : Nat \ {0}, high : Nat \ {0}, low : Nat \ {0},
                     close : Nat \ {0} ]
    BY <2>1, BacktestAssumption
  <2>3. QED
    BY <2>1, <2>2, BacktestAssumption
<1>3. QED
  BY <1>1, <1>2

LEMMA InTrade ==
  ASSUME TypeOK, NEW s \in Symbols
  PROVE  /\ open[s] \in Trade
         /\ open[s].qty \in Nat /\ open[s].entry \in Nat /\ open[s].peak \in Nat
         /\ open[s].last \in Nat /\ open[s].gaps \in 0 .. GapDays - 1
         /\ open[s].bars \in 0 .. Days
BY DEF TypeOK, Trade

LEMMA NoTradeInTrade ==
  NoTrade \in Trade /\ NoTrade.qty = 0 /\ NoTrade.entry = 0 /\ NoTrade.bars = 0
BY Given DEF NoTrade, Trade

\* mark_to_market changes the last price of a position and nothing else.
LEMMA RefreshedTrade ==
  ASSUME TypeOK
  PROVE  /\ Refreshed \in [Symbols -> Trade]
         /\ \A s \in Symbols :
              /\ Refreshed[s].qty = open[s].qty /\ Refreshed[s].entry = open[s].entry
              /\ Refreshed[s].gaps = open[s].gaps /\ Refreshed[s].bars = open[s].bars
              /\ Refreshed[s].last = open[s].last
                   \/ (HasBar(s) /\ Refreshed[s].last = bar[s].close)
<1>1. ASSUME NEW s \in Symbols
      PROVE  /\ Refreshed[s] \in Trade
             /\ Refreshed[s].qty = open[s].qty /\ Refreshed[s].entry = open[s].entry
             /\ Refreshed[s].gaps = open[s].gaps /\ Refreshed[s].bars = open[s].bars
             /\ Refreshed[s].last = open[s].last
                  \/ (HasBar(s) /\ Refreshed[s].last = bar[s].close)
  <2>1. CASE s \in Held /\ HasBar(s)
    <3>1. Refreshed[s] = [ open[s] EXCEPT !.last = bar[s].close ]
      BY <2>1 DEF Refreshed
    <3>2. Refreshed[s] =
            [ qty |-> open[s].qty, entry |-> open[s].entry, peak |-> open[s].peak,
              last |-> bar[s].close, gaps |-> open[s].gaps, bars |-> open[s].bars ]
      BY <3>1, InTrade DEF Trade
    <3>3. QED
      BY <2>1, <3>2, InTrade, BarPrices DEF Trade
  <2>2. CASE ~ (s \in Held /\ HasBar(s))
    <3>1. Refreshed[s] = open[s]
      BY <2>2 DEF Refreshed
    <3>2. QED
      BY <3>1, InTrade
  <2>3. QED
    BY <2>1, <2>2
<1>2. Refreshed = [ s \in Symbols |-> Refreshed[s] ]
  BY DEF Refreshed
<1>3. QED
  BY <1>1, <1>2

LEMMA InitBooked == Init => Booked
<1> SUFFICES ASSUME Init PROVE Booked
  OBVIOUS
<1>1. \A s \in Symbols : open[s] = NoTrade
  BY DEF Init
<1>2. open \in [Symbols -> Trade]
  BY NoTradeInTrade DEF Init
<1>3. TypeOK
  BY <1>2, Given DEF Init, TypeOK, Day
<1>4. QED
  BY <1>1, <1>3, NoTradeInTrade DEF Init, Booked

\* One trade is replaced by another, of today at the latest.
LEMMA OneTrade ==
  ASSUME TypeOK, NEW s \in Symbols, NEW t \in Trade, open' = [ open EXCEPT ![s] = t ]
  PROVE  /\ open' \in [Symbols -> Trade] /\ open'[s] = t
         /\ \A x \in Symbols \ {s} : open'[x] = open[x]
BY DEF TypeOK

LEMMA SessionInDay ==
  ASSUME Booked, phase # "morning" PROVE NextSession(today) \in Day
BY Given DEF Booked, TypeOK, NextSession, Day

LEMMA StopType ==
  ASSUME TypeOK, NEW s \in Symbols PROVE Stop(open[s]) \in Nat
<1> DEFINE trail == (open[s].peak * (100 - TrailPct)) \div 100
           hard  == (open[s].entry * (100 - HardPct)) \div 100
<1>1. open[s].peak * (100 - TrailPct) \in Nat /\ open[s].entry * (100 - HardPct) \in Nat
  <2>1. 100 - TrailPct \in Nat /\ 100 - HardPct \in Nat
    BY Given
  <2>2. \A m, n \in Nat : m * n \in Nat
    OBVIOUS
  <2>3. QED
    BY <2>1, <2>2, InTrade
<1>2. \A n \in Nat : n \div 100 \in Nat
  OBVIOUS
<1>3. trail \in Nat /\ hard \in Nat
  BY <1>1, <1>2
<1>4. QED
  BY <1>3 DEF Stop

LEMMA StopFillType ==
  ASSUME TypeOK, NEW s \in Symbols PROVE StopFill(bar[s], Stop(open[s])) \in Nat
<1> DEFINE stop == Stop(open[s])
<1>1. stop \in Nat /\ bar[s].open \in Nat
  BY StopType, BarPrices
<1> HIDE DEF stop
<1>2. StopFill(bar[s], stop) \in Nat
  BY <1>1, Given DEF StopFill, Minus
<1>3. QED
  BY <1>2 DEF stop

\* A sale of an open position, at any price.
LEMMA CloseBooked ==
  ASSUME Booked, NEW s \in Symbols, NEW price \in Nat, LookedAt(s), Close(s, price)
  PROVE  Booked'
<1> DEFINE next   == NextSession(today)
           credit == pending[next] + price * open[s].qty - Fee
           gain   == (price - open[s].entry) * open[s].qty - Fee
<1>1. next \in Day
  BY SessionInDay DEF LookedAt
<1>2. credit \in Int /\ gain \in Int
  <2>1. pending[next] \in Int
    BY <1>1 DEF Booked, TypeOK
  <2>2. \A x, y \in Int : x * y \in Int
    OBVIOUS
  <2>3. QED
    BY <2>1, <2>2, InTrade, Given DEF Booked
<1>3. pending' = [ pending EXCEPT ![next] = credit ] /\ realised' = realised + gain
  BY InTrade, Given DEF Close, Booked, TypeOK
<1> HIDE DEF next, credit, gain
<1>4. pending' \in [Day -> Int] /\ realised' \in Int
  BY <1>1, <1>2, <1>3 DEF Booked, TypeOK
<1>5. /\ open' \in [Symbols -> Trade] /\ open'[s] = NoTrade
      /\ \A x \in Symbols \ {s} : open'[x] = open[x]
  BY NoTradeInTrade, OneTrade DEF Close, Booked
<1>6. TypeOK'
  BY <1>4, <1>5 DEF Booked, TypeOK, LookedAt, Day, Trade
<1>7. QED
  BY <1>5, <1>6, NoTradeInTrade DEF Booked, LookedAt, TypeOK

\* A position is looked at and kept, with a trade of at most today's bars.
LEMMA KeptBooked ==
  ASSUME Booked, NEW s \in Symbols, NEW t \in Trade, LookedAt(s), t.bars <= today,
         open' = [ open EXCEPT ![s] = t ], UNCHANGED << pending, realised >>
  PROVE  Booked'
<1>1. /\ open' \in [Symbols -> Trade] /\ open'[s] = t
      /\ \A x \in Symbols \ {s} : open'[x] = open[x]
  BY OneTrade DEF Booked
<1>2. TypeOK'
  BY <1>1 DEF Booked, TypeOK, LookedAt, Day, Trade
<1>3. QED
  BY <1>1, <1>2 DEF Booked, LookedAt, TypeOK

LEMMA DataGapBooked ==
  ASSUME Booked, NEW s \in Symbols, DataGap(s) PROVE Booked'
<1>1. LookedAt(s)
  BY DEF DataGap
<1>2. CASE open[s].gaps + 1 >= GapDays
  <2>1. open[s].last \in Nat /\ Close(s, open[s].last)
    BY <1>2, InTrade DEF DataGap, Booked
  <2>2. QED
    BY <1>1, <2>1, CloseBooked
<1>3. CASE ~ (open[s].gaps + 1 >= GapDays)
  <2> DEFINE t == [ open[s] EXCEPT !.gaps = @ + 1 ]
  <2>1. t \in Trade /\ t.bars = open[s].bars
    BY <1>3, InTrade, Given DEF Booked, Trade
  <2>2. open' = [ open EXCEPT ![s] = t ] /\ UNCHANGED << pending, realised >>
    BY <1>3 DEF DataGap
  <2> HIDE DEF t
  <2>3. QED
    BY <1>1, <2>1, <2>2, KeptBooked DEF Booked
<1>4. QED
  BY <1>2, <1>3

LEMMA OlderTrade ==
  ASSUME NEW t \in Trade, NEW b, b.high \in Nat, b.close \in Nat, t.bars < Days
  PROVE  /\ Older(t, b) \in Trade
         /\ Older(t, b).qty = t.qty /\ Older(t, b).entry = t.entry
         /\ Older(t, b).last = b.close /\ Older(t, b).gaps = 0
         /\ Older(t, b).bars = t.bars + 1
<1>1. t.bars + 1 \in 0 .. Days /\ 0 \in 0 .. GapDays - 1
  BY Given DEF Trade
<1>2. QED
  BY <1>1 DEF Older, Trade

LEMMA SurvivesBooked ==
  ASSUME Booked, NEW s \in Symbols, Survives(s) PROVE Booked'
<1> DEFINE t == Older(open[s], bar[s])
<1>1. LookedAt(s) /\ open[s].bars < today
  BY DEF Survives, LookedAt, Booked
<1>2. t \in Trade /\ t.bars <= today
  BY <1>1, OlderTrade, InTrade, BarPrices, Given DEF Booked, TypeOK
<1>3. open' = [ open EXCEPT ![s] = t ] /\ UNCHANGED << pending, realised >>
  BY DEF Survives
<1> HIDE DEF t
<1>4. QED
  BY <1>1, <1>2, <1>3, KeptBooked

LEMMA MorningBooked == ASSUME Booked, Morning PROVE Booked'
<1>1. today' = today + 1 /\ today' \in 1 .. Days
  BY Given DEF Booked, TypeOK, Morning
<1>2. settled' \in Int /\ pending' \in [Day -> Int]
  BY <1>1, Given DEF Booked, TypeOK, Morning, Day
<1>3. TypeOK'
  BY <1>1, <1>2 DEF Booked, TypeOK, Morning, Held, Day, Trade
<1>4. \A s \in Symbols : open'[s].bars <= today
  BY DEF Booked, Morning
<1>5. \A s \in todo' : open'[s].qty > 0 /\ open'[s].bars <= today
  BY DEF Booked, Morning, Held
<1>6. \A s \in Symbols : open'[s].bars \in Nat
  BY <1>3, Given DEF TypeOK, Trade
<1>7. today \in Nat
  BY Given DEF Booked, TypeOK
<1>8. QED
  <2>1. \A s \in Symbols : open'[s].bars <= today'
    BY <1>1, <1>4, <1>6, <1>7
  <2>2. \A s \in todo' : open'[s].qty > 0 /\ open'[s].bars < today'
    BY <1>1, <1>5, <1>6, <1>7, <1>3 DEF TypeOK
  <2>3. phase' = "exits"
    BY DEF Morning
  <2>4. QED
    BY <1>1, <1>3, <2>1, <2>2, <2>3 DEF Booked

LEMMA PendingType == ASSUME TypeOK PROVE PendingTotal \in Int
<1>1. IsFiniteSet(Day)
  BY Given, FS_Interval DEF Day
<1>2. QED
  BY <1>1, TotalType DEF TypeOK, PendingTotal

LEMMA ValueType == ASSUME TypeOK PROVE Value \in Int
<1> DEFINE worth == [ s \in Symbols |-> Refreshed[s].last * open[s].qty ]
<1>1. \A s \in Symbols : Refreshed[s].last \in Int /\ open[s].qty \in Int
  BY RefreshedTrade, InTrade DEF Trade
<1>2. \A x, y \in Int : x * y \in Int
  OBVIOUS
<1>3. worth \in [Symbols -> Int]
  BY <1>1, <1>2
<1> HIDE DEF worth
<1>4. Total(worth) \in Int
  BY <1>3, Given, TotalType
<1>5. QED
  BY <1>4, PendingType DEF Value, worth, TypeOK

LEMMA DivType == ASSUME NEW x \in Int, NEW y \in Nat, y > 0 PROVE x \div y \in Int
OBVIOUS

LEMMA PriceType ==
  ASSUME TypeOK, NEW s \in Symbols, HasBar(s)
  PROVE  /\ Price(s) \in Nat /\ Price(s) > 0 /\ Price(s) >= bar[s].low + Slippage
<1>1. bar[s] \in [ open : Nat \ {0}, high : Nat \ {0}, low : Nat \ {0},
                   close : Nat \ {0} ]
  BY BarPrices, BacktestAssumption
<1>2. QED
  BY <1>1, BarPrices, Given DEF Price

LEMMA CashSlotsType == ASSUME TypeOK PROVE BacktestCashSlots(settled) \in Int
<1>1. settled \in Int /\ MinBucket \in Nat /\ MinBucket > 0 /\ DeployPct \in Nat
  BY SizesAssumption DEF TypeOK
<1>2. settled * DeployPct \in Int /\ 100 * MinBucket \in Nat /\ 100 * MinBucket > 0
  BY <1>1
<1>3. QED
  BY <1>2, DivType DEF BacktestCashSlots

LEMMA SlotsType ==
  ASSUME TypeOK
  PROVE  /\ BacktestMaxPositions(equity) \in Nat
         /\ BacktestSlots(equity, settled, Cardinality(Held)) \in Int
<1>1. MinBucket \in Nat /\ MinBucket > 0 /\ Cap \in Nat /\ DeployPct \in Nat
  BY SizesAssumption
<1>2. Cardinality(Held) \in Nat
  BY Given, FS_Subset, FS_CardinalityType DEF Held
<1>3. equity \in Int /\ settled \in Int
  BY DEF TypeOK
<1>4. equity >= MinBucket => equity \div MinBucket \in Nat
  BY <1>1, <1>3
<1>5. BacktestMaxPositions(equity) \in Nat
  BY <1>1, <1>3, <1>4 DEF BacktestMaxPositions, Least
<1>6. BacktestCashSlots(settled) \in Int
  BY CashSlotsType
<1>7. QED
  BY <1>2, <1>5, <1>6 DEF BacktestSlots, Least, Minus

LEMMA QtyType ==
  ASSUME TypeOK, NEW s \in Symbols, HasBar(s), NEW slots \in Int, slots > 0
  PROVE  Qty(s, slots) \in Int
<1>1. Price(s) \in Nat /\ Price(s) > 0
  BY PriceType
<1>2. equity \in Int /\ risk \in Int /\ settled \in Int /\ DeployPct \in Int
  BY Given, SizesAssumption DEF TypeOK
<1>3. equity * risk \in Int /\ settled * DeployPct \in Int
  BY <1>2
<1>4. 100 * Price(s) \in Nat /\ 100 * Price(s) > 0
  BY <1>1
<1>5. 100 * slots * Price(s) \in Nat /\ 100 * slots * Price(s) > 0
  BY <1>1
<1>6. QED
  BY <1>3, <1>4, <1>5, DivType DEF Qty, Least

LEMMA RegimeBooked == ASSUME Booked, RegimeAllows \/ RegimeBlocks PROVE Booked'
<1>1. CASE RegimeAllows
  <2>1. Value \in Int
    BY ValueType DEF Booked
  <2>2. open' = Refreshed /\ equity' = Value
    BY <1>1 DEF RegimeAllows
  <2>3. TypeOK'
    BY <1>1, <2>1, <2>2, RefreshedTrade DEF Booked, TypeOK, RegimeAllows, Day, Trade
  <2>4. QED
    BY <1>1, <2>2, <2>3, RefreshedTrade DEF Booked, RegimeAllows, ExitsDone
<1>2. CASE RegimeBlocks
  BY <1>2 DEF Booked, TypeOK, RegimeBlocks, ExitsDone, Day, Trade, Held
<1>3. QED
  BY <1>1, <1>2

LEMMA DayEndsBooked == ASSUME Booked, DayEnds PROVE Booked'
<1>1. Value \in Int
  BY ValueType DEF Booked
<1>2. open' = Refreshed /\ curveEnd' \in Int
  BY <1>1 DEF DayEnds
<1>3. todo' \subseteq Symbols /\ bar' \in [Symbols -> Bars \cup {NoBar}]
  BY DEF DayEnds, Booked, TypeOK, Held
<1>4. TypeOK'
  BY <1>2, <1>3, RefreshedTrade, Given DEF Booked, TypeOK, DayEnds, Day, Trade
<1>5. \A s \in Symbols : open'[s].bars <= today'
  BY <1>2, RefreshedTrade DEF Booked, DayEnds
<1>6. Held' = Held
  BY <1>2, RefreshedTrade DEF Held, Booked
<1>7. QED
  BY <1>4, <1>5, <1>6 DEF Booked, DayEnds

\* What an entry buys is a trade at today's price that has had no bar yet.
LEMMA EnterTrade ==
  ASSUME Booked, NEW s \in Symbols, Enter(s)
  PROVE  \E t \in Trade :
           /\ open' = [ open EXCEPT ![s] = t ]
           /\ t.qty = Qty(s, BacktestSlots(equity, settled, Cardinality(Held)))
           /\ t.qty > 0 /\ t.entry = Price(s) /\ t.last = Price(s) /\ t.gaps = 0
           /\ t.bars = 0
           /\ settled' = settled - t.entry * t.qty
<1> DEFINE qty == Qty(s, BacktestSlots(equity, settled, Cardinality(Held)))
           t == [ qty |-> qty, entry |-> Price(s),
                  peak |-> IF bar[s].high > Price(s) THEN bar[s].high ELSE Price(s),
                  last |-> Price(s), gaps |-> 0, bars |-> 0 ]
<1>1. HasBar(s) /\ BacktestSlots(equity, settled, Cardinality(Held)) > 0
      /\ qty >= 1 /\ settled' = settled - Price(s) * qty
      /\ open' = [ open EXCEPT ![s] = t ]
  BY DEF Enter
<1>2. qty \in Nat
  BY <1>1, QtyType, SlotsType DEF Booked
<1> HIDE DEF qty
<1>3. t \in Trade
  BY <1>1, <1>2, PriceType, BarPrices, Given DEF Booked, Trade
<1>4. WITNESS t \in Trade
<1>5. QED
  BY <1>1, <1>2 DEF qty

LEMMA EnterBooked == ASSUME Booked, NEW s \in Symbols, Enter(s) PROVE Booked'
<1>1. PICK t \in Trade : /\ open' = [ open EXCEPT ![s] = t ]
                          /\ t.qty > 0 /\ t.entry = Price(s) /\ t.bars = 0
                          /\ settled' = settled - t.entry * t.qty
  BY EnterTrade
<1>2. settled' \in Int
  <2>1. t.entry \in Nat /\ t.qty \in Nat /\ settled \in Int
    BY DEF Trade, Booked, TypeOK
  <2>2. QED
    BY <1>1, <2>1
<1>3. /\ open' \in [Symbols -> Trade] /\ open'[s] = t
      /\ \A x \in Symbols \ {s} : open'[x] = open[x]
  BY <1>1, OneTrade DEF Booked
<1>4. TypeOK'
  BY <1>2, <1>3 DEF Booked, TypeOK, Enter, Day, Trade
<1>5. \A x \in Symbols : open'[x].bars <= today'
  BY <1>1, <1>3 DEF Booked, Enter, TypeOK
<1>6. QED
  BY <1>4, <1>5 DEF Booked, Enter

LEMMA EndOfPeriodBooked ==
  ASSUME Booked, NEW s \in Symbols, EndOfPeriod(s) PROVE Booked'
<1>1. open[s].last * open[s].qty \in Int
      /\ (open[s].last - open[s].entry) * open[s].qty \in Int
  <2>1. \A x, y \in Int : x * y \in Int
    OBVIOUS
  <2>2. QED
    BY <2>1, InTrade DEF Booked
<1>2. settled' \in Int /\ realised' \in Int
  BY <1>1, Given DEF EndOfPeriod, Booked, TypeOK
<1>3. PendingTotal \in Int
  BY PendingType DEF Booked
<1>4. curveEnd' \in Int
  BY <1>2, <1>3 DEF EndOfPeriod, Booked, TypeOK
<1>5. /\ open' \in [Symbols -> Trade] /\ open'[s] = NoTrade
      /\ \A x \in Symbols \ {s} : open'[x] = open[x]
  BY NoTradeInTrade, OneTrade DEF EndOfPeriod, Booked
<1>6. TypeOK'
  BY <1>2, <1>4, <1>5 DEF Booked, TypeOK, EndOfPeriod, Day, Trade
<1>7. Held' = Held \ {s}
  BY <1>5, NoTradeInTrade DEF Held
<1>8. QED
  BY <1>5, <1>6, <1>7, NoTradeInTrade DEF Booked, EndOfPeriod, TypeOK

LEMMA NextBooked == Booked /\ [Next]_vars => Booked'
<1> SUFFICES ASSUME Booked, [Next]_vars PROVE Booked'
  OBVIOUS
<1>1. CASE Morning
  BY <1>1, MorningBooked
<1>2. CASE RegimeAllows \/ RegimeBlocks
  BY <1>2, RegimeBooked
<1>3. CASE DayEnds
  BY <1>3, DayEndsBooked
<1>4. CASE Report
  BY <1>4 DEF Booked, TypeOK, Report, Day, Trade, Held
<1>5. ASSUME NEW s \in Symbols, StopHit(s) PROVE Booked'
  BY <1>5, StopFillType, CloseBooked DEF StopHit, Booked
<1>6. ASSUME NEW s \in Symbols, ExitAtClose(s) PROVE Booked'
  BY <1>6, BarPrices, CloseBooked DEF ExitAtClose, Booked
<1>7. ASSUME NEW s \in Symbols,
             DataGap(s) \/ Survives(s) \/ Enter(s) \/ EndOfPeriod(s)
      PROVE  Booked'
  BY <1>7, DataGapBooked, SurvivesBooked, EnterBooked, EndOfPeriodBooked
<1>8. CASE UNCHANGED vars
  BY <1>8 DEF Booked, TypeOK, vars, Day, Trade, Held
<1>9. QED
  BY <1>1, <1>2, <1>3, <1>4, <1>5, <1>6, <1>7, <1>8 DEF Next

-----------------------------------------------------------------------------
(* Cash. *)

LEMMA ProductType == \A x, y \in Int : x * y \in Int
OBVIOUS

LEMMA InvestedType == ASSUME TypeOK PROVE Invested \in Int
<1> DEFINE cost == [ x \in Symbols |-> open[x].entry * open[x].qty ]
<1>1. cost \in [Symbols -> Int]
  BY ProductType, InTrade
<1> HIDE DEF cost
<1>2. Total(cost) \in Int
  BY <1>1, Given, TotalType
<1>3. QED
  BY <1>2 DEF Invested, cost

\* A trade in the place of another changes what is invested by the difference.
LEMMA InvestedChange ==
  ASSUME TypeOK, NEW s \in Symbols, NEW t \in Trade, open' = [ open EXCEPT ![s] = t ]
  PROVE  Invested' = Invested + t.entry * t.qty - open[s].entry * open[s].qty
<1> DEFINE cost == [ x \in Symbols |-> open[x].entry * open[x].qty ]
           now  == [ x \in Symbols |-> open'[x].entry * open'[x].qty ]
           paid == t.entry * t.qty
<1>1. cost \in [Symbols -> Int] /\ paid \in Int
  BY ProductType, InTrade DEF Trade
<1>2. cost[s] = open[s].entry * open[s].qty
  OBVIOUS
<1>3. now = [ cost EXCEPT ![s] = paid ]
  BY OneTrade
<1>4. Invested = Total(cost) /\ Invested' = Total(now)
  BY DEF Invested
<1> HIDE DEF cost, now, paid
<1>5. Total(now) = Total(cost) + paid - cost[s]
  BY <1>1, <1>3, Given, TotalChange
<1>6. QED
  BY <1>2, <1>4, <1>5 DEF paid

\* What is invested depends on the prices paid and on the quantities only.
LEMMA InvestedSame ==
  ASSUME \A s \in Symbols :
           open'[s].entry = open[s].entry /\ open'[s].qty = open[s].qty
  PROVE  Invested' = Invested
<1>1. [ s \in Symbols |-> open'[s].entry * open'[s].qty ]
        = [ s \in Symbols |-> open[s].entry * open[s].qty ]
  OBVIOUS
<1>2. QED
  BY <1>1 DEF Invested

LEMMA PendingChange ==
  ASSUME TypeOK, NEW d \in Day, NEW v \in Int, pending' = [ pending EXCEPT ![d] = v ]
  PROVE  PendingTotal' = PendingTotal + v - pending[d]
<1>1. IsFiniteSet(Day)
  BY Given, FS_Interval DEF Day
<1>2. Total([ pending EXCEPT ![d] = v ]) = Total(pending) + v - pending[d]
  BY <1>1, TotalChange DEF TypeOK
<1>3. QED
  BY <1>2 DEF PendingTotal

\* A sale at a price brings the trade's cost and its result.
LEMMA SaleSplits ==
  ASSUME NEW p \in Int, NEW e \in Int, NEW q \in Int
  PROVE  p * q = e * q + (p - e) * q /\ p * q \in Int /\ e * q \in Int
         /\ (p - e) * q \in Int
OBVIOUS

Cash == Booked /\ CashConserved

LEMMA CloseCash ==
  ASSUME Cash, NEW s \in Symbols, NEW price \in Nat, LookedAt(s), Close(s, price)
  PROVE  CashConserved'
<1> DEFINE d == NextSession(today)
           proceeds == price * open[s].qty
           cost == open[s].entry * open[s].qty
           gain == (price - open[s].entry) * open[s].qty
<1>1. d \in Day /\ pending[d] \in Int
  BY SessionInDay DEF LookedAt, Cash, Booked, TypeOK
<1>2. proceeds = cost + gain /\ proceeds \in Int /\ cost \in Int /\ gain \in Int
  BY SaleSplits, InTrade DEF Cash, Booked
<1>3. /\ pending' = [ pending EXCEPT ![d] = pending[d] + proceeds - Fee ]
      /\ realised' = realised + gain - Fee
  BY DEF Close
<1>4. Invested' = Invested - cost
  <2>1. Invested' = Invested + NoTrade.entry * NoTrade.qty - cost
    BY InvestedChange, NoTradeInTrade DEF Close, Cash, Booked
  <2>2. NoTrade.entry * NoTrade.qty = 0 /\ Invested \in Int
    BY NoTradeInTrade, InvestedType DEF Cash, Booked
  <2> HIDE DEF cost
  <2>3. QED
    BY <1>2, <2>1, <2>2
<1> HIDE DEF d, proceeds, cost, gain
<1>5. PendingTotal' = PendingTotal + (pending[d] + proceeds - Fee) - pending[d]
  <2> DEFINE credit == pending[d] + proceeds - Fee
  <2>1. credit \in Int /\ pending' = [ pending EXCEPT ![d] = credit ]
    BY <1>1, <1>2, <1>3, Given
  <2> HIDE DEF credit
  <2>2. PendingTotal' = PendingTotal + credit - pending[d]
    BY <1>1, <2>1, PendingChange DEF Cash, Booked
  <2>3. QED
    BY <2>2 DEF credit
<1>6. settled' = settled /\ settled \in Int /\ realised \in Int
  BY DEF LookedAt, Cash, Booked, TypeOK
<1>7. PendingTotal \in Int /\ Invested \in Int
  BY PendingType, InvestedType DEF Cash, Booked
<1>8. settled + PendingTotal + Invested = Capital + realised
  BY DEF Cash, CashConserved
<1>9. QED
  BY <1>1, <1>2, <1>3, <1>4, <1>5, <1>6, <1>7, <1>8, Given DEF CashConserved

LEMMA MorningCash == ASSUME Cash, Morning PROVE CashConserved'
<1>1. today + 1 \in Day
  BY Given DEF Morning, Cash, Booked, TypeOK, Day
<1>2. PendingTotal' = PendingTotal - pending[today + 1]
  <2> DEFINE d == today + 1
             none == 0
  <2>1. d \in Day /\ none \in Int /\ pending' = [ pending EXCEPT ![d] = none ]
    BY <1>1 DEF Morning
  <2> HIDE DEF d, none
  <2>2. PendingTotal' = PendingTotal + none - pending[d]
    BY <2>1, PendingChange DEF Cash, Booked
  <2>3. pending[d] \in Int /\ PendingTotal \in Int
    BY <2>1, PendingType DEF Cash, Booked, TypeOK
  <2>4. QED
    BY <2>2, <2>3 DEF d, none
<1>3. Invested' = Invested
  BY InvestedSame DEF Morning
<1>4. settled' = settled + pending[today + 1] /\ realised' = realised
  BY DEF Morning
<1>5. settled \in Int /\ PendingTotal \in Int /\ pending[today + 1] \in Int
      /\ Invested \in Int
  BY <1>1, PendingType, InvestedType DEF Cash, Booked, TypeOK
<1>6. QED
  BY <1>2, <1>3, <1>4, <1>5 DEF Cash, CashConserved

LEMMA EnterCash == ASSUME Cash, NEW s \in Symbols, Enter(s) PROVE CashConserved'
<1>1. PICK t \in Trade : /\ open' = [ open EXCEPT ![s] = t ]
                         /\ settled' = settled - t.entry * t.qty
  BY EnterTrade DEF Cash
<1>2. Invested' = Invested + t.entry * t.qty - open[s].entry * open[s].qty
  BY <1>1, InvestedChange DEF Cash, Booked
<1>3. open[s].entry * open[s].qty = 0
  <2>1. open[s].qty = 0
    BY InTrade DEF Enter, Held, Cash, Booked
  <2>2. QED
    BY <2>1, InTrade DEF Cash, Booked
<1>4. t.entry * t.qty \in Int
  BY ProductType DEF Trade
<1>5. PendingTotal' = PendingTotal /\ realised' = realised
  BY DEF Enter, PendingTotal
<1>6. settled \in Int /\ PendingTotal \in Int /\ Invested \in Int
  BY PendingType, InvestedType DEF Cash, Booked, TypeOK
<1>7. QED
  BY <1>1, <1>2, <1>3, <1>4, <1>5, <1>6 DEF Cash, CashConserved

LEMMA EndOfPeriodCash ==
  ASSUME Cash, NEW s \in Symbols, EndOfPeriod(s) PROVE CashConserved'
<1> DEFINE proceeds == open[s].last * open[s].qty
           cost == open[s].entry * open[s].qty
           gain == (open[s].last - open[s].entry) * open[s].qty
<1>1. proceeds = cost + gain /\ proceeds \in Int /\ cost \in Int /\ gain \in Int
  <2>1. open[s].last \in Int /\ open[s].entry \in Int /\ open[s].qty \in Int
    BY InTrade DEF Cash, Booked
  <2>2. QED
    BY <2>1, SaleSplits
<1>2. settled' = settled + proceeds - Fee /\ realised' = realised + gain - Fee
      /\ PendingTotal' = PendingTotal
  BY DEF EndOfPeriod, PendingTotal
<1>3. Invested' = Invested + NoTrade.entry * NoTrade.qty - cost
  BY InvestedChange, NoTradeInTrade DEF EndOfPeriod, Cash, Booked
<1>4. NoTrade.entry * NoTrade.qty = 0
  BY NoTradeInTrade
<1> HIDE DEF proceeds, cost, gain
<1>5. settled \in Int /\ PendingTotal \in Int /\ Invested \in Int /\ realised \in Int
  BY PendingType, InvestedType DEF Cash, Booked, TypeOK
<1>6. QED
  BY <1>1, <1>2, <1>3, <1>4, <1>5, Given DEF Cash, CashConserved

\* What changes neither the cash nor what was paid for the positions conserves it.
LEMMA QuietCash ==
  ASSUME Cash, UNCHANGED << settled, pending, realised >>,
         \A s \in Symbols : open'[s].entry = open[s].entry /\ open'[s].qty = open[s].qty
  PROVE  CashConserved'
BY InvestedSame DEF Cash, CashConserved, PendingTotal

LEMMA NextCash == Cash /\ [Next]_vars => Cash'
<1> SUFFICES ASSUME Cash, [Next]_vars PROVE CashConserved'
  BY NextBooked DEF Cash
<1>1. CASE RegimeAllows \/ DayEnds
  <2>1. open' = Refreshed /\ UNCHANGED << settled, pending, realised >>
    BY <1>1 DEF RegimeAllows, DayEnds
  <2>2. QED
    BY <2>1, RefreshedTrade, QuietCash DEF Cash, Booked
<1>2. CASE RegimeBlocks \/ Report \/ UNCHANGED vars
  BY <1>2, QuietCash DEF RegimeBlocks, Report, vars
<1>3. ASSUME NEW s \in Symbols, StopHit(s) PROVE CashConserved'
  BY <1>3, StopFillType, CloseCash DEF StopHit, Cash, Booked
<1>4. ASSUME NEW s \in Symbols, ExitAtClose(s) PROVE CashConserved'
  BY <1>4, BarPrices, CloseCash DEF ExitAtClose, Cash, Booked
<1>5. ASSUME NEW s \in Symbols, DataGap(s) PROVE CashConserved'
  <2>1. CASE open[s].gaps + 1 >= GapDays
    BY <1>5, <2>1, InTrade, CloseCash DEF DataGap, Cash, Booked
  <2>2. CASE ~ (open[s].gaps + 1 >= GapDays)
    <3>1. open' = [ open EXCEPT ![s] = [ open[s] EXCEPT !.gaps = @ + 1 ] ]
          /\ UNCHANGED << settled, pending, realised >>
      BY <1>5, <2>2 DEF DataGap, LookedAt
    <3>2. \A x \in Symbols : open'[x].entry = open[x].entry /\ open'[x].qty = open[x].qty
      BY <3>1, InTrade DEF Cash, Booked, TypeOK, Trade
    <3>3. QED
      BY <3>1, <3>2, QuietCash
  <2>3. QED
    BY <2>1, <2>2
<1>6. ASSUME NEW s \in Symbols, Survives(s) PROVE CashConserved'
  <2>1. open' = [ open EXCEPT ![s] = Older(open[s], bar[s]) ]
        /\ UNCHANGED << settled, pending, realised >>
    BY <1>6 DEF Survives, LookedAt
  <2>2. Older(open[s], bar[s]).entry = open[s].entry
        /\ Older(open[s], bar[s]).qty = open[s].qty
    BY DEF Older
  <2>3. \A x \in Symbols : open'[x].entry = open[x].entry /\ open'[x].qty = open[x].qty
    BY <2>1, <2>2 DEF Cash, Booked, TypeOK
  <2>4. QED
    BY <2>1, <2>3, QuietCash
<1>7. ASSUME NEW s \in Symbols, Enter(s) \/ EndOfPeriod(s) PROVE CashConserved'
  BY <1>7, EnterCash, EndOfPeriodCash
<1>8. QED
  BY <1>1, <1>2, <1>3, <1>4, <1>5, <1>6, <1>7, MorningCash DEF Next

LEMMA InitCash == Init => Cash
<1> SUFFICES ASSUME Init PROVE Cash
  OBVIOUS
<1>1. Booked
  BY InitBooked
<1>2. PendingTotal = 0
  <2>1. IsFiniteSet(Day)
    BY Given, FS_Interval DEF Day
  <2>2. pending \in [Day -> Int] /\ \A d \in Day : pending[d] = 0
    BY DEF Init
  <2>3. QED
    BY <2>1, <2>2, TotalZero DEF PendingTotal
<1>3. Invested = 0
  <2> DEFINE cost == [ x \in Symbols |-> open[x].entry * open[x].qty ]
  <2>1. \A x \in Symbols : cost[x] = 0
    BY NoTradeInTrade DEF Init
  <2>2. cost \in [Symbols -> Int]
    BY <2>1
  <2> HIDE DEF cost
  <2>3. Total(cost) = 0
    BY <2>1, <2>2, Given, TotalZero
  <2>4. QED
    BY <2>3 DEF Invested, cost
<1>4. QED
  BY <1>1, <1>2, <1>3, Given DEF Cash, CashConserved, Init

-----------------------------------------------------------------------------
(* Solvency. *)

\* Every price of the data, less the slippage, pays for the commission of a round trip.
FeesCovered == \A b \in Bars : b.low >= Slippage + Fee

Solvent ==
  /\ settled >= 0 /\ \A d \in Day : pending[d] >= 0
  /\ \A s \in Held : open[s].last >= Fee

LEMMA DivBound ==
  ASSUME NEW x \in Int, NEW y \in Nat, y > 0, NEW z \in Int, z <= x \div y
  PROVE  z * y <= x
<1>1. x \div y \in Int /\ (x \div y) * y <= x
  BY DivType
<1>2. \A p, q \in Int : p <= q => p * y <= q * y
  OBVIOUS
<1>3. z * y <= (x \div y) * y
  BY <1>1, <1>2
<1>4. z * y \in Int /\ (x \div y) * y \in Int
  BY <1>1
<1>5. QED
  BY <1>1, <1>3, <1>4

LEMMA ShareOfCash ==
  ASSUME NEW q \in Nat, NEW p \in Nat, NEW c \in Nat, NEW n \in Nat, n > 0,
         NEW share \in 0 .. 100, q * (100 * n * p) <= c * share
  PROVE  p * q <= c
<1> DEFINE x == p * q
<1>1. x \in Nat
  OBVIOUS
<1>2. q * (100 * n * p) = 100 * (n * x)
  OBVIOUS
<1>3. c * share <= 100 * c
  OBVIOUS
<1> HIDE DEF x
<1>4. n * x >= x
  BY <1>1
<1>5. n * x \in Nat /\ c * share \in Nat
  BY <1>1
<1>6. 100 * (n * x) <= 100 * c
  BY <1>2, <1>3, <1>5
<1>7. x <= c
  BY <1>1, <1>4, <1>5, <1>6
<1>8. QED
  BY <1>7 DEF x

\* An entry costs no more than the cash that has settled.
LEMMA EntryAffordable ==
  ASSUME Booked, settled >= 0, NEW s \in Symbols, Enter(s)
  PROVE  settled' >= 0
<1> DEFINE slots == BacktestSlots(equity, settled, Cardinality(Held))
           qty   == Qty(s, slots)
           unit  == 100 * slots * Price(s)
<1>1. HasBar(s) /\ slots > 0 /\ qty >= 1 /\ settled' = settled - Price(s) * qty
  BY DEF Enter
<1>2. slots \in Int /\ Price(s) \in Nat /\ Price(s) > 0
  BY <1>1, SlotsType, PriceType DEF Booked
<1> HIDE DEF slots
<1>3. qty \in Nat
  BY <1>1, <1>2, QtyType DEF Booked
<1>4. settled \in Nat /\ DeployPct \in 0 .. 100
  BY SizesAssumption DEF Booked, TypeOK
<1>5. unit \in Nat /\ unit > 0
  BY <1>1, <1>2
<1>6. qty <= (settled * DeployPct) \div unit
  <2>1. (settled * DeployPct) \div unit \in Int
    BY <1>4, <1>5, DivType
  <2>2. (equity * risk) \div (100 * Price(s)) \in Int
    BY <1>2, Given, DivType DEF Booked, TypeOK
  <2>3. qty = Least((equity * risk) \div (100 * Price(s)),
                    (settled * DeployPct) \div unit)
    BY DEF Qty
  <2> HIDE DEF qty, unit
  <2>4. QED
    BY <2>1, <2>2, <2>3 DEF Least
<1>7. qty * unit <= settled * DeployPct
  <2> HIDE DEF qty, unit
  <2>1. settled * DeployPct \in Int
    BY <1>4
  <2>2. QED
    BY <1>3, <1>5, <1>6, <2>1, DivBound
<1>8. Price(s) * qty <= settled
  <2> HIDE DEF qty
  <2>1. slots \in Nat
    BY <1>1, <1>2
  <2>2. qty * (100 * slots * Price(s)) <= settled * DeployPct
    BY <1>7 DEF unit
  <2>3. QED
    BY <1>1, <1>2, <1>3, <1>4, <2>1, <2>2, ShareOfCash
<1>9. Price(s) * qty \in Int
  BY <1>2, <1>3
<1>10. QED
  BY <1>1, <1>4, <1>8, <1>9

LEMMA StopFillCovered ==
  ASSUME TypeOK, FeesCovered, NEW s \in Symbols, HasBar(s), bar[s].low <= Stop(open[s])
  PROVE  StopFill(bar[s], Stop(open[s])) >= Fee
<1> DEFINE stop == Stop(open[s])
<1>1. stop \in Nat /\ bar[s].low <= stop
  BY StopType
<1>2. bar[s].open \in Nat /\ bar[s].low \in Nat /\ bar[s].low <= bar[s].open
      /\ bar[s].low >= Slippage + Fee
  BY BarPrices DEF FeesCovered
<1> HIDE DEF stop
<1>3. StopFill(bar[s], stop) >= Fee
  BY <1>1, <1>2, Given DEF StopFill, Minus
<1>4. QED
  BY <1>3 DEF stop

Sound == Booked /\ Solvent

\* A sale at a price that covers the fees leaves no debt on any day.
LEMMA CloseSound ==
  ASSUME Sound, NEW s \in Symbols, NEW price \in Nat, price >= Fee, LookedAt(s),
         Close(s, price)
  PROVE  Solvent'
<1> DEFINE d == NextSession(today)
           credit == pending[d] + price * open[s].qty - Fee
<1>1. d \in Day /\ pending[d] \in Int /\ pending[d] >= 0
  BY SessionInDay DEF LookedAt, Sound, Solvent, Booked, TypeOK
<1>2. open[s].qty \in Nat /\ open[s].qty >= 1
  BY InTrade DEF LookedAt, Sound, Booked
<1>3. price * open[s].qty >= price
  BY <1>2
<1>4. credit >= 0
  <2>1. price * open[s].qty \in Int
    BY <1>2
  <2>2. QED
    BY <1>1, <1>3, <2>1, Given
<1>5. pending' = [ pending EXCEPT ![d] = credit ]
  BY DEF Close
<1> HIDE DEF d, credit
<1>6. \A x \in Day : pending'[x] >= 0
  BY <1>1, <1>4, <1>5 DEF Sound, Solvent, Booked, TypeOK
<1>7. open'[s] = NoTrade /\ \A x \in Symbols \ {s} : open'[x] = open[x]
  BY OneTrade, NoTradeInTrade DEF Close, Sound, Booked
<1>8. \A x \in Held' : open'[x].last >= Fee
  BY <1>7, NoTradeInTrade DEF Held, Sound, Solvent
<1>9. QED
  BY <1>6, <1>8 DEF LookedAt, Sound, Solvent

LEMMA RefreshedSound ==
  ASSUME Sound, FeesCovered, open' = Refreshed, UNCHANGED << settled, pending >>
  PROVE  Solvent'
<1>1. ASSUME NEW s \in Held' PROVE open'[s].last >= Fee
  <2>1. s \in Held
    BY RefreshedTrade DEF Held, Sound, Booked
  <2>2. CASE open'[s].last = open[s].last
    BY <2>1, <2>2 DEF Sound, Solvent
  <2>3. CASE HasBar(s) /\ open'[s].last = bar[s].close
    <3>1. s \in Symbols
      BY <2>1 DEF Held
    <3>2. bar[s].close \in Nat /\ bar[s].low \in Nat /\ bar[s].low <= bar[s].close
          /\ bar[s].low >= Slippage + Fee
      BY <2>3, <3>1, BarPrices DEF FeesCovered, Sound, Booked
    <3>3. QED
      BY <2>3, <3>2, Given
  <2>4. QED
    BY <2>1, <2>2, <2>3, RefreshedTrade DEF Held, Sound, Booked
<1>2. QED
  BY <1>1 DEF Sound, Solvent

LEMMA NextSound == FeesCovered /\ Sound /\ [Next]_vars => Sound'
<1> SUFFICES ASSUME FeesCovered, Sound, [Next]_vars PROVE Solvent'
  BY NextBooked DEF Sound
<1>0. \A s \in Symbols : HasBar(s) =>
        /\ bar[s].low \in Nat /\ bar[s].close \in Nat /\ bar[s].low <= bar[s].close
        /\ bar[s].low >= Slippage + Fee
  BY BarPrices DEF FeesCovered, Sound, Booked
<1>1. CASE Morning
  <2>1. today + 1 \in Day
    BY <1>1, Given DEF Morning, Sound, Booked, TypeOK, Day
  <2>2. settled' >= 0
    BY <1>1, <2>1 DEF Morning, Sound, Solvent, Booked, TypeOK
  <2>3. \A d \in Day : pending'[d] >= 0
    BY <1>1, <2>1 DEF Morning, Sound, Solvent, Booked, TypeOK
  <2>4. QED
    BY <1>1, <2>2, <2>3 DEF Morning, Sound, Solvent, Held
<1>2. CASE RegimeAllows \/ DayEnds
  BY <1>2, RefreshedSound DEF RegimeAllows, DayEnds
<1>3. CASE RegimeBlocks \/ Report \/ UNCHANGED vars
  BY <1>3 DEF RegimeBlocks, Report, vars, Sound, Solvent, Held
<1>4. ASSUME NEW s \in Symbols, StopHit(s) PROVE Solvent'
  BY <1>4, StopFillType, StopFillCovered, CloseSound DEF StopHit, Sound, Booked
<1>5. ASSUME NEW s \in Symbols, ExitAtClose(s) PROVE Solvent'
  <2>1. bar[s].close \in Nat /\ bar[s].close >= Fee
    BY <1>0, <1>5, Given DEF ExitAtClose
  <2>2. QED
    BY <1>5, <2>1, CloseSound DEF ExitAtClose
<1>6. ASSUME NEW s \in Symbols, DataGap(s) PROVE Solvent'
  <2>1. s \in Held
    BY <1>6 DEF DataGap, LookedAt, Held, Sound, Booked
  <2>2. CASE open[s].gaps + 1 >= GapDays
    <3>1. open[s].last \in Nat /\ open[s].last >= Fee
      BY <2>1, InTrade DEF Sound, Solvent, Booked
    <3>2. QED
      BY <1>6, <2>2, <3>1, CloseSound DEF DataGap
  <2>3. CASE ~ (open[s].gaps + 1 >= GapDays)
    <3>1. open' = [ open EXCEPT ![s] = [ open[s] EXCEPT !.gaps = @ + 1 ] ]
          /\ UNCHANGED << settled, pending >>
      BY <1>6, <2>3 DEF DataGap, LookedAt
    <3>2. \A x \in Symbols : open'[x].last = open[x].last /\ open'[x].qty = open[x].qty
      BY <3>1, InTrade DEF Sound, Booked, TypeOK, Trade
    <3>3. QED
      BY <3>1, <3>2 DEF Sound, Solvent, Held
  <2>4. QED
    BY <2>2, <2>3
<1>7. ASSUME NEW s \in Symbols, Survives(s) PROVE Solvent'
  <2> DEFINE t == Older(open[s], bar[s])
  <2>1. open' = [ open EXCEPT ![s] = t ] /\ UNCHANGED << settled, pending >>
    BY <1>7 DEF Survives, LookedAt
  <2>2. t.last >= Fee
    <3>1. t.last = bar[s].close
      BY DEF Older
    <3>2. QED
      BY <1>0, <1>7, <3>1, Given DEF Survives
  <2>3. t.qty = open[s].qty
    BY DEF Older
  <2> HIDE DEF t
  <2>4. QED
    BY <2>1, <2>2, <2>3 DEF Sound, Solvent, Held, Booked, TypeOK
<1>8. ASSUME NEW s \in Symbols, Enter(s) PROVE Solvent'
  <2>1. settled' >= 0
    BY <1>8, EntryAffordable DEF Sound, Solvent
  <2>2. PICK t \in Trade : open' = [ open EXCEPT ![s] = t ] /\ t.last = Price(s)
    BY <1>8, EnterTrade DEF Sound
  <2>3. Price(s) >= Fee
    BY <1>0, <1>8, PriceType, Given DEF Enter, Sound, Booked
  <2>4. \A x \in Held' : open'[x].last >= Fee
    BY <2>2, <2>3 DEF Sound, Solvent, Held, Booked, TypeOK
  <2>5. QED
    BY <1>8, <2>1, <2>4 DEF Enter, Sound, Solvent
<1>9. ASSUME NEW s \in Symbols, EndOfPeriod(s) PROVE Solvent'
  <2>1. s \in Held
    BY <1>9 DEF EndOfPeriod, Sound, Booked
  <2>2. /\ open[s].last \in Nat /\ open[s].last >= Fee
        /\ open[s].qty \in Nat /\ open[s].qty >= 1
    BY <2>1, InTrade DEF Sound, Solvent, Booked, Held
  <2>3. open[s].last * open[s].qty >= open[s].last /\ open[s].last * open[s].qty \in Int
    BY <2>2
  <2>4. settled' = settled + open[s].last * open[s].qty - Fee
        /\ settled \in Int /\ settled >= 0
    BY <1>9 DEF EndOfPeriod, Sound, Solvent, Booked, TypeOK
  <2>5. settled' >= 0
    BY <2>2, <2>3, <2>4, Given
  <2>6. open'[s] = NoTrade /\ \A x \in Symbols \ {s} : open'[x] = open[x]
    BY <1>9, OneTrade, NoTradeInTrade DEF EndOfPeriod, Sound, Booked
  <2>7. \A x \in Held' : open'[x].last >= Fee
    BY <2>6, NoTradeInTrade DEF Held, Sound, Solvent
  <2>8. QED
    BY <1>9, <2>5, <2>7 DEF EndOfPeriod, Sound, Solvent
<1>10. QED
  BY <1>1, <1>2, <1>3, <1>4, <1>5, <1>6, <1>7, <1>8, <1>9 DEF Next

LEMMA InitSound == Init => Sound
BY InitBooked, NoTradeInTrade, Given DEF Init, Sound, Solvent, Held

-----------------------------------------------------------------------------
(* The curve and the report. *)

AllBars == \A s \in Symbols : HasBar(s)

\* A position with a bar today has no data gap, once it has been looked at ...
Fresh ==
  phase # "morning" =>
    \A s \in Held :
      HasBar(s) /\ (phase = "exits" => s \notin todo) => open[s].gaps = 0

\* ... so the sale of each position replaces the last point of the curve.
LastPoint ==
  phase \in {"period", "done"} /\ todo = {} /\ AllBars
    => curveEnd = settled + PendingTotal

Points == Booked /\ Fresh /\ LastPoint

\* A position that is looked at is closed, or is kept with a gap that its bar ends.
LEMMA LookedAtFresh ==
  ASSUME Points, NEW s \in Symbols, NEW t \in Trade, LookedAt(s),
         open' = [ open EXCEPT ![s] = t ],
         t.qty > 0 /\ HasBar(s) => t.gaps = 0
  PROVE  Fresh' /\ LastPoint'
<1>1. open'[s] = t /\ \A x \in Symbols \ {s} : open'[x] = open[x]
  BY OneTrade DEF Points, Booked
<1>2. phase = "exits" /\ phase' = "exits" /\ todo' = todo \ {s} /\ bar' = bar
  BY DEF LookedAt
<1>3. ASSUME NEW x \in Held', HasBar(x)', x \notin todo' PROVE open'[x].gaps = 0
  BY <1>1, <1>2, <1>3 DEF Held, HasBar, Points, Fresh
<1>4. QED
  BY <1>2, <1>3 DEF Fresh, LastPoint

\* With nothing left to value, the account is its cash.
LEMMA EmptyValue ==
  ASSUME TypeOK, Held = {} PROVE Value = settled + PendingTotal /\ Invested = 0
<1> DEFINE worth == [ s \in Symbols |-> Refreshed[s].last * open[s].qty ]
           cost  == [ s \in Symbols |-> open[s].entry * open[s].qty ]
<1>1. \A s \in Symbols : open[s].qty = 0
  BY InTrade DEF Held
<1>2. \A s \in Symbols : Refreshed[s].last \in Int /\ open[s].entry \in Int
  BY RefreshedTrade, InTrade DEF Trade
<1>3. \A s \in Symbols : worth[s] = 0 /\ cost[s] = 0
  BY <1>1, <1>2
<1>4. worth \in [Symbols -> Int] /\ cost \in [Symbols -> Int]
  BY <1>3
<1> HIDE DEF worth, cost
<1>5. Total(worth) = 0 /\ Total(cost) = 0
  BY <1>3, <1>4, Given, TotalZero
<1>6. Value = settled + PendingTotal + Total(worth) /\ Invested = Total(cost)
  BY DEF Value, Invested, worth, cost
<1>7. QED
  BY <1>5, <1>6, PendingType DEF TypeOK

LEMMA NextPoints == Points /\ [Next]_vars => Points'
<1> SUFFICES ASSUME Points, [Next]_vars PROVE Fresh' /\ LastPoint'
  BY NextBooked DEF Points
<1>1. CASE Morning
  BY <1>1 DEF Morning, Fresh, LastPoint, Held
<1>2. CASE RegimeAllows
  <2>1. open' = Refreshed /\ phase = "exits" /\ phase' = "scan" /\ bar' = bar /\ todo = {}
    BY <1>2 DEF RegimeAllows, ExitsDone
  <2>2. \A x \in Held' : x \in Held /\ open'[x].gaps = open[x].gaps
    BY <2>1, RefreshedTrade DEF Held, Points, Booked
  <2>3. QED
    BY <2>1, <2>2 DEF Points, Fresh, LastPoint, HasBar
<1>3. CASE DayEnds
  <2>1. open' = Refreshed /\ phase \in {"regime", "scan"}
        /\ (today < Days => phase' = "morning")
        /\ (~ (today < Days) =>
              phase' = "period" /\ todo' = Held /\ bar' = bar /\ curveEnd' = Value)
        /\ settled' = settled /\ PendingTotal' = PendingTotal
    <3>1. ~ (today < Days) => today = Days
      BY Given DEF Points, Booked, TypeOK
    <3>2. QED
      BY <1>3, <3>1 DEF DayEnds, PendingTotal
  <2>2. \A x \in Held' : x \in Held /\ open'[x].gaps = open[x].gaps
    BY <2>1, RefreshedTrade DEF Held, Points, Booked
  <2>3. Fresh'
    BY <2>1, <2>2 DEF Points, Fresh, HasBar
  <2>4. LastPoint'
    BY <2>1, EmptyValue DEF Points, Booked, LastPoint
  <2>5. QED
    BY <2>3, <2>4
<1>4. CASE RegimeBlocks
  BY <1>4 DEF RegimeBlocks, ExitsDone, Points, Fresh, LastPoint, Held, HasBar
<1>5. CASE Report \/ UNCHANGED vars
  BY <1>5 DEF Report, vars, Points, Fresh, LastPoint, Held, HasBar, AllBars, PendingTotal
<1>6. ASSUME NEW s \in Symbols, StopHit(s) \/ ExitAtClose(s) PROVE Fresh' /\ LastPoint'
  <2>1. LookedAt(s) /\ open' = [ open EXCEPT ![s] = NoTrade ]
    BY <1>6 DEF StopHit, ExitAtClose, Close
  <2>2. NoTrade \in Trade /\ ~ (NoTrade.qty > 0)
    BY NoTradeInTrade
  <2>3. QED
    BY <2>1, <2>2, LookedAtFresh
<1>7. ASSUME NEW s \in Symbols, DataGap(s) PROVE Fresh' /\ LastPoint'
  <2>1. LookedAt(s) /\ ~HasBar(s)
    BY <1>7 DEF DataGap
  <2>2. CASE open[s].gaps + 1 >= GapDays
    BY <1>7, <2>1, <2>2, NoTradeInTrade, LookedAtFresh DEF DataGap, Close
  <2>3. CASE ~ (open[s].gaps + 1 >= GapDays)
    <3> DEFINE t == [ open[s] EXCEPT !.gaps = @ + 1 ]
    <3>1. t \in Trade
      BY <2>3, InTrade, Given DEF Points, Booked, Trade
    <3>2. open' = [ open EXCEPT ![s] = t ]
      BY <1>7, <2>3 DEF DataGap
    <3> HIDE DEF t
    <3>3. QED
      BY <2>1, <3>1, <3>2, LookedAtFresh
  <2>4. QED
    BY <2>2, <2>3
<1>8. ASSUME NEW s \in Symbols, Survives(s) PROVE Fresh' /\ LastPoint'
  <2> DEFINE t == Older(open[s], bar[s])
  <2>1. LookedAt(s) /\ open' = [ open EXCEPT ![s] = t ]
    BY <1>8 DEF Survives
  <2>2. t \in Trade /\ t.gaps = 0
    <3>1. open[s].bars < Days
      BY <2>1, InTrade, Given DEF LookedAt, Points, Booked, TypeOK
    <3>2. QED
      BY <3>1, OlderTrade, InTrade, BarPrices DEF Points, Booked
  <2> HIDE DEF t
  <2>3. QED
    BY <2>1, <2>2, LookedAtFresh
<1>9. ASSUME NEW s \in Symbols, Enter(s) PROVE Fresh' /\ LastPoint'
  <2>1. PICK t \in Trade : open' = [ open EXCEPT ![s] = t ] /\ t.gaps = 0
    BY <1>9, EnterTrade DEF Points
  <2>2. open'[s] = t /\ \A x \in Symbols \ {s} : open'[x] = open[x]
    BY <2>1, OneTrade DEF Points, Booked
  <2>3. phase = "scan" /\ phase' = "scan" /\ bar' = bar
    BY <1>9 DEF Enter
  <2>4. QED
    BY <2>1, <2>2, <2>3 DEF Points, Fresh, LastPoint, Held, HasBar
<1>10. ASSUME NEW s \in Symbols, EndOfPeriod(s) PROVE Fresh' /\ LastPoint'
  <2>1. open'[s] = NoTrade /\ \A x \in Symbols \ {s} : open'[x] = open[x]
    BY <1>10, OneTrade, NoTradeInTrade DEF EndOfPeriod, Points, Booked
  <2>2. phase = "period" /\ phase' = "period" /\ bar' = bar /\ s \in Held
        /\ PendingTotal' = PendingTotal
        /\ (open[s].gaps = 0 => curveEnd' = settled' + PendingTotal)
    BY <1>10 DEF EndOfPeriod, Points, Booked, PendingTotal
  <2>3. Fresh'
    BY <2>1, <2>2, NoTradeInTrade DEF Points, Fresh, Held, HasBar
  <2>4. LastPoint'
    BY <2>2 DEF Points, Fresh, LastPoint, AllBars, HasBar
  <2>5. QED
    BY <2>3, <2>4
<1>11. QED
  BY <1>1, <1>2, <1>3, <1>4, <1>5, <1>6, <1>7, <1>8, <1>9, <1>10 DEF Next

LEMMA InitPoints == Init => Points
BY InitBooked DEF Init, Points, Fresh, LastPoint

LEMMA ReportedCurve == Cash /\ Points => CurveEndsAtFinalEquity
<1> SUFFICES ASSUME Cash, Points, phase = "done", AllBars
             PROVE  curveEnd = Capital + realised
  BY DEF CurveEndsAtFinalEquity, AllBars
<1>1. todo = {} /\ Held = {}
  BY DEF Points, Booked
<1>2. curveEnd = settled + PendingTotal
  BY <1>1 DEF Points, LastPoint
<1>3. Invested = 0
  BY <1>1, EmptyValue DEF Points, Booked
<1>4. settled \in Int /\ PendingTotal \in Int
  BY PendingType DEF Points, Booked, TypeOK
<1>5. QED
  BY <1>2, <1>3, <1>4 DEF Cash, CashConserved

-----------------------------------------------------------------------------
(* Entries. *)

\* Only an entry adds a position, and it found a slot for it.
LEMMA EntryFits ==
  ASSUME Booked, [Next]_vars, Cardinality(Held') > Cardinality(Held)
  PROVE  Cardinality(Held') <= BacktestMaxPositions(equity)
<1>1. IsFiniteSet(Held) /\ Cardinality(Held) \in Nat
  BY Given, FS_Subset, FS_CardinalityType DEF Held
<1>2. ASSUME Held' \subseteq Held PROVE FALSE
  <2>1. Cardinality(Held') <= Cardinality(Held) /\ Cardinality(Held') \in Nat
    BY <1>1, <1>2, FS_Subset, FS_CardinalityType
  <2>2. QED
    BY <1>1, <2>1
<1>3. ASSUME NEW s \in Symbols, Enter(s)
      PROVE  Cardinality(Held') <= BacktestMaxPositions(equity)
  <2>1. PICK t \in Trade : open' = [ open EXCEPT ![s] = t ] /\ t.qty > 0
    BY <1>3, EnterTrade
  <2>2. Held' = Held \cup {s}
    BY <2>1, OneTrade DEF Held, Booked
  <2>3. s \notin Held /\ BacktestSlots(equity, settled, Cardinality(Held)) > 0
    BY <1>3 DEF Enter
  <2>4. Cardinality(Held') = Cardinality(Held) + 1
    BY <1>1, <2>2, <2>3, FS_AddElement
  <2>5. BacktestMaxPositions(equity) \in Nat /\ BacktestCashSlots(settled) \in Int
    BY SlotsType, CashSlotsType DEF Booked
  <2>6. BacktestMaxPositions(equity) > Cardinality(Held)
    BY <1>1, <2>3, <2>5 DEF BacktestSlots, Least, Minus
  <2>7. QED
    BY <1>1, <2>4, <2>5, <2>6
<1>4. CASE RegimeAllows \/ DayEnds
  <2>1. Held' = Held
    BY <1>4, RefreshedTrade DEF RegimeAllows, DayEnds, Held, Booked
  <2>2. QED
    BY <1>2, <2>1
<1>5. CASE Morning \/ RegimeBlocks \/ Report \/ UNCHANGED vars
  BY <1>2, <1>5 DEF Morning, RegimeBlocks, Report, vars, Held
<1>6. ASSUME NEW s \in Symbols, NEW t \in Trade, open' = [ open EXCEPT ![s] = t ],
             t.qty > 0 => s \in Held
      PROVE  FALSE
  BY <1>2, <1>6, OneTrade DEF Held, Booked
<1>7. ASSUME NEW s \in Symbols, StopHit(s) \/ ExitAtClose(s) \/ EndOfPeriod(s) PROVE FALSE
  BY <1>6, <1>7, NoTradeInTrade DEF StopHit, ExitAtClose, EndOfPeriod, Close
<1>8. ASSUME NEW s \in Symbols, DataGap(s) \/ Survives(s) PROVE FALSE
  <2>1. s \in Held /\ open[s].bars < Days
    BY <1>8, InTrade, Given DEF DataGap, Survives, LookedAt, Held, Booked, TypeOK
  <2>2. CASE Survives(s)
    BY <1>6, <2>1, <2>2, OlderTrade, InTrade, BarPrices DEF Survives, Booked
  <2>3. CASE DataGap(s) /\ open[s].gaps + 1 >= GapDays
    BY <1>6, <2>1, <2>3, NoTradeInTrade DEF DataGap, Close
  <2>4. CASE DataGap(s) /\ ~ (open[s].gaps + 1 >= GapDays)
    <3> DEFINE t == [ open[s] EXCEPT !.gaps = @ + 1 ]
    <3>1. t \in Trade
      BY <2>4, InTrade, Given DEF Booked, Trade
    <3>2. open' = [ open EXCEPT ![s] = t ]
      BY <2>4 DEF DataGap
    <3> HIDE DEF t
    <3>3. QED
      BY <1>6, <2>1, <3>1, <3>2
  <2>5. QED
    BY <1>8, <2>2, <2>3, <2>4
<1>9. QED
  BY <1>3, <1>4, <1>5, <1>7, <1>8 DEF Next

-----------------------------------------------------------------------------
(* Theorems. *)

\* _run_loop never has the proceeds of a sale among the settled cash on the day of the
\* sale, however long the period and whatever the bars.
THEOREM ProceedsSettleLater == Spec => []SettlesLater
<1>1. Init => Settling
  BY InitSettling
<1>2. Settling /\ [Next]_vars => Settling'
  BY NextInv
<1>3. Settling => SettlesLater
  BY DEF Settling
<1>4. QED
  BY <1>1, <1>2, <1>3, PTL DEF Spec

\* The account, the positions and the calendar of _run_loop keep their types.
THEOREM TypeCorrect == Spec => []TypeOK
<1>1. Booked => TypeOK
  BY DEF Booked
<1>2. QED
  BY <1>1, InitBooked, NextBooked, PTL DEF Spec

\* _run_loop makes and loses no cash: settled, pending and invested cash are the capital
\* and the reported results, for any symbols, bars, days and sizes.
THEOREM NoCashLost == Spec => []CashConserved
<1>1. Cash => CashConserved
  BY DEF Cash
<1>2. QED
  BY <1>1, InitCash, NextCash, PTL DEF Spec

\* The settled cash of _run_loop is never negative if every price of the data pays for
\* the commission of a round trip.
THEOREM NoDebt == ASSUME FeesCovered PROVE Spec => []NeverOverdrawn
<1>1. Sound => NeverOverdrawn
  BY DEF Sound, Solvent, NeverOverdrawn
<1>2. Sound /\ [Next]_vars => Sound'
  BY NextSound
<1>3. QED
  BY <1>1, <1>2, InitSound, PTL DEF Spec

\* An entry of _run_loop never makes more positions than the equity of its scan carries.
THEOREM EntriesFit == Spec => EntriesWithinEquity
<1>1. Booked /\ [Next]_vars
        => [Cardinality(Held') > Cardinality(Held)
              => Cardinality(Held') <= BacktestMaxPositions(equity)]_vars
  BY EntryFits
<1>2. QED
  BY <1>1, InitBooked, NextBooked, PTL DEF Spec, EntriesWithinEquity

\* The curve of _run_loop ends at the capital and the sum of the net results, whatever
\* was sold on the last day and at what price.
THEOREM CurveMeetsReport == Spec => []CurveEndsAtFinalEquity
<1>1. Cash /\ Points => CurveEndsAtFinalEquity
  BY ReportedCurve
<1>2. QED
  BY <1>1, InitCash, NextCash, InitPoints, NextPoints, PTL DEF Spec
===============================================================================
