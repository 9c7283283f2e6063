--------------------------- MODULE EntryRoundProofs ---------------------------
(***************************************************************************)
(* What TLAPS proves of EntryRound for any symbols, sectors, prices,       *)
(* equities, limits and numbers of adverse events.                         *)
(*                                                                         *)
(* The inductive invariant has three layers: the types, and that the BUY   *)
(* the engine waits for was affordable when it was sized (Typed); that no  *)
(* second BUY is ever at the broker, as long as every cancel goes out and  *)
(* lands before the engine goes on (Alone); and what the engine believes about cash compared with what the *)
(* broker has (Money).  On the first two stand the slots the loop has left *)
(* (Spacious) and the positions of the Bollinger sleeve, held and still to *)
(* come (Sleeves).                                                         *)
(***************************************************************************)
EXTENDS EntryRound, FiniteSetTheorems, TLAPS

Waits == {"sent", "unfilled", "stop"}
Quiet == {"idle", "account", "scan", "pick", "stop", "bollinger"}

\* The BUY under way exists, and the cash counted on pays for it.
Typed ==
  /\ TypeOK
  /\ pc \in Waits <=> mine # Nobody
  /\ mine.tag = "swing" => mine.cost <= settled

\* No second BUY is at the broker.
Single == \A i, j \in Working : i = j

\* A BUY that may fill is for a symbol that is neither held nor tracked.
Fresh == \A i \in Working : ~buys[i].cancel => buys[i].sym \notin Held \cup Tracked

\* A BUY at the broker is the one the engine waits for, or was left by a crash.
Awaited ==
  /\ pc \in Quiet => Working = {}
  /\ pc \in {"bootSync", "unfilled"} => \A i \in Working : buys[i].cancel
  /\ pc \in {"sent", "unfilled"} => \A i \in Working : buys[i].sym = mine.sym
  /\ pc = "sent" => \A i \in Working : /\ i = mine.slot /\ ~buys[i].cancel
                                        /\ buys[i].cost = mine.cost

\* What is held is tracked, but for the symbol that is being bought.
Known ==
  /\ pc \in Quiet => Held \subseteq Tracked
  /\ pc \in {"sent", "unfilled"} => Held \subseteq Tracked \cup {mine.sym}

\* A candidate still to be tried is not tracked.
Untried ==
  /\ pc \in Waits \cup {"pick"} => signals \cap Tracked = {}
  /\ pc \in Waits => mine.sym \notin signals
  /\ pc = "bollinger" => signals = {}

Facts == Single /\ Fresh /\ Awaited /\ Known /\ Untried

Alone == CancelsLand => Facts

\* What a fill has cost that the engine has not yet counted.
Due ==
  IF pc = "stop" \/ (pc = "sent" /\ Working = {}) THEN mine.cost ELSE 0

\* The cycle never counts on cash that is spent.
Sound ==
  /\ pc = "account" => unposted = 0
  /\ \/ pc \in {"scan", "pick"}
     \/ pc \in Waits /\ mine.tag = "swing"
     => settled <= cash + Due
  /\ pc \in Waits \cup {"account", "scan", "pick", "bollinger"}
     => unposted <= committed + Due
  /\ \A i \in Working : ~buys[i].cancel => buys[i].cost <= cash

Money == excused = {} => Sound

Inv == Typed /\ Alone /\ Money

-----------------------------------------------------------------------------
(* The parts of the type invariant. *)

Order  == [ sym : Symbol, cost : Nat, tag : Tags, cancel : BOOLEAN ]
Await  == [ slot : Slot, sym : Symbol, cost : Nat, tag : Tags ]
Labels == { "boot", "bootSync", "idle", "account", "scan", "pick", "sent",
            "unfilled", "stop", "bollinger" }

Books ==
  /\ tag \in [Symbol -> Tags \cup {"none", "unknown"}]
  /\ lots \in [Symbol -> [ tag : Tags \cup {"none"}, cost : Nat ]]
  /\ buys \in [Slot -> {NoBuy} \cup Order]
  /\ cash \in Nat /\ unsettled \in Nat /\ unposted \in Nat

Counts ==
  /\ dayStart \in Nat /\ equity \in Nat /\ settled \in Nat /\ committed \in Nat
  /\ slots \in Nat /\ placed \in Nat /\ faults \in Nat
  /\ alloc \in [ cash : Nat, slots : Nat ]

Rest ==
  /\ pc \in Labels
  /\ signals \subseteq Symbol
  /\ mine \in {Nobody} \cup Await
  /\ exposed \in BOOLEAN /\ tripped \in BOOLEAN
  /\ excused \subseteq Faults

\* The type invariant is its three parts.
LEMMA TypeParts ==
  TypeOK <=> Books /\ Counts /\ Rest
BY DEF TypeOK, Books, Counts, Rest, Order, Await, Labels

\* So it is in the next state.
LEMMA TypePartsNext ==
  TypeOK' <=> Books' /\ Counts' /\ Rest'
BY DEF TypeOK, Books, Counts, Rest, Order, Await, Labels

-----------------------------------------------------------------------------
(* Slots, buckets and sizes. *)

\* Whole division of natural numbers gives a natural number.
LEMMA DivTyped ==
  ASSUME NEW m \in Nat, NEW n \in Nat \ {0}
  PROVE  m \div n \in Nat
BY Z3

\* The capacity of an account is a number of positions, at most the cap.
LEMMA MaxPositionsTyped ==
  ASSUME NEW e \in Nat
  PROVE  MaxPositions(e) \in Nat /\ MaxPositions(e) <= Cap
<1>1. e \div MinBucket \in Nat
  BY DivTyped, NumbersAssumption, SizesAssumption
<1>2. QED
  BY <1>1, NumbersAssumption, SizesAssumption DEF MaxPositions, Least

\* A number of slots is never negative, and never more than the free capacity.
LEMMA EntrySlotsTyped ==
  ASSUME NEW e \in Nat, NEW c \in Nat, NEW open \in Nat
  PROVE  /\ EntrySlots(e, c, open) \in Nat
         /\ EntrySlots(e, c, open) > 0
              => open + EntrySlots(e, c, open) <= MaxPositions(e)
<1>1. MaxPositions(e) \in Nat
  BY MaxPositionsTyped
<1>2. c * DeployPct \in Nat /\ 100 * MinBucket \in Nat \ {0}
  BY NumbersAssumption, SizesAssumption
<1>3. (c * DeployPct) \div (100 * MinBucket) \in Nat
  BY <1>2, DivTyped
<1>4. CashSlots(c) \in Nat
  BY <1>3 DEF CashSlots
<1>5. QED
  BY <1>1, <1>4 DEF EntrySlots, Least, Minus

\* The symbols tracked are finitely many.
LEMMA TrackedCounted ==
  Cardinality(Tracked) \in Nat
<1>1. IsFiniteSet(Tracked)
  BY FS_Subset, SymbolAssumption DEF Tracked
<1>2. QED
  BY <1>1, FS_CardinalityType

\* An allocation is made of natural numbers.
LEMMA AllocationTyped ==
  ASSUME NEW e \in Nat, NEW c \in Nat
  PROVE  /\ Allocation(e, c, Cardinality(Tracked)) \in [ cash : Nat, slots : Nat ]
         /\ Allocation(e, c, Cardinality(Tracked)).slots
              = EntrySlots(e, c, Cardinality(Tracked))
BY TrackedCounted, EntrySlotsTyped DEF Allocation

\* Bucket and risk give whole numbers of shares, so their costs are natural.
LEMMA CostTyped ==
  ASSUME NEW a \in [ cash : Nat, slots : Nat ], NEW e \in Nat, NEW limit \in Prices
  PROVE  /\ BucketQty(a, limit) \in Nat
         /\ RiskQty(e, limit) \in Nat
         /\ \A q \in Nat : q * limit \in Nat
<1>1. limit \in Nat \ {0} /\ DeployPct \in Nat /\ RiskPct \in Nat
  BY NumbersAssumption, SizesAssumption
<1>2. a.cash \in Nat /\ a.slots \in Nat
  OBVIOUS
<1>3. a.cash * DeployPct \in Nat /\ e * RiskPct \in Nat /\ 100 * limit \in Nat \ {0}
  BY <1>1, <1>2
<1>4. ASSUME a.slots # 0 PROVE 100 * a.slots * limit \in Nat \ {0}
  <2>1. 100 * a.slots \in Nat \ {0}
    BY <1>2, <1>4
  <2>2. ASSUME NEW m \in Nat \ {0}, NEW n \in Nat \ {0} PROVE m * n \in Nat \ {0}
    OBVIOUS
  <2>3. QED
    BY <1>1, <2>1, <2>2
<1>5. BucketQty(a, limit) \in Nat
  BY <1>3, <1>4, DivTyped DEF BucketQty
<1>6. RiskQty(e, limit) \in Nat
  BY <1>3, DivTyped DEF RiskQty
<1>7. QED
  BY <1>1, <1>5, <1>6

-----------------------------------------------------------------------------
(* The types are kept. *)

Paid ==
  /\ pc \in Waits <=> mine # Nobody
  /\ mine.tag = "swing" => mine.cost <= settled

\* The engine starts with nothing bought.
LEMMA InitTyped ==
  Init => Typed
<1>1. ASSUME Init PROVE Books
  BY <1>1, NumbersAssumption, SizesAssumption DEF Init, Books, NoLot
<1>2. ASSUME Init PROVE Counts
  BY <1>2, NumbersAssumption, SizesAssumption DEF Init, Counts, NoAlloc
<1>3. ASSUME Init PROVE Rest
  BY <1>3 DEF Init, Rest, Labels
<1>4. ASSUME Init PROVE Paid
  BY <1>4 DEF Init, Paid, Waits, Nobody
<1>5. QED
  BY <1>1, <1>2, <1>3, <1>4, TypeParts DEF Typed, Paid

\* A BUY is sent into a free slot, and becomes the one the engine waits for.
LEMMA SendTyped ==
  ASSUME Books, NEW s \in Symbol, NEW t \in Tags, NEW cost \in Nat, Send(s, t, cost)
  PROVE  /\ buys' \in [Slot -> {NoBuy} \cup Order]
         /\ mine' \in Await /\ mine'.tag = t /\ mine'.cost = cost
         /\ pc' = "sent"
BY DEF Books, Send, Order, Await, Working

\* What leaves the locals of the scan at their first value.
LEMMA ScanOverTyped ==
  ASSUME ScanOver
  PROVE  /\ equity' \in Nat /\ settled' \in Nat /\ slots' \in Nat /\ placed' \in Nat
         /\ alloc' \in [ cash : Nat, slots : Nat ]
         /\ signals' \subseteq Symbol
BY DEF ScanOver, NoAlloc

\* A sync keeps the tags.
LEMMA SyncTyped ==
  ASSUME Books, Sync
  PROVE  tag' \in [Symbol -> Tags \cup {"none", "unknown"}]
BY DEF Books, Sync

\* A cancel that raises spends an adverse event.
LEMMA CancelRaisesTyped ==
  ASSUME Counts, Rest, CancelRaises
  PROVE  faults' \in Nat /\ excused' \subseteq Faults
BY DEF Counts, Rest, CancelRaises

\* So does one that is slow.
LEMMA SleepsTyped ==
  ASSUME Counts, Rest, Sleeps
  PROVE  faults' \in Nat /\ excused' \subseteq Faults
BY DEF Counts, Rest, Sleeps

\* Selling a position keeps the broker's books.
LEMMA SellTyped ==
  ASSUME Books, NEW s \in Symbol,
         unsettled' = unsettled + lots[s].cost, lots' = [lots EXCEPT ![s] = NoLot]
  PROVE  /\ unsettled' \in Nat
         /\ lots' \in [Symbol -> [ tag : Tags \cup {"none"}, cost : Nat ]]
BY DEF Books, NoLot

\* What the broker, settlement and a sale by hand do keeps the types.
LEMMA BrokerTyped ==
  ASSUME Typed, BrokerNext
  PROVE  Typed'
<1>1. Books /\ Counts /\ Rest /\ Paid
  BY TypeParts DEF Typed, Paid
<1>2. ASSUME NEW i \in Slot, Fill(i) PROVE Books' /\ Counts' /\ Rest'
  <2>1. buys[i] \in Order /\ buys[i].cost <= cash
    BY <1>1, <1>2 DEF Books, Fill, Working
  <2>2. buys[i].sym \in Symbol /\ buys[i].tag \in Tags /\ buys[i].cost \in Nat
    BY <2>1 DEF Order
  <2>3. cash' \in Nat /\ unposted' \in Nat
    BY <1>1, <1>2, <2>1, <2>2 DEF Books, Fill
  <2>4. lots' \in [Symbol -> [ tag : Tags \cup {"none"}, cost : Nat ]]
    BY <1>1, <1>2, <2>2 DEF Books, Fill
  <2>5. buys' \in [Slot -> {NoBuy} \cup Order]
    BY <1>1, <1>2 DEF Books, Fill
  <2>6. faults' \in Nat /\ excused' \subseteq Faults
    BY <1>1, <1>2 DEF Counts, Rest, Fill
  <2>7. Books'
    BY <1>1, <1>2, <2>3, <2>4, <2>5 DEF Books, Fill
  <2>8. Counts' /\ Rest'
    BY <1>1, <1>2, <2>6 DEF Counts, Rest, Fill, round, scan, history
  <2>9. QED
    BY <2>7, <2>8
<1>3. ASSUME NEW i \in Slot, CancelLands(i) PROVE Books' /\ Counts' /\ Rest'
  BY <1>1, <1>3 DEF Books, Counts, Rest, CancelLands, round, scan, history
<1>4. ASSUME NEW s \in Symbol, Sell(s) PROVE Books' /\ Counts' /\ Rest'
  <2>1. /\ unsettled' \in Nat
        /\ lots' \in [Symbol -> [ tag : Tags \cup {"none"}, cost : Nat ]]
    BY <1>1, <1>4, SellTyped DEF Sell
  <2>2. QED
    BY <1>1, <1>4, <2>1 DEF Books, Counts, Rest, Sell, round, scan, history
<1>5. ASSUME Post PROVE Books' /\ Counts' /\ Rest'
  BY <1>1, <1>5 DEF Books, Counts, Rest, Post, round, scan, history
<1>6. ASSUME NewDay PROVE Books' /\ Counts' /\ Rest'
  <2>1. Books'
    BY <1>1, <1>6 DEF Books, NewDay
  <2>2. Counts'
    BY <1>1, <1>6 DEF Counts, NewDay, round, scan
  <2>3. Rest'
    BY <1>1, <1>6 DEF Rest, NewDay, round, scan
  <2>4. QED
    BY <2>1, <2>2, <2>3
<1>7. Books' /\ Counts' /\ Rest'
  BY <1>1, <1>2, <1>3, <1>4, <1>5, <1>6 DEF BrokerNext
<1>8. Paid'
  BY <1>1 DEF Paid, BrokerNext, Fill, CancelLands, Sell, Post, NewDay, round, scan
<1>9. QED
  BY <1>7, <1>8, TypePartsNext DEF Typed, Paid

\* Startup, sync and the end of a cycle keep the types.
LEMMA StartTyped ==
  ASSUME Typed, \/ Boot \/ BootSync \/ Crash \/ CycleSync \/ NoEntries \/ NoSwing
                \/ LoopOver \/ NoBollinger \/ BollingerProtected
  PROVE  Typed'
<1>1. Books /\ Counts /\ Rest /\ Paid
  BY TypeParts DEF Typed, Paid
<1>2. ASSUME Boot PROVE Books' /\ Counts' /\ Rest' /\ Paid'
  <2>1. buys' \in [Slot -> {NoBuy} \cup Order]
    <3>1. \A i \in Slot : i \in Working => [buys[i] EXCEPT !.cancel = TRUE] \in Order
      BY <1>1 DEF Books, Order, Working
    <3> DEFINE orphans == { i \in Working : buys[i].sym \notin Tracked \cup Held }
    <3>2. \/ buys' = [ i \in Slot |-> IF i \in orphans
                                      THEN [buys[i] EXCEPT !.cancel = TRUE]
                                      ELSE buys[i] ]
          \/ buys' = buys
      BY <1>2 DEF Boot
    <3>3. CASE buys' = buys
      BY <1>1, <3>3 DEF Books
    <3>4. CASE buys' # buys
      BY <1>1, <3>1, <3>2, <3>4 DEF Books
    <3>5. QED
      BY <3>3, <3>4
  <2>2. faults' \in Nat /\ excused' \subseteq Faults
    BY <1>1, <1>2, CancelRaisesTyped DEF Counts, Rest, Boot
  <2>3. Books'
    BY <1>1, <1>2, <2>1 DEF Books, Boot
  <2>4. Counts' /\ Rest'
    BY <1>1, <1>2, <2>2 DEF Counts, Rest, Boot, round, scan, history, Labels
  <2>5. Paid'
    BY <1>1, <1>2 DEF Paid, Boot, round, scan, Waits
  <2>6. QED
    BY <2>3, <2>4, <2>5
<1>3. ASSUME BootSync PROVE Books' /\ Counts' /\ Rest' /\ Paid'
  <2>1. Books'
    BY <1>1, <1>3, SyncTyped DEF Books, BootSync, broker
  <2>2. Counts' /\ Rest' /\ Paid'
    BY <1>1, <1>3, SleepsTyped
    DEF Counts, Rest, Paid, BootSync, round, scan, history, Labels, Waits
  <2>3. QED
    BY <2>1, <2>2
<1>4. ASSUME Crash PROVE Books' /\ Counts' /\ Rest' /\ Paid'
  <2>1. Books'
    BY <1>1, <1>4 DEF Books, Crash, broker
  <2>2. Counts'
    BY <1>1, <1>4, ScanOverTyped DEF Counts, Crash
  <2>3. Rest'
    BY <1>1, <1>4, ScanOverTyped DEF Rest, Crash, Labels
  <2>4. Paid'
    BY <1>4 DEF Paid, Crash, Waits, Nobody
  <2>5. QED
    BY <2>1, <2>2, <2>3, <2>4
<1>5. ASSUME CycleSync PROVE Books' /\ Counts' /\ Rest' /\ Paid'
  <2>1. Books'
    BY <1>1, <1>5, SyncTyped DEF Books, CycleSync, broker
  <2>2. Counts' /\ Paid'
    BY <1>1, <1>5 DEF Counts, Paid, CycleSync, scan, Waits
  <2>3. Rest'
    BY <1>1, <1>5 DEF Rest, CycleSync, scan, Labels
  <2>4. QED
    BY <2>1, <2>2, <2>3
<1>6. ASSUME NoEntries \/ NoSwing \/ LoopOver
      PROVE  Books' /\ Counts' /\ Rest' /\ Paid'
  <2>1. Books'
    BY <1>1, <1>6 DEF Books, NoEntries, NoSwing, LoopOver, broker
  <2>2. Counts'
    BY <1>1, <1>6, ScanOverTyped DEF Counts, NoEntries, NoSwing, LoopOver
  <2>3. Rest'
    BY <1>1, <1>6, ScanOverTyped
    DEF Rest, NoEntries, NoSwing, LoopOver, history, Labels
  <2>4. mine = Nobody
    BY <1>1, <1>6 DEF Paid, NoEntries, NoSwing, LoopOver, Waits
  <2>5. Paid'
    BY <1>6, <2>4 DEF Paid, NoEntries, NoSwing, LoopOver, Waits, Nobody
  <2>6. QED
    BY <2>1, <2>2, <2>3, <2>5
<1>7. ASSUME NoBollinger PROVE Books' /\ Counts' /\ Rest' /\ Paid'
  <2>1. Books'
    BY <1>1, <1>7 DEF Books, NoBollinger, broker
  <2>2. Counts' /\ Rest' /\ Paid'
    BY <1>1, <1>7
    DEF Counts, Rest, Paid, NoBollinger, round, scan, history, Labels, Waits
  <2>3. QED
    BY <2>1, <2>2
<1>8. ASSUME BollingerProtected PROVE Books' /\ Counts' /\ Rest' /\ Paid'
  <2>1. Books'
    BY <1>1, <1>8 DEF Books, BollingerProtected, broker
  <2>2. Counts'
    BY <1>1, <1>8, ScanOverTyped DEF Counts, BollingerProtected
  <2>3. Rest'
    BY <1>1, <1>8, ScanOverTyped DEF Rest, BollingerProtected, history, Labels
  <2>4. Paid'
    BY <1>8 DEF Paid, BollingerProtected, Waits, Nobody
  <2>5. QED
    BY <2>1, <2>2, <2>3, <2>4
<1>9. Books' /\ Counts' /\ Rest' /\ Paid'
  BY <1>2, <1>3, <1>4, <1>5, <1>6, <1>7, <1>8
<1>10. QED
  BY <1>9, TypePartsNext DEF Typed, Paid

\* The account, the scan, orders, fills, exits and the second entry path keep the
\* types: what is deducted was there.
LEMMA TradeTyped ==
  ASSUME Typed, \/ ReadAccount \/ Scan \/ Buy \/ Skip \/ Bought \/ NotBought
                \/ AfterCancel \/ Protected \/ BollingerBuy
                \/ \E s \in Symbol : Exit(s)
  PROVE  Typed'
<1>1. Books /\ Counts /\ Rest /\ Paid
  BY TypeParts DEF Typed, Paid
<1>2. ASSUME ReadAccount PROVE Books' /\ Counts' /\ Rest' /\ Paid'
  <2>1. Books'
    BY <1>1, <1>2 DEF Books, ReadAccount, broker
  <2>2. PICK e \in Equities :
          /\ dayStart' = IF dayStart = 0 THEN e ELSE dayStart
          /\ tripped' = (tripped \/ Drawdown(e))
          /\ IF Drawdown(e)
             THEN pc' = "idle" /\ UNCHANGED << equity, settled >>
             ELSE pc' = "scan" /\ equity' = e /\ settled' = Reported
    BY <1>2 DEF ReadAccount
  <2>3. e \in Nat /\ Reported \in Nat
    BY <1>1, NumbersAssumption, SizesAssumption DEF Books, Reported
  <2>4. Counts'
    BY <1>1, <1>2, <2>2, <2>3 DEF Counts, ReadAccount
  <2>5. tripped' \in BOOLEAN
    BY <2>2
  <2>6. pc' \in {"idle", "scan"}
    BY <2>2
  <2>7. Rest'
    BY <1>1, <1>2, <2>5, <2>6 DEF Rest, ReadAccount, Labels
  <2>8. mine = Nobody
    BY <1>1, <1>2 DEF Paid, ReadAccount, Waits
  <2>9. Paid'
    BY <1>2, <2>6, <2>8 DEF Paid, ReadAccount, Waits, Nobody
  <2>10. QED
    BY <2>1, <2>4, <2>7, <2>9
<1>3. ASSUME Scan PROVE Books' /\ Counts' /\ Rest' /\ Paid'
  <2>1. Books'
    BY <1>1, <1>3 DEF Books, Scan, broker
  <2>2. Counts'
    BY <1>1, <1>3, AllocationTyped, EntrySlotsTyped, TrackedCounted DEF Counts, Scan
  <2>3. Rest'
    BY <1>1, <1>3 DEF Rest, Scan, history, Labels
  <2>4. Paid'
    BY <1>1, <1>3 DEF Paid, Scan, Waits
  <2>5. QED
    BY <2>1, <2>2, <2>3, <2>4
<1>4. ASSUME Buy PROVE Books' /\ Counts' /\ Rest' /\ Paid'
  <2>1. PICK s \in signals, limit \in Prices :
          LET qty == Least(BucketQty(alloc, limit), RiskQty(equity, limit))
          IN  /\ qty * limit <= settled
              /\ Send(s, "swing", qty * limit)
              /\ signals' = signals \ {s}
    BY <1>4 DEF Buy
  <2> DEFINE cost == Least(BucketQty(alloc, limit), RiskQty(equity, limit)) * limit
  <2>2. cost \in Nat
    BY <1>1, CostTyped DEF Counts, Least
  <2>3. s \in Symbol /\ "swing" \in Tags /\ Send(s, "swing", cost) /\ cost <= settled
    BY <1>1, <2>1 DEF Rest, Tags
  <2>4. /\ buys' \in [Slot -> {NoBuy} \cup Order]
        /\ mine' \in Await /\ mine'.tag = "swing" /\ mine'.cost = cost
        /\ pc' = "sent"
    BY <1>1, <2>2, <2>3, SendTyped
  <2>5. Books'
    BY <1>1, <1>4, <2>4 DEF Books, Buy
  <2>6. Counts'
    BY <1>1, <1>4 DEF Counts, Buy
  <2>7. Rest'
    BY <1>1, <1>4, <2>1, <2>4 DEF Rest, Buy, history, Labels
  <2>8. Paid'
    BY <1>4, <2>3, <2>4 DEF Paid, Buy, Waits, Nobody, Await, Tags
  <2>9. QED
    BY <2>5, <2>6, <2>7, <2>8
<1>5. ASSUME Skip PROVE Books' /\ Counts' /\ Rest' /\ Paid'
  <2>1. Books'
    BY <1>1, <1>5 DEF Books, Skip, broker
  <2>2. Counts' /\ Rest' /\ Paid'
    BY <1>1, <1>5 DEF Counts, Rest, Paid, Skip, history
  <2>3. QED
    BY <2>1, <2>2
<1>6. ASSUME Bought PROVE Books' /\ Counts' /\ Rest' /\ Paid'
  <2>1. mine \in Await
    BY <1>1, <1>6 DEF Paid, Rest, Bought, Waits
  <2>2. mine.tag \in Tags /\ mine.sym \in Symbol
    BY <2>1 DEF Await
  <2>3. Books'
    BY <1>1, <1>6, <2>2 DEF Books, Bought, broker
  <2>4. Counts'
    BY <1>1, <1>6 DEF Counts, Bought, round, scan
  <2>5. Rest' /\ Paid'
    BY <1>1, <1>6 DEF Rest, Paid, Bought, round, scan, history, Labels, Waits
  <2>6. QED
    BY <2>3, <2>4, <2>5
<1>7. ASSUME NotBought PROVE Books' /\ Counts' /\ Rest' /\ Paid'
  <2>1. mine \in Await
    BY <1>1, <1>7 DEF Paid, Rest, NotBought, Waits
  <2>2. buys[mine.slot] \in Order
    BY <1>1, <1>7, <2>1 DEF Books, NotBought, Filled, Await
  <2>3. [buys[mine.slot] EXCEPT !.cancel = TRUE] \in Order
    BY <2>2 DEF Order
  <2>4. buys' \in [Slot -> {NoBuy} \cup Order]
    BY <1>1, <1>7, <2>1, <2>3 DEF Books, NotBought, Await
  <2>5. faults' \in Nat /\ excused' \subseteq Faults
    BY <1>1, <1>7, CancelRaisesTyped DEF Counts, Rest, NotBought
  <2>6. Books'
    BY <1>1, <1>7, <2>4 DEF Books, NotBought
  <2>7. Counts' /\ Rest'
    BY <1>1, <1>7, <2>5 DEF Counts, Rest, NotBought, round, scan, history, Labels
  <2>8. Paid'
    BY <1>1, <1>7 DEF Paid, NotBought, round, scan, Waits
  <2>9. QED
    BY <2>6, <2>7, <2>8
<1>8. ASSUME AfterCancel PROVE Books' /\ Counts' /\ Rest' /\ Paid'
  <2>1. Books'
    BY <1>1, <1>8, SyncTyped DEF Books, AfterCancel, broker
  <2>2. Counts'
    BY <1>1, <1>8, ScanOverTyped, SleepsTyped DEF Counts, AfterCancel, scan
  <2>3. Rest'
    BY <1>1, <1>8, ScanOverTyped, SleepsTyped DEF Rest, AfterCancel, scan, history, Labels
  <2>4. Paid'
    BY <1>8 DEF Paid, AfterCancel, Waits, Nobody
  <2>5. QED
    BY <2>1, <2>2, <2>3, <2>4
<1>9. ASSUME Protected PROVE Books' /\ Counts' /\ Rest' /\ Paid'
  <2>1. mine \in Await /\ mine.cost <= settled
    BY <1>1, <1>9 DEF Paid, Rest, Protected, Waits
  <2>2. mine.cost \in Nat
    BY <2>1 DEF Await
  <2>3. Books'
    BY <1>1, <1>9 DEF Books, Protected, broker
  <2>4. ASSUME Settle(mine.cost) PROVE Counts' /\ signals' \subseteq Symbol
    <3>1. settled' \in Nat
      BY <1>1, <2>1, <2>2, <2>4 DEF Counts, Settle
    <3>2. alloc' \in [ cash : Nat, slots : Nat ]
      BY <1>1, <2>4, <3>1, AllocationTyped DEF Counts, Settle
    <3>3. QED
      BY <1>1, <1>9, <2>2, <2>4, <3>1, <3>2 DEF Counts, Rest, Settle, Protected
  <2>5. ASSUME ScanOver PROVE Counts' /\ signals' \subseteq Symbol
    BY <1>1, <1>9, <2>2, <2>5, ScanOverTyped DEF Counts, Protected
  <2>6. Counts' /\ signals' \subseteq Symbol
    BY <1>9, <2>4, <2>5 DEF Protected
  <2>7. pc' \in {"pick", "bollinger"} /\ exposed' \in BOOLEAN /\ mine' = Nobody
    BY <1>1, <1>9 DEF Rest, Protected
  <2>8. Rest'
    BY <1>1, <1>9, <2>6, <2>7 DEF Rest, Protected, Labels
  <2>9. Paid'
    BY <2>7 DEF Paid, Waits, Nobody
  <2>10. QED
    BY <2>3, <2>6, <2>8, <2>9
<1>10. ASSUME BollingerBuy PROVE Books' /\ Counts' /\ Rest' /\ Paid'
  <2>1. PICK s \in Symbol \ Tracked, limit \in Prices :
          Send(s, "bollinger", BucketQty(Allocation(equity', BollingerCash,
                                                    Cardinality(Tracked)), limit) * limit)
    BY <1>10 DEF BollingerBuy
  <2> DEFINE bucket == Allocation(equity', BollingerCash, Cardinality(Tracked))
             cost   == BucketQty(bucket, limit) * limit
  <2>2. BollingerCash \in Nat /\ equity' \in Nat
    BY <1>1, <1>10, NumbersAssumption, SizesAssumption
    DEF Books, Counts, BollingerBuy, BollingerCash, Reported, Minus
  <2>3. bucket \in [ cash : Nat, slots : Nat ]
    BY <2>2, AllocationTyped
  <2>4. cost \in Nat
    BY <2>2, <2>3, CostTyped
  <2>5. /\ buys' \in [Slot -> {NoBuy} \cup Order]
        /\ mine' \in Await /\ mine'.tag = "bollinger"
        /\ pc' = "sent"
    BY <1>1, <2>1, <2>4, SendTyped DEF Tags
  <2>6. Books'
    BY <1>1, <1>10, <2>5 DEF Books, BollingerBuy
  <2>7. Counts'
    BY <1>1, <1>10, <2>2 DEF Counts, BollingerBuy
  <2>8. Rest'
    BY <1>1, <1>10, <2>5 DEF Rest, BollingerBuy, history, Labels
  <2>9. Paid'
    BY <2>5 DEF Paid, Waits, Nobody, Await, Tags
  <2>10. QED
    BY <2>6, <2>7, <2>8, <2>9
<1>11. ASSUME NEW s \in Symbol, Exit(s) PROVE Books' /\ Counts' /\ Rest' /\ Paid'
  <2>1. /\ unsettled' \in Nat
        /\ lots' \in [Symbol -> [ tag : Tags \cup {"none"}, cost : Nat ]]
    BY <1>1, <1>11, SellTyped DEF Exit
  <2>2. Books'
    BY <1>1, <1>11, <2>1 DEF Books, Exit
  <2>3. Counts' /\ Rest' /\ Paid'
    BY <1>1, <1>11 DEF Counts, Rest, Paid, Exit, round, scan, history
  <2>4. QED
    BY <2>2, <2>3
<1>12. Books' /\ Counts' /\ Rest' /\ Paid'
  BY <1>2, <1>3, <1>4, <1>5, <1>6, <1>7, <1>8, <1>9, <1>10, <1>11
<1>13. QED
  BY <1>12, TypePartsNext DEF Typed, Paid

\* Every step keeps the types.
LEMMA TypedStep ==
  ASSUME Typed, [Next]_vars
  PROVE  Typed'
<1>1. CASE Next
  BY <1>1, BrokerTyped, StartTyped, TradeTyped DEF Next, Engine
<1>2. CASE UNCHANGED vars
  <2>1. Books /\ Counts /\ Rest
    BY TypeParts DEF Typed
  <2>2. Books' /\ Counts' /\ Rest'
    BY <1>2, <2>1 DEF Books, Counts, Rest, vars, broker, round, scan, history
  <2>3. QED
    BY <1>2, <2>2, TypePartsNext DEF Typed, vars, round, scan
<1>3. QED
  BY <1>1, <1>2

\* Whatever the account, the limits and the adverse events, every quantity the engine
\* and the broker keep stays a natural number (settled cash is never counted below
\* zero, slots never go negative) and every record keeps its shape.
THEOREM TypeCorrect ==
  Spec => []TypeOK
<1>1. Typed => TypeOK
  BY DEF Typed
<1>2. QED
  BY <1>1, InitTyped, TypedStep, PTL DEF Spec

-----------------------------------------------------------------------------
(* At most one BUY is at the broker. *)

\* Without a BUY at the broker there is nothing to be said of one.
LEMMA NoneWorking ==
  ASSUME Working' = {}
  PROVE  Single' /\ Fresh' /\ Awaited'
BY DEF Single, Fresh, Awaited

\* A BUY to be cancelled is at the broker.
LEMMA CancelledWorks ==
  ASSUME NEW i \in Slot, buys[i].cancel
  PROVE  i \in Working
BY DEF Working, NoBuy

\* After a sync everything held is tracked, and nothing untracked became so but by
\* being held.
LEMMA SyncKnows ==
  ASSUME Books, Sync, lots' = lots
  PROVE  /\ Held' \subseteq Tracked'
         /\ Tracked' \subseteq Tracked \cup Held
<1>1. PICK gone \in SUBSET (Tracked \ Held) :
        tag' = [ s \in Symbol |-> IF s \in Held \ Tracked THEN "unknown"
                                  ELSE IF s \in gone THEN "none" ELSE tag[s] ]
  BY DEF Sync
<1>2. QED
  BY <1>1 DEF Books, Tracked, Held

\* The broker's steps leave at most one BUY.
LEMMA BrokerAlone ==
  ASSUME Typed, Facts, BrokerNext
  PROVE  Facts'
<1>1. Books /\ Rest
  BY TypeParts DEF Typed
<1>2. ASSUME NEW i \in Slot, Fill(i) PROVE Facts'
  <2>1. i \in Working /\ Working' = {}
    BY <1>1, <1>2 DEF Facts, Single, Working, Fill, Books
  <2>2. buys[i].sym \in Symbol
    BY <1>1, <2>1 DEF Books, Working, Order
  <2>3. Held' \subseteq Held \cup {buys[i].sym} /\ Tracked' = Tracked
    BY <1>1, <1>2 DEF Held, Tracked, Fill, Books
  <2>4. pc \notin Quiet /\ pc' = pc /\ mine' = mine /\ signals' = signals
    BY <1>2, <2>1 DEF Facts, Awaited, Fill, round, scan
  <2>5. pc \in {"sent", "unfilled"} => buys[i].sym = mine.sym
    BY <2>1 DEF Facts, Awaited
  <2>6. Known'
    BY <2>3, <2>4, <2>5 DEF Facts, Known
  <2>7. Untried'
    BY <2>3, <2>4 DEF Facts, Untried
  <2>8. QED
    BY <2>1, <2>6, <2>7, NoneWorking DEF Facts
<1>3. ASSUME NEW i \in Slot, CancelLands(i) PROVE Facts'
  <2>1. i \in Working
    BY <1>3, CancelledWorks DEF CancelLands
  <2>2. Working' = {}
    BY <1>1, <1>3, <2>1 DEF Facts, Single, Working, CancelLands, Books
  <2>3. /\ Held' = Held /\ Tracked' = Tracked /\ pc' = pc
        /\ mine' = mine /\ signals' = signals
    BY <1>3 DEF Held, Tracked, CancelLands, round, scan
  <2>4. QED
    BY <2>2, <2>3, NoneWorking DEF Facts, Known, Untried
<1>4. ASSUME NEW s \in Symbol, Sell(s) PROVE Facts'
  <2>1. Held' \subseteq Held
    BY <1>1, <1>4 DEF Held, Sell, Books, NoLot
  <2>2. /\ Tracked' = Tracked /\ pc' = pc /\ buys' = buys /\ Working' = Working
        /\ mine' = mine /\ signals' = signals
    BY <1>4 DEF Tracked, Working, Sell, round, scan
  <2>3. QED
    BY <2>1, <2>2 DEF Facts, Single, Fresh, Awaited, Known, Untried
<1>5. ASSUME Post PROVE Facts'
  BY <1>5 DEF Facts, Single, Fresh, Awaited, Known, Untried, Post, Working, Held,
     Tracked, round, scan
<1>6. ASSUME NewDay PROVE Facts'
  <2>1. Working' = {}
    BY <1>6 DEF Working, NewDay
  <2>2. /\ Held' = Held /\ Tracked' = Tracked /\ pc' = pc
        /\ mine' = mine /\ signals' = signals
    BY <1>6 DEF Held, Tracked, NewDay, round, scan
  <2>3. QED
    BY <2>1, <2>2, NoneWorking DEF Facts, Known, Untried
<1>7. QED
  BY <1>2, <1>3, <1>4, <1>5, <1>6 DEF BrokerNext

\* A step between two points at which no BUY is at the broker leaves none there.
LEMMA QuietAlone ==
  ASSUME Typed, Facts,
         \/ CycleSync \/ ReadAccount \/ NoEntries \/ NoSwing \/ Scan \/ Skip
         \/ LoopOver \/ Protected \/ BollingerProtected \/ NoBollinger
         \/ \E s \in Symbol : Exit(s)
  PROVE  Facts'
<1>1. Books /\ Rest
  BY TypeParts DEF Typed
<1>2. pc \in Quiet /\ buys' = buys
  BY DEF CycleSync, ReadAccount, NoEntries, NoSwing, Scan, Skip, LoopOver, Protected,
     BollingerProtected, NoBollinger, Exit, Quiet, broker
<1>3. Working' = {}
  BY <1>2 DEF Facts, Awaited, Working
<1>4. Held \subseteq Tracked
  BY <1>2 DEF Facts, Known
<1>5. ASSUME CycleSync PROVE Known' /\ Untried'
  <2>1. Held' \subseteq Tracked'
    BY <1>1, <1>5, SyncKnows DEF CycleSync, broker
  <2>2. pc' = "account"
    BY <1>5 DEF CycleSync
  <2>3. QED
    BY <2>1, <2>2 DEF Known, Untried, Waits
<1>6. ASSUME \/ ReadAccount \/ NoEntries \/ NoSwing \/ LoopOver \/ BollingerProtected
             \/ NoBollinger
      PROVE  Known' /\ Untried'
  <2>1. Held' = Held /\ Tracked' = Tracked
    BY <1>6 DEF ReadAccount, NoEntries, NoSwing, LoopOver, BollingerProtected,
       NoBollinger, broker, Held, Tracked
  <2>2. \/ pc' \in {"idle", "scan"}
        \/ pc' = "bollinger" /\ signals' = {}
    BY <1>6 DEF ReadAccount, NoEntries, NoSwing, LoopOver, BollingerProtected,
       NoBollinger, ScanOver
  <2>3. QED
    BY <1>4, <2>1, <2>2 DEF Known, Untried, Waits
<1>7. ASSUME Scan PROVE Known' /\ Untried'
  <2>1. Held' = Held /\ Tracked' = Tracked /\ pc' = "pick"
    BY <1>7 DEF Scan, broker, Held, Tracked
  <2>2. signals' \cap Tracked = {}
    BY <1>7 DEF Scan
  <2>3. QED
    BY <1>4, <2>1, <2>2 DEF Known, Untried, Waits
<1>8. ASSUME Skip PROVE Known' /\ Untried'
  <2>1. Held' = Held /\ Tracked' = Tracked /\ pc' = "pick" /\ signals' \subseteq signals
    BY <1>8 DEF Skip, broker, Held, Tracked
  <2>2. pc = "pick"
    BY <1>8 DEF Skip
  <2>3. QED
    BY <1>4, <2>1, <2>2 DEF Facts, Known, Untried, Waits
<1>9. ASSUME Protected PROVE Known' /\ Untried'
  <2>1. Held' = Held /\ Tracked' = Tracked /\ pc = "stop"
    BY <1>9 DEF Protected, broker, Held, Tracked
  <2>2. \/ pc' = "pick" /\ signals' = signals
        \/ pc' = "bollinger" /\ signals' = {}
    BY <1>9 DEF Protected, Settle, ScanOver
  <2>3. QED
    BY <1>4, <2>1, <2>2 DEF Facts, Known, Untried, Waits
<1>10. ASSUME NEW s \in Symbol, Exit(s) PROVE Known' /\ Untried'
  <2>1. Held' \subseteq Held \ {s} /\ Tracked' = Tracked \ {s}
    BY <1>1, <1>10 DEF Exit, Held, Tracked, Books, NoLot
  <2>2. pc' = pc /\ signals' = signals /\ mine' = mine
    BY <1>10 DEF Exit, round, scan
  <2>3. QED
    BY <1>2, <1>4, <2>1, <2>2 DEF Facts, Known, Untried, Waits, Quiet
<1>11. Known' /\ Untried'
  BY <1>5, <1>6, <1>7, <1>8, <1>9, <1>10
<1>12. QED
  BY <1>3, <1>11, NoneWorking DEF Facts

\* A BUY sent while none is at the broker is the only one.
LEMMA SendAlone ==
  ASSUME Books, Working = {}, Held \subseteq Tracked, NEW s \in Symbol \ Tracked,
         NEW t \in Tags, NEW cost \in Nat, Send(s, t, cost),
         lots' = lots, tag' = tag, s \notin signals', signals' \cap Tracked = {}
  PROVE  Facts'
<1>1. PICK i \in Slot \ Working :
        /\ buys' = [buys EXCEPT ![i] = [ sym |-> s, cost |-> cost, tag |-> t,
                                         cancel |-> FALSE ]]
        /\ mine' = [ slot |-> i, sym |-> s, cost |-> cost, tag |-> t ]
        /\ pc' = "sent"
  BY DEF Send
<1>2. Working' \subseteq {i}
  BY <1>1 DEF Working, Books
<1>3. /\ buys'[i].sym = s /\ buys'[i].cost = cost /\ ~buys'[i].cancel
      /\ mine'.slot = i /\ mine'.sym = s /\ mine'.cost = cost
  BY <1>1 DEF Books
<1>4. Held' = Held /\ Tracked' = Tracked
  BY DEF Held, Tracked
<1>5. Single' /\ Fresh' /\ Awaited'
  BY <1>1, <1>2, <1>3, <1>4 DEF Single, Fresh, Awaited, Quiet
<1>6. Known' /\ Untried'
  BY <1>1, <1>3, <1>4 DEF Known, Untried, Quiet, Waits
<1>7. QED
  BY <1>5, <1>6 DEF Facts

\* While cancels land, none raises, and none is pending when the engine goes on.
LEMMA Landed ==
  ASSUME CancelsLand'
  PROVE  ~CancelRaises /\ (Sleeps => NoneCancelling)
BY DEF CancelsLand, CancelRaises, Sleeps

\* Startup, a crash and the steps around a BUY leave at most one, unless a cancel
\* raises or is slow.
LEMMA BuyAlone ==
  ASSUME Typed, Facts, CancelsLand',
         \/ Boot \/ BootSync \/ Crash \/ Buy \/ BollingerBuy \/ Bought \/ NotBought
         \/ AfterCancel
  PROVE  Facts'
<1>1. Books /\ Counts /\ Rest /\ Paid
  BY TypeParts DEF Typed, Paid
<1>2. ~CancelRaises /\ (Sleeps => NoneCancelling)
  BY Landed
<1>3. ASSUME Boot PROVE Facts'
  <2> DEFINE orphans == { i \in Working : buys[i].sym \notin Tracked \cup Held }
  <2>1. buys' = [ i \in Slot |-> IF i \in orphans
                                 THEN [buys[i] EXCEPT !.cancel = TRUE]
                                 ELSE buys[i] ]
    BY <1>2, <1>3 DEF Boot
  <2>2. Held' = Held /\ Tracked' = Tracked /\ pc' = "bootSync"
    BY <1>3 DEF Boot, Held, Tracked
  <2>3. Working' \subseteq Working
    BY <2>1 DEF Working
  <2>4. ASSUME NEW i \in Working' PROVE buys'[i].cancel
    <3>1. i \in Slot /\ i \in Working /\ buys[i] \in Order
      BY <1>1, <2>3, <2>4 DEF Working, Books
    <3>2. CASE i \in orphans
      BY <2>1, <3>1, <3>2 DEF Order
    <3>3. CASE i \notin orphans
      BY <2>1, <3>1, <3>3 DEF Facts, Fresh
    <3>4. QED
      BY <3>2, <3>3
  <2>5. Single' /\ Fresh' /\ Awaited'
    BY <2>2, <2>3, <2>4 DEF Facts, Single, Fresh, Awaited, Quiet
  <2>6. QED
    BY <2>2, <2>5 DEF Facts, Known, Untried, Quiet, Waits
<1>4. ASSUME BootSync PROVE Facts'
  <2>1. Working' = {}
    BY <1>2, <1>4 DEF Facts, Awaited, BootSync, NoneCancelling, Working, broker
  <2>2. Held' \subseteq Tracked' /\ pc' = "idle"
    BY <1>1, <1>4, SyncKnows DEF BootSync, broker
  <2>3. QED
    BY <2>1, <2>2, NoneWorking DEF Facts, Known, Untried, Waits
<1>5. ASSUME Crash PROVE Facts'
  <2>1. /\ Held' = Held /\ Tracked' = Tracked /\ Working' = Working /\ buys' = buys
        /\ pc' = "boot"
    BY <1>5 DEF Crash, broker, Held, Tracked, Working
  <2>2. QED
    BY <2>1 DEF Facts, Single, Fresh, Awaited, Known, Untried, Quiet, Waits
<1>6. ASSUME Buy PROVE Facts'
  <2>1. PICK s \in signals, limit \in Prices :
          LET qty == Least(BucketQty(alloc, limit), RiskQty(equity, limit))
          IN  /\ Send(s, "swing", qty * limit)
              /\ signals' = signals \ {s}
    BY <1>6 DEF Buy
  <2> DEFINE cost == Least(BucketQty(alloc, limit), RiskQty(equity, limit)) * limit
  <2>2. cost \in Nat
    BY <1>1, CostTyped DEF Counts, Least
  <2>3. pc = "pick" /\ lots' = lots /\ tag' = tag
    BY <1>6 DEF Buy
  <2>4. Working = {} /\ Held \subseteq Tracked /\ signals \cap Tracked = {}
    BY <2>3 DEF Facts, Awaited, Known, Untried, Quiet
  <2>5. s \in Symbol \ Tracked
    BY <1>1, <2>4 DEF Rest
  <2>6. QED
    BY <1>1, <2>1, <2>2, <2>3, <2>4, <2>5, SendAlone DEF Tags
<1>7. ASSUME BollingerBuy PROVE Facts'
  <2>1. PICK s \in Symbol \ Tracked, limit \in Prices :
          Send(s, "bollinger", BucketQty(Allocation(equity', BollingerCash,
                                                    Cardinality(Tracked)), limit) * limit)
    BY <1>7 DEF BollingerBuy
  <2> DEFINE bucket == Allocation(equity', BollingerCash, Cardinality(Tracked))
             cost   == BucketQty(bucket, limit) * limit
  <2>2. BollingerCash \in Nat /\ equity' \in Nat
    BY <1>1, <1>7, NumbersAssumption, SizesAssumption
    DEF Books, Counts, BollingerBuy, BollingerCash, Reported, Minus
  <2>3. bucket \in [ cash : Nat, slots : Nat ]
    BY <2>2, AllocationTyped
  <2>4. cost \in Nat
    BY <2>2, <2>3, CostTyped
  <2>5. pc = "bollinger" /\ lots' = lots /\ tag' = tag /\ signals' = signals
    BY <1>7 DEF BollingerBuy
  <2>6. Working = {} /\ Held \subseteq Tracked /\ signals = {}
    BY <2>5 DEF Facts, Awaited, Known, Untried, Quiet
  <2>7. QED
    BY <1>1, <2>1, <2>4, <2>5, <2>6, SendAlone DEF Tags
<1>8. ASSUME Bought PROVE Facts'
  <2>1. mine \in Await
    BY <1>1, <1>8 DEF Paid, Rest, Bought, Waits
  <2>2. mine.sym \in Symbol /\ mine.tag \in Tags
    BY <2>1 DEF Await
  <2>3. Working = {}
    BY <1>8 DEF Facts, Awaited, Bought, Filled, Working
  <2>4. /\ Working' = {} /\ Held' = Held
        /\ pc' = "stop" /\ mine' = mine /\ signals' = signals
    BY <1>8, <2>3 DEF Bought, Working, Held, broker, round, scan
  <2>5. Tracked' = Tracked \cup {mine.sym}
    BY <1>1, <1>8, <2>2 DEF Bought, Tracked, Books, Tags
  <2>6. pc = "sent"
    BY <1>8 DEF Bought
  <2>7. Known' /\ Untried'
    BY <2>4, <2>5, <2>6 DEF Facts, Known, Untried, Waits
  <2>8. QED
    BY <2>4, <2>7, NoneWorking DEF Facts
<1>9. ASSUME NotBought PROVE Facts'
  <2>1. buys' = [buys EXCEPT ![mine.slot].cancel = TRUE] /\ pc = "sent"
    BY <1>2, <1>9 DEF NotBought
  <2>2. mine \in Await
    BY <1>1, <2>1 DEF Paid, Rest, Waits
  <2>3. mine.slot \in Slot
    BY <2>2 DEF Await
  <2>4. buys[mine.slot] \in Order
    BY <1>1, <1>9, <2>3 DEF Books, NotBought, Filled
  <2>5. Working' \subseteq Working
    BY <1>1, <1>9, <2>1, <2>3 DEF Working, Books, NotBought, Filled
  <2>6. ASSUME NEW i \in Working' PROVE buys'[i].cancel /\ buys'[i].sym = mine.sym
    <3>1. i \in Working /\ i = mine.slot /\ buys[i].sym = mine.sym
      BY <2>1, <2>5, <2>6 DEF Facts, Awaited
    <3>2. QED
      BY <1>1, <2>1, <2>3, <2>4, <3>1 DEF Books, Order
  <2>7. /\ Held' = Held /\ Tracked' = Tracked
        /\ pc' = "unfilled" /\ mine' = mine /\ signals' = signals
    BY <1>9 DEF NotBought, Held, Tracked, round, scan
  <2>8. Single' /\ Fresh' /\ Awaited'
    BY <2>5, <2>6, <2>7 DEF Facts, Single, Fresh, Awaited, Quiet
  <2>9. Known' /\ Untried'
    BY <2>1, <2>7 DEF Facts, Known, Untried, Waits, Quiet
  <2>10. QED
    BY <2>8, <2>9 DEF Facts
<1>10. ASSUME AfterCancel PROVE Facts'
  <2>1. Working' = {} /\ pc = "unfilled"
    BY <1>2, <1>10 DEF Facts, Awaited, AfterCancel, NoneCancelling, Working, broker
  <2>2. Held' \subseteq Tracked' /\ Tracked' \subseteq Tracked \cup Held
    BY <1>1, <1>10, SyncKnows DEF AfterCancel, broker
  <2>3. Held \subseteq Tracked \cup {mine.sym}
    BY <2>1 DEF Facts, Known
  <2>4. signals \cap (Tracked \cup {mine.sym}) = {}
    BY <2>1 DEF Facts, Untried, Waits
  <2>5. \/ pc' = "pick" /\ signals' = signals
        \/ pc' = "idle"
    BY <1>10 DEF AfterCancel, scan
  <2>6. Known' /\ Untried'
    BY <2>2, <2>3, <2>4, <2>5 DEF Known, Untried, Waits
  <2>7. QED
    BY <2>1, <2>6, NoneWorking DEF Facts
<1>11. QED
  BY <1>3, <1>4, <1>5, <1>6, <1>7, <1>8, <1>9, <1>10

\* A cancel that raised is not forgotten.
LEMMA ExcusesStay ==
  ASSUME [Next]_vars
  PROVE  excused \subseteq excused'
<1>1. CASE Next
  BY <1>1 DEF Next, Engine, BrokerNext, Boot, CancelRaises, BootSync, CycleSync,
     ReadAccount, NoEntries, NoSwing, Scan, Buy, Skip, LoopOver, Bought, NotBought,
     AfterCancel, Protected, BollingerProtected, BollingerBuy, NoBollinger, Exit, Crash,
     Fill, CancelLands, Sell, Post, NewDay, Sleeps
<1>2. QED
  BY <1>1 DEF vars

\* Every step keeps it so.
LEMMA AloneStep ==
  ASSUME Typed, Alone, [Next]_vars
  PROVE  Alone'
<1>1. SUFFICES ASSUME CancelsLand' PROVE Facts'
  BY DEF Alone
<1>2. Facts
  BY <1>1, ExcusesStay DEF Alone, CancelsLand
<1>3. CASE Next
  BY <1>1, <1>2, <1>3, BrokerAlone, QuietAlone, BuyAlone DEF Next, Engine
<1>4. CASE UNCHANGED vars
  BY <1>2, <1>4 DEF Facts, Single, Fresh, Awaited, Known, Untried, Working, Held,
     Tracked, vars, broker, round, scan
<1>5. QED
  BY <1>3, <1>4

\* It is so when the engine starts.
LEMMA InitAlone ==
  Init => Alone
<1>1. ASSUME Init PROVE Working = {}
  BY <1>1 DEF Init, Working
<1>2. QED
  BY <1>1 DEF Init, Alone, Facts, Single, Fresh, Awaited, Known, Untried, Quiet, Waits

\* Two entry paths, crashes, restarts, late fills and recovered positions never put
\* two BUYs at the broker for one symbol, nor one for a symbol that is held, unless
\* a cancel raised and was swallowed or had not landed when the engine went on.
THEOREM OneBuyOnly ==
  Spec => []OneBuyPerSymbol
<1>1. Alone => OneBuyPerSymbol
  BY DEF Alone, Facts, Single, Fresh, OneBuyPerSymbol
<1>2. Init => Typed /\ Alone
  BY InitTyped, InitAlone
<1>3. Typed /\ Alone /\ [Next]_vars => Typed' /\ Alone'
  BY TypedStep, AloneStep
<1>4. QED
  BY <1>1, <1>2, <1>3, PTL DEF Spec

-----------------------------------------------------------------------------
(* The cycle never counts on cash that is spent. *)

\* What the broker does is foreseen by what the cycle counts on.
LEMMA BrokerSound ==
  ASSUME Typed, Facts, Sound, excused' = {}, BrokerNext
  PROVE  Sound'
<1>1. Books /\ Counts /\ Rest /\ Paid
  BY TypeParts DEF Typed, Paid
<1>2. ASSUME NEW i \in Slot, Fill(i) PROVE Sound'
  <2>1. i \in Working /\ Working' = {}
    BY <1>1, <1>2 DEF Facts, Single, Working, Fill, Books
  <2>2. ~buys[i].cancel /\ buys[i].cost <= cash
    BY <1>2 DEF Fill
  <2>3. pc' = pc /\ mine' = mine /\ settled' = settled /\ committed' = committed
    BY <1>2 DEF Fill, round, scan
  <2>4. pc \notin Quiet \cup {"unfilled", "bootSync"}
    BY <2>1, <2>2 DEF Facts, Awaited
  <2>5. buys[i].cost \in Nat
    BY <1>1, <2>1 DEF Books, Working, Order
  <2>6. cash' = cash - buys[i].cost /\ unposted' = unposted + buys[i].cost
    BY <1>2 DEF Fill
  <2>7. CASE pc = "sent"
    <3>1. buys[i].cost = mine.cost
      BY <2>1, <2>7 DEF Facts, Awaited
    <3>2. Due = 0 /\ Due' = mine.cost
      BY <2>1, <2>3, <2>7 DEF Due
    <3>3. mine.tag = "swing" => settled <= cash
      BY <1>1, <2>7, <3>2 DEF Sound, Waits, Books
    <3>4. unposted <= committed
      BY <1>1, <2>7, <3>2 DEF Sound, Waits, Counts
    <3>5. QED
      BY <1>1, <2>1, <2>3, <2>5, <2>6, <2>7, <3>1, <3>2, <3>3, <3>4
      DEF Sound, Waits, Books, Counts
  <2>8. CASE pc # "sent"
    BY <2>1, <2>3, <2>4, <2>8 DEF Sound, Waits, Quiet
  <2>9. QED
    BY <2>7, <2>8
<1>3. ASSUME NEW i \in Slot, CancelLands(i) PROVE Sound'
  <2>1. i \in Working /\ buys[i].cancel
    BY <1>3, CancelledWorks DEF CancelLands
  <2>2. Working' = {}
    BY <1>1, <1>3, <2>1 DEF Facts, Single, Working, CancelLands, Books
  <2>3. pc # "sent"
    BY <2>1 DEF Facts, Awaited
  <2>4. Due' = Due
    BY <1>3, <2>3 DEF Due, CancelLands, round
  <2>5. QED
    BY <1>3, <2>2, <2>4 DEF Sound, CancelLands, round, scan
<1>4. ASSUME NEW s \in Symbol, Sell(s) PROVE Sound'
  BY <1>4 DEF Sound, Due, Sell, Working, round, scan
<1>5. ASSUME Post PROVE Sound'
  <2>1. Due' = Due /\ Working' = Working /\ pc' = pc /\ mine' = mine /\ buys' = buys
    BY <1>5 DEF Due, Working, Post, round
  <2>2. unposted' = 0 /\ unposted \in Nat
        /\ cash' = cash /\ settled' = settled /\ committed' = committed
    BY <1>1, <1>5 DEF Post, Books, round, scan
  <2>3. Due \in Nat
    BY <1>1 DEF Due, Paid, Rest, Await, Nobody, Waits
  <2>4. committed \in Nat
    BY <1>1 DEF Counts
  <2>5. QED
    BY <2>1, <2>2, <2>3, <2>4 DEF Sound
<1>6. ASSUME NewDay PROVE Sound'
  <2>1. Working' = {} /\ pc' = "idle"
    BY <1>6 DEF Working, NewDay
  <2>2. QED
    BY <2>1 DEF Sound, Waits
<1>7. QED
  BY <1>2, <1>3, <1>4, <1>5, <1>6 DEF BrokerNext

\* While no BUY is at the broker, the engine counts down what it has bought.
LEMMA QuietSound ==
  ASSUME Typed, Facts, Sound, excused' = {},
         \/ BootSync \/ CycleSync \/ ReadAccount \/ NoEntries \/ NoSwing \/ Scan
         \/ Skip \/ LoopOver \/ Bought \/ Protected \/ BollingerProtected
         \/ NoBollinger \/ AfterCancel \/ \E s \in Symbol : Exit(s)
  PROVE  Sound'
<1>1. Books /\ Counts /\ Rest /\ Paid
  BY TypeParts DEF Typed, Paid
<1>2. buys' = buys /\ cash' = cash /\ unposted' = unposted
  BY DEF BootSync, CycleSync, ReadAccount, NoEntries, NoSwing, Scan, Skip, LoopOver,
     Bought, Protected, BollingerProtected, NoBollinger, AfterCancel, Exit, broker
<1>3. Working = {}
  <2>1. CASE BootSync \/ AfterCancel
    BY <2>1, Landed DEF CancelsLand, BootSync, AfterCancel, NoneCancelling, Facts, Awaited,
                        Working
  <2>2. CASE Bought
    BY <2>2 DEF Bought, Filled, Facts, Awaited, Working
  <2>3. CASE ~(BootSync \/ AfterCancel \/ Bought)
    <3>1. pc \in Quiet
      BY <2>3 DEF CycleSync, ReadAccount, NoEntries, NoSwing, Scan, Skip, LoopOver,
         Protected, BollingerProtected, NoBollinger, Exit, Quiet
    <3>2. QED
      BY <3>1 DEF Facts, Awaited
  <2>4. QED
    BY <2>1, <2>2, <2>3
<1>4. Working' = {}
  BY <1>2, <1>3 DEF Working
<1>5. /\ cash \in Nat /\ unposted \in Nat /\ settled \in Nat /\ committed \in Nat
      /\ Due \in Nat /\ (pc \in Waits => mine.cost \in Nat)
  BY <1>1 DEF Books, Counts, Due, Paid, Rest, Await, Nobody, Waits
<1>6. ASSUME BootSync \/ BollingerProtected \/ NoEntries \/ NoBollinger PROVE Sound'
  <2>1. pc' = "idle"
    BY <1>6 DEF BootSync, BollingerProtected, NoEntries, NoBollinger
  <2>2. QED
    BY <1>4, <2>1 DEF Sound, Waits
<1>7. ASSUME CycleSync PROVE Sound'
  <2>1. pc' = "account" /\ unposted = 0 /\ committed' = 0
    BY <1>7 DEF CycleSync
  <2>2. Due' = 0
    BY <2>1 DEF Due
  <2>3. QED
    BY <1>2, <1>4, <2>1, <2>2 DEF Sound, Waits
<1>8. ASSUME ReadAccount PROVE Sound'
  <2>1. unposted = 0
    BY <1>8 DEF ReadAccount, Sound
  <2>2. pc' = "idle" \/ (pc' = "scan" /\ settled' = cash)
    BY <1>5, <1>8, <2>1 DEF ReadAccount, Reported
  <2>3. Due' = 0 /\ committed' = committed
    BY <1>8, <2>2 DEF Due, ReadAccount
  <2>4. QED
    BY <1>2, <1>4, <1>5, <2>1, <2>2, <2>3 DEF Sound, Waits
<1>9. ASSUME NoSwing \/ LoopOver PROVE Sound'
  <2>1. /\ pc' = "bollinger" /\ committed' = committed /\ pc \in {"scan", "pick"}
    BY <1>9 DEF NoSwing, LoopOver
  <2>2. Due = 0 /\ Due' = 0
    BY <2>1 DEF Due
  <2>3. QED
    BY <1>2, <1>4, <2>1, <2>2 DEF Sound, Waits
<1>10. ASSUME Scan \/ Skip PROVE Sound'
  <2>1. /\ pc' = "pick" /\ committed' = committed /\ settled' = settled
        /\ pc \in {"scan", "pick"}
    BY <1>10 DEF Scan, Skip
  <2>2. Due = 0 /\ Due' = 0
    BY <2>1 DEF Due
  <2>3. QED
    BY <1>2, <1>4, <2>1, <2>2 DEF Sound, Waits
<1>11. ASSUME Bought PROVE Sound'
  <2>1. /\ pc = "sent" /\ pc' = "stop" /\ mine' = mine /\ committed' = committed
        /\ settled' = settled
    BY <1>11 DEF Bought, round, scan
  <2>2. Due = mine.cost /\ Due' = mine.cost
    BY <1>3, <2>1 DEF Due
  <2>3. QED
    BY <1>2, <1>4, <2>1, <2>2 DEF Sound, Waits
<1>12. ASSUME Protected PROVE Sound'
  <2>1. /\ pc = "stop" /\ mine.tag = "swing" /\ committed' = committed + mine.cost
        /\ \/ pc' = "pick" /\ settled' = settled - mine.cost
           \/ pc' = "bollinger"
    BY <1>12 DEF Protected, Settle
  <2>2. Due = mine.cost /\ Due' = 0
    BY <2>1 DEF Due
  <2>3. settled <= cash + mine.cost /\ unposted <= committed + mine.cost
    BY <2>1, <2>2 DEF Sound, Waits
  <2>4. mine.cost \in Nat
    BY <1>5, <2>1 DEF Waits
  <2>5. unposted' <= committed' + Due'
    BY <1>2, <1>5, <2>1, <2>2, <2>3, <2>4
  <2>6. pc' = "pick" => settled' <= cash' + Due'
    BY <1>2, <1>5, <2>1, <2>2, <2>3, <2>4
  <2>7. QED
    BY <1>4, <2>1, <2>5, <2>6 DEF Sound, Waits
<1>13. ASSUME AfterCancel PROVE Sound'
  <2>1. /\ pc = "unfilled" /\ committed' = committed
        /\ \/ pc' = "pick" /\ mine.tag = "swing" /\ settled' = settled
           \/ pc' = "idle"
    BY <1>13 DEF AfterCancel, scan
  <2>2. Due = 0 /\ Due' = 0
    BY <2>1 DEF Due
  <2>3. QED
    BY <1>2, <1>4, <2>1, <2>2 DEF Sound, Waits
<1>14. ASSUME NEW s \in Symbol, Exit(s) PROVE Sound'
  BY <1>14 DEF Sound, Due, Exit, Working, round, scan
<1>15. QED
  BY <1>6, <1>7, <1>8, <1>9, <1>10, <1>11, <1>12, <1>13, <1>14

\* An affordable BUY that is sent leaves what is counted on as it is.
LEMMA SendSound ==
  ASSUME Books, Counts, Working = {}, pc \in {"pick", "bollinger"}, Sound,
         NEW s \in Symbol, NEW t \in Tags, NEW cost \in Nat, Send(s, t, cost),
         cost <= cash, cash' = cash, unposted' = unposted, settled' = settled,
         committed' = committed, t = "swing" => pc = "pick"
  PROVE  Sound'
<1>1. PICK i \in Slot \ Working :
        /\ buys' = [buys EXCEPT ![i] = [ sym |-> s, cost |-> cost, tag |-> t,
                                         cancel |-> FALSE ]]
        /\ mine' = [ slot |-> i, sym |-> s, cost |-> cost, tag |-> t ]
        /\ pc' = "sent"
  BY DEF Send
<1>2. buys'[i] = [ sym |-> s, cost |-> cost, tag |-> t, cancel |-> FALSE ]
  BY <1>1 DEF Books
<1>3. buys'[i] # NoBuy
  BY <1>2 DEF NoBuy, Tags
<1>4. Working' = {i}
  BY <1>1, <1>3 DEF Working, Books
<1>5. Due = 0 /\ Due' = 0
  BY <1>1, <1>4 DEF Due
<1>6. buys'[i].cost <= cash' /\ mine'.tag = t
  BY <1>1, <1>2
<1>7. unposted <= committed /\ (t = "swing" => settled <= cash)
  BY <1>5 DEF Sound, Books, Counts
<1>8. QED
  BY <1>1, <1>4, <1>5, <1>6, <1>7 DEF Sound, Waits, Books, Counts

\* Startup, a crash, and sending or cancelling a BUY.
LEMMA BuySound ==
  ASSUME Typed, Facts, Sound, excused' = {},
         Boot \/ Crash \/ Buy \/ BollingerBuy \/ NotBought
  PROVE  Sound'
<1>1. Books /\ Counts /\ Rest /\ Paid
  BY TypeParts DEF Typed, Paid
<1>2. ~CancelRaises /\ (Sleeps => NoneCancelling)
  BY Landed DEF CancelsLand
<1>3. ASSUME Boot PROVE Sound'
  <2>1. pc' = "bootSync" /\ cash' = cash
    BY <1>3 DEF Boot
  <2>2. buys' = [ i \in Slot |->
                    IF i \in { k \in Working : buys[k].sym \notin Tracked \cup Held }
                    THEN [buys[i] EXCEPT !.cancel = TRUE]
                    ELSE buys[i] ]
    BY <1>2, <1>3 DEF Boot
  <2>3. \A i \in Working' : ~buys'[i].cancel => i \in Working /\ buys'[i] = buys[i]
    <3>1. \A i \in Working : buys[i] \in Order
      BY <1>1 DEF Working, Books
    <3>2. QED
      BY <2>2, <3>1 DEF Working, Order
  <2>4. QED
    BY <2>1, <2>3 DEF Sound, Waits
<1>4. ASSUME Crash PROVE Sound'
  BY <1>4 DEF Sound, Crash, broker, Waits, Working
<1>5. ASSUME Buy PROVE Sound'
  <2>1. PICK s \in signals, limit \in Prices :
          LET qty == Least(BucketQty(alloc, limit), RiskQty(equity, limit))
          IN  /\ qty * limit <= settled
              /\ Send(s, "swing", qty * limit)
    BY <1>5 DEF Buy
  <2> DEFINE cost == Least(BucketQty(alloc, limit), RiskQty(equity, limit)) * limit
  <2>2. cost \in Nat
    BY <1>1, CostTyped DEF Counts, Least
  <2>3. /\ pc = "pick" /\ cash' = cash /\ unposted' = unposted /\ settled' = settled
        /\ committed' = committed
    BY <1>5 DEF Buy
  <2>4. Working = {} /\ Due = 0
    BY <2>3 DEF Facts, Awaited, Quiet, Due
  <2>5. settled <= cash
    BY <1>1, <2>3, <2>4 DEF Sound, Books
  <2>6. cost <= cash /\ s \in Symbol
    BY <1>1, <2>1, <2>2, <2>5 DEF Books, Counts, Rest
  <2>7. QED
    BY <1>1, <2>1, <2>2, <2>3, <2>4, <2>6, SendSound DEF Tags
<1>6. ASSUME BollingerBuy PROVE Sound'
  <2>1. PICK s \in Symbol \ Tracked, limit \in Prices :
          LET qty == BucketQty(Allocation(equity', BollingerCash,
                                          Cardinality(Tracked)), limit)
          IN  /\ qty * limit <= BollingerCash
              /\ Send(s, "bollinger", qty * limit)
    BY <1>6 DEF BollingerBuy
  <2> DEFINE bucket == Allocation(equity', BollingerCash, Cardinality(Tracked))
             cost   == BucketQty(bucket, limit) * limit
  <2>2. BollingerCash \in Nat /\ equity' \in Nat
    BY <1>1, <1>6, NumbersAssumption, SizesAssumption
    DEF Books, Counts, BollingerBuy, BollingerCash, Reported, Minus
  <2>3. bucket \in [ cash : Nat, slots : Nat ]
    BY <2>2, AllocationTyped
  <2>4. cost \in Nat
    BY <2>2, <2>3, CostTyped
  <2>5. /\ pc = "bollinger" /\ cash' = cash /\ unposted' = unposted
        /\ settled' = settled /\ committed' = committed
    BY <1>6 DEF BollingerBuy
  <2>6. Working = {} /\ Due = 0
    BY <2>5 DEF Facts, Awaited, Quiet, Due
  <2>7. unposted <= committed
    BY <1>1, <2>5, <2>6 DEF Sound, Counts
  <2>8. BollingerCash <= cash
    BY <1>1, <2>7 DEF BollingerCash, Reported, Minus, Books, Counts
  <2>9. cost <= cash
    BY <1>1, <2>1, <2>2, <2>4, <2>8 DEF Books
  <2>10. QED
    BY <1>1, <2>1, <2>4, <2>5, <2>6, <2>9, SendSound DEF Tags
<1>7. ASSUME NotBought PROVE Sound'
  <2>1. buys' = [buys EXCEPT ![mine.slot].cancel = TRUE] /\ pc = "sent"
    BY <1>2, <1>7 DEF NotBought
  <2>2. mine.slot \in Slot
    BY <1>1, <2>1 DEF Paid, Rest, Waits, Await
  <2>3. mine.slot \in Working /\ buys[mine.slot] \in Order
    BY <1>1, <1>7, <2>2 DEF Books, NotBought, Filled, Working
  <2>4. \A i \in Working' : buys'[i].cancel
    <3>1. \A i \in Slot : i \in Working' => i = mine.slot
      BY <1>1, <2>1, <2>2, <2>3 DEF Facts, Single, Working, Books
    <3>2. buys'[mine.slot].cancel
      BY <1>1, <2>1, <2>2, <2>3 DEF Books, Order
    <3>3. QED
      BY <3>1, <3>2 DEF Working
  <2>5. /\ pc' = "unfilled" /\ mine' = mine /\ cash' = cash /\ unposted' = unposted
        /\ settled' = settled /\ committed' = committed
    BY <1>7 DEF NotBought, round, scan
  <2>6. Due = 0 /\ Due' = 0
    BY <2>1, <2>3, <2>5 DEF Due
  <2>7. QED
    BY <2>1, <2>4, <2>5, <2>6 DEF Sound, Waits
<1>8. QED
  BY <1>3, <1>4, <1>5, <1>6, <1>7

\* Every step keeps the engine's idea of its cash sound.
LEMMA MoneyStep ==
  ASSUME Inv, [Next]_vars
  PROVE  Money'
<1>1. SUFFICES ASSUME excused' = {} PROVE Sound'
  BY DEF Money
<1>2. Typed /\ Facts /\ Sound
  BY <1>1, ExcusesStay DEF Inv, Alone, Money, CancelsLand
<1>3. CASE Next
  BY <1>1, <1>2, <1>3, BrokerSound, QuietSound, BuySound DEF Next, Engine
<1>4. CASE UNCHANGED vars
  BY <1>2, <1>4 DEF Sound, Due, Working, vars, broker, round, scan
<1>5. QED
  BY <1>3, <1>4

\* The invariant holds in every state.
LEMMA SpecInv ==
  Spec => []Inv
<1>1. Init => Inv
  <2>1. ASSUME Init PROVE Sound
    BY <2>1 DEF Init, Sound, Waits, Working
  <2>2. QED
    BY <2>1, InitTyped, InitAlone DEF Inv, Money
<1>2. Inv /\ [Next]_vars => Inv'
  BY TypedStep, AloneStep, MoneyStep DEF Inv
<1>3. QED
  BY <1>1, <1>2, PTL DEF Spec

\* However many entries a cycle makes on its two paths, and however late the broker's
\* SettledCash follows the fills, no BUY asks for more than the settled cash there is,
\* unless a BUY was filled while it was cancelled or a cancel raised or was slow.
THEOREM SettledCashOnly ==
  Spec => []SpendsSettledCashOnly
<1>1. Inv => SpendsSettledCashOnly
  BY DEF Inv, Money, Sound, SpendsSettledCashOnly
<1>2. QED
  BY <1>1, SpecInv, PTL

-----------------------------------------------------------------------------
(* The account has room for what is bought. *)

\* The slots the loop has left are free, but for the one the last entry has taken.
RoomBut(k) ==
  placed < slots => Cardinality(Tracked) + slots - placed <= MaxPositions(equity) + k

Room ==
  /\ (pc = "pick" \/ (pc \in {"sent", "unfilled"} /\ mine.tag = "swing")) => RoomBut(0)
  /\ (pc = "stop" /\ mine.tag = "swing") => RoomBut(1)
  /\ pc = "unfilled" => Held \subseteq Tracked

Spacious == excused = {} => Room

\* A part of the symbols is no larger than what contains it.
LEMMA PartSmaller ==
  ASSUME NEW S \in SUBSET Symbol, NEW T \in SUBSET S
  PROVE  Cardinality(S) \in Nat /\ Cardinality(T) \in Nat
         /\ Cardinality(T) <= Cardinality(S)
<1>1. IsFiniteSet(S) /\ IsFiniteSet(T)
  BY SymbolAssumption, FS_Subset
<1>2. QED
  BY <1>1, FS_Subset, FS_CardinalityType

\* One more symbol makes a set larger by at most one.
LEMMA OneMore ==
  ASSUME NEW S \in SUBSET Symbol, NEW s \in Symbol, NEW T \in SUBSET (S \cup {s})
  PROVE  Cardinality(S) \in Nat /\ Cardinality(T) \in Nat
         /\ Cardinality(T) <= Cardinality(S) + 1
<1> DEFINE U == S \cup {s}
<1>1. IsFiniteSet(S) /\ U \in SUBSET Symbol /\ T \in SUBSET U
  BY SymbolAssumption, FS_Subset
<1>2. Cardinality(S) \in Nat /\ Cardinality(U) <= Cardinality(S) + 1
  <2>1. Cardinality(S) \in Nat
    BY <1>1, FS_CardinalityType
  <2>2. Cardinality(U) = IF s \in S THEN Cardinality(S) ELSE Cardinality(S) + 1
    BY <1>1, FS_AddElement
  <2>3. QED
    BY <2>1, <2>2
<1> HIDE DEF U
<1>3. /\ Cardinality(T) <= Cardinality(U)
      /\ Cardinality(T) \in Nat /\ Cardinality(U) \in Nat
  BY <1>1, PartSmaller
<1>4. QED
  BY <1>2, <1>3

LEMMA RoomNumbers ==
  ASSUME Typed
  PROVE  /\ Cardinality(Tracked) \in Nat /\ MaxPositions(equity) \in Nat
         /\ slots \in Nat /\ placed \in Nat /\ equity \in Nat /\ settled \in Nat
<1>1. Counts
  BY TypeParts DEF Typed
<1>2. QED
  BY <1>1, TrackedCounted, MaxPositionsTyped DEF Counts

\* With fewer positions tracked, the slots left are still free.
LEMMA RoomKept ==
  ASSUME Typed, Tracked' \subseteq Tracked, UNCHANGED << slots, placed, equity >>
  PROVE  /\ RoomBut(0) => RoomBut(0)'
         /\ RoomBut(1) => RoomBut(1)'
<1>1. Cardinality(Tracked') \in Nat /\ Cardinality(Tracked') <= Cardinality(Tracked)
  BY PartSmaller DEF Tracked
<1>2. MaxPositions(equity') = MaxPositions(equity)
  OBVIOUS
<1>3. QED
  BY <1>1, <1>2, RoomNumbers DEF RoomBut

\* The broker does not take a slot: a BUY that is not cancelled fills before the engine
\* gives up waiting for it.
LEMMA BrokerRoom ==
  ASSUME Typed, Facts, Room, excused' = {}, BrokerNext
  PROVE  Room'
<1>1. Books
  BY TypeParts DEF Typed
<1>2. pc' = pc /\ mine' = mine /\ Tracked' = Tracked
      /\ UNCHANGED << slots, placed, equity >>
  BY DEF BrokerNext, Fill, CancelLands, Sell, Post, NewDay, round, scan, Tracked
<1>3. ASSUME pc = "unfilled" PROVE Held' \subseteq Held
  <2>1. ASSUME NEW i \in Slot, Fill(i) PROVE FALSE
    BY <1>3, <2>1 DEF Facts, Awaited, Fill
  <2>2. QED
    BY <1>1, <2>1 DEF BrokerNext, CancelLands, Sell, Post, NewDay, Held, Books, NoLot
<1>4. QED
  BY <1>2, <1>3, RoomKept DEF Room

\* Nor does the engine, but by an entry.
LEMMA EngineRoom ==
  ASSUME Typed, Facts, Room, excused' = {}, Engine \/ Crash
  PROVE  Room'
<1>1. Books /\ Counts /\ Rest /\ Paid
  BY TypeParts DEF Typed, Paid
<1>2. ~CancelRaises /\ (Sleeps => NoneCancelling)
  BY Landed DEF CancelsLand
<1>3. ASSUME \/ Boot \/ BootSync \/ Crash \/ CycleSync \/ ReadAccount \/ NoEntries
             \/ NoSwing \/ LoopOver \/ BollingerProtected \/ NoBollinger
      PROVE  Room'
  <2>1. pc' \notin Waits \cup {"pick"}
    BY <1>3 DEF Boot, BootSync, Crash, CycleSync, ReadAccount, NoEntries, NoSwing,
       LoopOver, BollingerProtected, NoBollinger, Waits
  <2>2. QED
    BY <2>1 DEF Room, Waits
<1>4. ASSUME Scan PROVE Room'
  <2>1. /\ slots' = EntrySlots(equity, settled, Cardinality(Tracked)) /\ slots' > 0
        /\ placed' = 0 /\ equity' = equity /\ pc' = "pick" /\ Tracked' = Tracked
    BY <1>4 DEF Scan, Tracked
  <2>2. slots' \in Nat /\ Cardinality(Tracked) + slots' <= MaxPositions(equity)
    BY <2>1, RoomNumbers, EntrySlotsTyped
  <2>3. RoomBut(0)'
    BY <2>1, <2>2, RoomNumbers DEF RoomBut
  <2>4. QED
    BY <2>1, <2>3 DEF Room
<1>5. ASSUME Skip \/ \E s \in Symbol : Exit(s) PROVE Room'
  <2>1. /\ Tracked' \subseteq Tracked /\ UNCHANGED << slots, placed, equity, mine >>
        /\ pc' = pc /\ pc \in {"idle", "scan", "pick"}
    BY <1>1, <1>5 DEF Skip, Exit, Tracked, round, scan, Books
  <2>2. QED
    BY <2>1, RoomKept DEF Room
<1>6. ASSUME Buy \/ BollingerBuy PROVE Room'
  <2>1. pc' = "sent" /\ Tracked' = Tracked /\ UNCHANGED << slots, placed >>
    BY <1>6 DEF Buy, BollingerBuy, Send, Tracked
  <2>2. CASE Buy
    <3>1. pc = "pick" /\ equity' = equity
      BY <2>2 DEF Buy
    <3>2. QED
      BY <2>1, <3>1, RoomKept DEF Room
  <2>3. CASE BollingerBuy
    <3>1. mine'.tag = "bollinger"
      BY <2>3 DEF BollingerBuy, Send
    <3>2. QED
      BY <2>1, <3>1 DEF Room
  <2>4. QED
    BY <1>6, <2>2, <2>3
<1>7. ASSUME Bought PROVE Room'
  <2>1. mine \in Await /\ pc = "sent"
    BY <1>1, <1>7 DEF Paid, Rest, Bought, Waits
  <2>2. mine.sym \in Symbol
    BY <2>1 DEF Await
  <2>3. /\ Tracked' \subseteq Tracked \cup {mine.sym}
        /\ pc' = "stop" /\ UNCHANGED << slots, placed, equity, mine >>
    BY <1>1, <1>7 DEF Bought, Tracked, round, scan, Books
  <2>4. Cardinality(Tracked') \in Nat
        /\ Cardinality(Tracked') <= Cardinality(Tracked) + 1
    BY <2>2, <2>3, OneMore DEF Tracked
  <2>5. RoomBut(0) => RoomBut(1)'
    BY <2>3, <2>4, RoomNumbers DEF RoomBut
  <2>6. QED
    BY <2>1, <2>3, <2>5 DEF Room
<1>8. ASSUME NotBought PROVE Room'
  <2>1. /\ pc = "sent" /\ pc' = "unfilled" /\ mine' = mine
        /\ Tracked' = Tracked /\ Held' = Held /\ UNCHANGED << slots, placed, equity >>
    BY <1>8 DEF NotBought, round, scan, Tracked, Held
  <2>2. mine.slot \in Working
    BY <1>1, <1>8, <2>1 DEF NotBought, Filled, Working, Paid, Rest, Waits, Await
  <2>3. mine.sym \notin Held
    BY <2>1, <2>2 DEF Facts, Awaited, Fresh
  <2>4. Held \subseteq Tracked
    BY <2>1, <2>3 DEF Facts, Known
  <2>5. QED
    BY <2>1, <2>4, RoomKept DEF Room
<1>9. ASSUME AfterCancel PROVE Room'
  <2>1. /\ pc = "unfilled" /\ Held \subseteq Tracked
        /\ \/ pc' = "idle"
           \/ pc' = "pick" /\ mine.tag = "swing" /\ UNCHANGED << slots, placed, equity >>
    BY <1>9 DEF AfterCancel, scan, Room
  <2>2. Tracked' \subseteq Tracked
    BY <1>1, <1>9, <2>1, SyncKnows DEF AfterCancel, broker
  <2>3. QED
    BY <2>1, <2>2, RoomKept DEF Room
<1>10. ASSUME Protected PROVE Room'
  <2>1. /\ pc = "stop" /\ mine.tag = "swing" /\ Tracked' = Tracked
        /\ \/ pc' = "bollinger"
           \/ /\ pc' = "pick" /\ placed' = placed + 1
              /\ UNCHANGED << slots, equity >>
    BY <1>10 DEF Protected, Settle, Tracked
  <2>2. CASE pc' = "pick"
    <3>1. RoomBut(1) => RoomBut(0)'
      BY <2>1, <2>2, RoomNumbers DEF RoomBut
    <3>2. QED
      BY <2>1, <2>2, <3>1 DEF Room
  <2>3. QED
    BY <2>1, <2>2 DEF Room
<1>11. QED
  BY <1>3, <1>4, <1>5, <1>6, <1>7, <1>8, <1>9, <1>10 DEF Engine

LEMMA SpaciousStep ==
  ASSUME Typed, Alone, Spacious, [Next]_vars
  PROVE  Spacious'
<1>1. SUFFICES ASSUME excused' = {} PROVE Room'
  BY DEF Spacious
<1>2. Facts /\ Room
  BY <1>1, ExcusesStay DEF Alone, Spacious, CancelsLand
<1>3. CASE Next
  BY <1>1, <1>2, <1>3, BrokerRoom, EngineRoom DEF Next
<1>4. CASE UNCHANGED vars
  BY <1>2, <1>4 DEF Room, RoomBut, Tracked, Held, vars, broker, round, scan
<1>5. QED
  BY <1>3, <1>4

\* Nothing but the two entry paths sends a BUY.
LEMMA OnlyEntriesSend ==
  ASSUME [Next]_vars, Sends
  PROVE  Buy \/ BollingerBuy
<1>1. mine # mine'
  BY DEF Sends
<1>2. CASE UNCHANGED vars
  BY <1>1, <1>2 DEF vars, round
<1>3. CASE BrokerNext
  BY <1>1, <1>3 DEF BrokerNext, Fill, CancelLands, Sell, Post, NewDay, round
<1>4. CASE \/ Boot \/ BootSync \/ Crash \/ CycleSync \/ ReadAccount \/ NoEntries
           \/ NoSwing \/ LoopOver \/ BollingerProtected \/ NoBollinger \/ Scan \/ Skip
           \/ Bought \/ NotBought \/ AfterCancel \/ Protected \/ \E s \in Symbol : Exit(s)
  BY <1>1, <1>4 DEF Sends, Boot, BootSync, Crash, CycleSync, ReadAccount, NoEntries,
     NoSwing, LoopOver, BollingerProtected, NoBollinger, Scan, Skip, Bought, NotBought,
     AfterCancel, Protected, Exit, round
<1>5. QED
  BY <1>2, <1>3, <1>4 DEF Next, Engine

\* A BUY is sent into a free slot of the account.
LEMMA SendFits ==
  ASSUME Typed, Facts, Room, [Next]_vars, Sends
  PROVE  Cardinality(Held) < MaxPositions(equity')
<1>1. Books /\ Counts
  BY TypeParts DEF Typed
<1>2. CASE Buy
  <2>1. pc = "pick" /\ placed < slots /\ equity' = equity
    BY <1>2 DEF Buy
  <2>2. Cardinality(Tracked) + slots - placed <= MaxPositions(equity)
    BY <2>1, RoomNumbers DEF Room, RoomBut
  <2>3. Held \subseteq Tracked
    BY <2>1 DEF Facts, Known, Quiet
  <2>4. Cardinality(Held) \in Nat /\ Cardinality(Held) <= Cardinality(Tracked)
    BY <2>3, PartSmaller DEF Tracked
  <2>5. QED
    BY <2>1, <2>2, <2>4, RoomNumbers
<1>3. CASE BollingerBuy
  <2> DEFINE bucket == Allocation(equity', BollingerCash, Cardinality(Tracked))
  <2>1. PICK limit \in Prices : BucketQty(bucket, limit) >= 1
    BY <1>3 DEF BollingerBuy
  <2>2. BollingerCash \in Nat /\ equity' \in Nat
    BY <1>1, <1>3, NumbersAssumption
    DEF Books, Counts, BollingerBuy, BollingerCash, Reported, Minus
  <2>3. bucket.slots = EntrySlots(equity', BollingerCash, Cardinality(Tracked))
    BY <2>2, AllocationTyped
  <2> HIDE DEF bucket
  <2>4. bucket.slots # 0
    BY <2>1 DEF BucketQty
  <2> DEFINE open == Cardinality(Tracked)
             most == MaxPositions(equity')
  <2>5. open < most
    <3>1. open \in Nat /\ most \in Nat
      BY <2>2, RoomNumbers, MaxPositionsTyped
    <3>2. /\ EntrySlots(equity', BollingerCash, open) \in Nat
          /\ EntrySlots(equity', BollingerCash, open) > 0
               => open + EntrySlots(equity', BollingerCash, open) <= most
      BY <2>2, <3>1, EntrySlotsTyped
    <3> HIDE DEF open, most
    <3>3. bucket.slots = EntrySlots(equity', BollingerCash, open)
      BY <2>3 DEF open
    <3>4. QED
      BY <2>4, <3>1, <3>2, <3>3
  <2>6. Held \subseteq Tracked
    BY <1>3 DEF BollingerBuy, Facts, Known, Quiet
  <2>7. Cardinality(Held) \in Nat /\ Cardinality(Held) <= Cardinality(Tracked)
    BY <2>6, PartSmaller DEF Tracked
  <2>8. QED
    BY <2>2, <2>5, <2>7, RoomNumbers, MaxPositionsTyped
<1>4. QED
  BY <1>2, <1>3, OnlyEntriesSend

\* However many entries a cycle makes on its two paths, each finds the account with room
\* for one more position at the equity of its own moment, unless a BUY was filled while
\* it was cancelled or a cancel raised or was slow.
THEOREM EntriesFitCapacity ==
  Spec => BuysWithinCapacity
<1>1. Init => Typed /\ Alone /\ Spacious
  BY InitTyped, InitAlone DEF Init, Spacious, Room
<1>2. Typed /\ Alone /\ Spacious /\ [Next]_vars => Typed' /\ Alone' /\ Spacious'
  BY TypedStep, AloneStep, SpaciousStep
<1>3. Typed /\ Alone /\ Spacious /\ [Next]_vars
        => [Sends /\ excused = {} => Cardinality(Held) < MaxPositions(equity')]_vars
  BY SendFits DEF Alone, Spacious, CancelsLand
<1>4. QED
  BY <1>1, <1>2, <1>3, PTL DEF Spec, BuysWithinCapacity

-----------------------------------------------------------------------------
(* The Bollinger sleeve. *)

\* The positions of the sleeve, and those that a BUY at the broker may yet add to it.
Sleeve == { s \in Symbol : lots[s].tag = "bollinger" }
Coming == { s \in Symbol : \E i \in Working : buys[i].sym = s /\ buys[i].tag = "bollinger" }

\* What the broker holds for the sleeve is never tagged as the other's, so the engine
\* counts all of it; and a BUY fills for nothing that is held or tracked.
Tagged ==
  /\ \A i \in Working : buys[i].sym \notin Held \cup Tracked
  /\ \A s \in Symbol : lots[s].tag = "bollinger" => tag[s] # "swing"
  /\ pc = "sent" => /\ lots[mine.sym].tag \in {"none", mine.tag}
                    /\ \A i \in Working : buys[i].tag = mine.tag

Capped == Cardinality(Sleeve \cup Coming) <= MaxBollinger

Sleeves == CancelsLand => Tagged /\ Capped

\* What adds nothing to the sleeve keeps it within its cap.
LEMMA CappedKept ==
  ASSUME Capped, Sleeve' \cup Coming' \subseteq Sleeve \cup Coming
  PROVE  Capped'
<1> DEFINE S == Sleeve \cup Coming
           T == Sleeve' \cup Coming'
<1>1. S \in SUBSET Symbol /\ T \in SUBSET S
  BY DEF Sleeve, Coming
<1>2. Cardinality(S) <= MaxBollinger
  BY DEF Capped
<1> HIDE DEF S, T
<1>3. Cardinality(S) \in Nat /\ Cardinality(T) \in Nat
      /\ Cardinality(T) <= Cardinality(S)
  BY <1>1, PartSmaller
<1>4. Cardinality(T) <= MaxBollinger
  BY <1>2, <1>3, NumbersAssumption
<1>5. QED
  BY <1>4 DEF Capped, T

\* The broker's steps: a fill turns what was coming into a position.
LEMMA BrokerSleeve ==
  ASSUME Typed, Facts, Tagged, Capped, BrokerNext
  PROVE  Tagged' /\ Capped'
<1>1. Books /\ Rest /\ Paid
  BY TypeParts DEF Typed, Paid
<1>2. pc' = pc /\ mine' = mine /\ tag' = tag
  BY DEF BrokerNext, Fill, CancelLands, Sell, Post, NewDay, round
<1>3. Tracked' = Tracked
  BY <1>2 DEF Tracked
<1>4. pc = "sent" => mine.sym \in Symbol
  BY <1>1 DEF Paid, Rest, Waits, Await
<1>5. ASSUME NEW i \in Slot, Fill(i) PROVE Tagged' /\ Capped'
  <2>1. i \in Working /\ Working' = {}
    BY <1>1, <1>5 DEF Facts, Single, Working, Fill, Books
  <2>2. buys[i].sym \in Symbol /\ buys[i].tag \in Tags
    BY <1>1, <2>1 DEF Books, Working, Order
  <2>3. /\ lots'[buys[i].sym].tag = buys[i].tag
        /\ \A s \in Symbol \ {buys[i].sym} : lots'[s] = lots[s]
    BY <1>1, <1>5, <2>2 DEF Fill, Books
  <2>4. tag[buys[i].sym] = "none"
    BY <2>1, <2>2 DEF Tagged, Tracked
  <2>5. \A s \in Symbol : lots'[s].tag = "bollinger" => tag'[s] # "swing"
    BY <1>2, <2>3, <2>4 DEF Tagged
  <2>6. pc = "sent" => buys[i].tag = mine.tag /\ mine.sym = buys[i].sym
    BY <2>1 DEF Tagged, Facts, Awaited
  <2>7. Tagged'
    BY <1>2, <2>1, <2>3, <2>5, <2>6 DEF Tagged
  <2>8. Sleeve' \cup Coming' \subseteq Sleeve \cup Coming
    BY <2>1, <2>2, <2>3 DEF Sleeve, Coming
  <2>9. QED
    BY <2>7, <2>8, CappedKept
<1>6. ASSUME NEW i \in Slot, CancelLands(i) PROVE Tagged' /\ Capped'
  <2>1. Working' = {} /\ lots' = lots
    <3>1. i \in Working
      BY <1>6, CancelledWorks DEF CancelLands
    <3>2. QED
      BY <1>1, <1>6, <3>1 DEF Facts, Single, Working, CancelLands, Books
  <2>2. Sleeve' \cup Coming' \subseteq Sleeve \cup Coming
    BY <2>1 DEF Sleeve, Coming
  <2>3. QED
    BY <1>2, <2>1, <2>2, CappedKept DEF Tagged
<1>7. ASSUME NEW s \in Symbol, Sell(s) PROVE Tagged' /\ Capped'
  <2>1. /\ lots'[s].tag = "none" /\ \A x \in Symbol \ {s} : lots'[x] = lots[x]
        /\ buys' = buys /\ Working' = Working
    BY <1>1, <1>7 DEF Sell, Books, NoLot, Working
  <2>2. Held' \subseteq Held /\ Sleeve' \cup Coming' \subseteq Sleeve \cup Coming
    BY <2>1 DEF Held, Sleeve, Coming
  <2>3. Tagged'
    BY <1>2, <1>3, <1>4, <2>1, <2>2 DEF Tagged
  <2>4. QED
    BY <2>2, <2>3, CappedKept
<1>8. ASSUME Post \/ NewDay PROVE Tagged' /\ Capped'
  <2>1. lots' = lots /\ ((buys' = buys /\ Working' = Working) \/ Working' = {})
    BY <1>8 DEF Post, NewDay, Working
  <2>2. Sleeve' \cup Coming' \subseteq Sleeve \cup Coming /\ Held' = Held
    BY <2>1 DEF Held, Sleeve, Coming
  <2>3. QED
    BY <1>2, <1>3, <2>1, <2>2, CappedKept DEF Tagged
<1>9. QED
  BY <1>5, <1>6, <1>7, <1>8 DEF BrokerNext

\* The engine's steps that send no BUY.
LEMMA EngineSleeve ==
  ASSUME Typed, Facts, Tagged, Capped, CancelsLand', Engine \/ Crash,
         ~Buy, ~BollingerBuy
  PROVE  Tagged' /\ Capped'
<1>1. Books /\ Rest /\ Paid
  BY TypeParts DEF Typed, Paid
<1>2. ~CancelRaises /\ (Sleeps => NoneCancelling)
  BY Landed DEF CancelsLand
<1>3. ASSUME \/ Crash \/ ReadAccount \/ NoEntries \/ NoSwing \/ LoopOver \/ Scan \/ Skip
             \/ BollingerProtected \/ NoBollinger \/ Protected
      PROVE  Tagged' /\ Capped'
  <2>1. /\ pc' # "sent" /\ lots' = lots /\ buys' = buys /\ tag' = tag
    BY <1>3 DEF Crash, ReadAccount, NoEntries, NoSwing, LoopOver, Scan, Skip,
       BollingerProtected, NoBollinger, Protected, broker
  <2>2. /\ Held' = Held /\ Tracked' = Tracked /\ Working' = Working
        /\ Sleeve' = Sleeve /\ Coming' = Coming
    BY <2>1 DEF Held, Tracked, Working, Sleeve, Coming
  <2>3. QED
    BY <2>1, <2>2, CappedKept DEF Tagged
<1>4. ASSUME BootSync \/ CycleSync \/ AfterCancel PROVE Tagged' /\ Capped'
  <2>1. /\ pc' # "sent" /\ lots' = lots /\ buys' = buys /\ Sync
    BY <1>4 DEF BootSync, CycleSync, AfterCancel, broker
  <2>2. Working' = {}
    BY <1>2, <1>4, <2>1 DEF BootSync, CycleSync, AfterCancel, NoneCancelling, Facts, Awaited,
       Working, Quiet
  <2>3. \A s \in Symbol : tag'[s] \in {"unknown", "none", tag[s]}
    BY <2>1 DEF Sync
  <2>4. Sleeve' \cup Coming' \subseteq Sleeve \cup Coming
    BY <2>1, <2>2 DEF Sleeve, Coming
  <2>5. Tagged'
    BY <2>1, <2>2, <2>3 DEF Tagged
  <2>6. QED
    BY <2>4, <2>5, CappedKept
<1>5. ASSUME Bought PROVE Tagged' /\ Capped'
  <2>1. /\ pc = "sent" /\ pc' = "stop" /\ lots' = lots /\ buys' = buys
        /\ tag' = [tag EXCEPT ![mine.sym] = mine.tag]
    BY <1>5 DEF Bought, broker
  <2>2. Working' = {}
    BY <1>5, <2>1 DEF Facts, Awaited, Bought, Filled, Working
  <2>3. \A s \in Symbol : tag'[s] # tag[s] => s = mine.sym /\ tag'[s] = mine.tag
    BY <1>1, <2>1 DEF Books
  <2>4. \A s \in Symbol : lots'[s].tag = "bollinger" => tag'[s] # "swing"
    BY <2>1, <2>3 DEF Tagged
  <2>5. Sleeve' \cup Coming' \subseteq Sleeve \cup Coming
    BY <2>1, <2>2 DEF Sleeve, Coming
  <2>6. QED
    BY <2>1, <2>2, <2>4, <2>5, CappedKept DEF Tagged
<1>6. ASSUME NEW s \in Symbol, Exit(s) PROVE Tagged' /\ Capped'
  <2>1. pc \in {"idle", "scan", "pick"} /\ pc' = pc /\ buys' = buys
    BY <1>6 DEF Exit
  <2>2. Working' = {}
    BY <2>1 DEF Facts, Awaited, Working, Quiet
  <2>3. /\ lots'[s].tag = "none" /\ \A x \in Symbol \ {s} : lots'[x] = lots[x]
        /\ \A x \in Symbol \ {s} : tag'[x] = tag[x]
    BY <1>1, <1>6 DEF Exit, Books, NoLot
  <2>4. Sleeve' \cup Coming' \subseteq Sleeve \cup Coming
    BY <2>2, <2>3 DEF Sleeve, Coming
  <2>5. Tagged'
    BY <2>1, <2>2, <2>3 DEF Tagged
  <2>6. QED
    BY <2>4, <2>5, CappedKept
<1>7. ASSUME Boot \/ NotBought PROVE Tagged' /\ Capped'
  <2>1. pc' # "sent" /\ lots' = lots /\ tag' = tag
    BY <1>7 DEF Boot, NotBought
  <2>2. \A i \in Working' : /\ i \in Working
                            /\ buys'[i].sym = buys[i].sym /\ buys'[i].tag = buys[i].tag
    <3>1. \A i \in Slot : i \in Working => buys[i] \in Order
      BY <1>1 DEF Working, Books
    <3>2. CASE Boot
      <4> DEFINE orphans == { i \in Working : buys[i].sym \notin Tracked \cup Held }
      <4>1. buys' = [ i \in Slot |-> IF i \in orphans
                                     THEN [buys[i] EXCEPT !.cancel = TRUE]
                                     ELSE buys[i] ]
        BY <1>2, <3>2 DEF Boot
      <4>2. QED
        BY <3>1, <4>1 DEF Working, Order
    <3>3. CASE NotBought
      <4>1. buys' = [buys EXCEPT ![mine.slot].cancel = TRUE] /\ buys[mine.slot] # NoBuy
        BY <1>2, <3>3 DEF NotBought, Filled
      <4>2. QED
        BY <1>1, <3>1, <4>1 DEF Working, Order, Books
    <3>4. QED
      BY <1>7, <3>2, <3>3
  <2>3. Held' = Held /\ Tracked' = Tracked
    BY <2>1 DEF Held, Tracked
  <2>4. Sleeve' \cup Coming' \subseteq Sleeve \cup Coming
    BY <2>1, <2>2 DEF Sleeve, Coming
  <2>5. Tagged'
    BY <2>1, <2>2, <2>3 DEF Tagged
  <2>6. QED
    BY <2>4, <2>5, CappedKept
<1>8. QED
  BY <1>3, <1>4, <1>5, <1>6, <1>7 DEF Engine

\* A BUY that is sent is for a symbol of no sleeve, and the only one at the broker.
LEMMA SendSleeve ==
  ASSUME Books, Working = {}, Held \subseteq Tracked, Tagged, NEW s \in Symbol \ Tracked,
         NEW t \in Tags, NEW cost, Send(s, t, cost), lots' = lots, tag' = tag
  PROVE  /\ Tagged'
         /\ Sleeve' = Sleeve /\ Coming' \subseteq {s}
         /\ t # "bollinger" => Coming' = {}
<1>1. PICK i \in Slot \ Working :
        /\ buys' = [buys EXCEPT ![i] = [ sym |-> s, cost |-> cost, tag |-> t,
                                         cancel |-> FALSE ]]
        /\ mine' = [ slot |-> i, sym |-> s, cost |-> cost, tag |-> t ]
        /\ pc' = "sent"
  BY DEF Send
<1>2. Working' \subseteq {i}
  BY <1>1 DEF Working, Books
<1>3. /\ buys'[i].sym = s /\ buys'[i].tag = t /\ mine'.sym = s /\ mine'.tag = t
  BY <1>1 DEF Books
<1>4. lots[s].tag = "none"
  BY DEF Held
<1>5. Held' = Held /\ Tracked' = Tracked /\ Sleeve' = Sleeve
  BY DEF Held, Tracked, Sleeve
<1>6. Tagged'
  BY <1>1, <1>2, <1>3, <1>4, <1>5 DEF Tagged
<1>7. QED
  BY <1>2, <1>3, <1>5, <1>6 DEF Coming

\* The first path adds nothing to the sleeve; the second only while it is below its cap.
LEMMA EntrySleeve ==
  ASSUME Typed, Facts, Tagged, Capped, Buy \/ BollingerBuy
  PROVE  Tagged' /\ Capped'
<1>1. Books /\ Rest
  BY TypeParts DEF Typed
<1>2. lots' = lots /\ tag' = tag /\ pc \in {"pick", "bollinger"}
  BY DEF Buy, BollingerBuy
<1>3. Working = {} /\ Held \subseteq Tracked
  BY <1>2 DEF Facts, Awaited, Known, Quiet
<1>4. CASE Buy
  <2>0. PICK s \in signals : \E cost : Send(s, "swing", cost)
    BY <1>4 DEF Buy
  <2>1. PICK cost : Send(s, "swing", cost)
    BY <2>0
  <2>2. s \in Symbol \ Tracked
    BY <1>1, <1>4 DEF Rest, Facts, Untried, Buy
  <2>3. Tagged' /\ Sleeve' = Sleeve /\ Coming' = {}
    BY <1>1, <1>2, <1>3, <2>1, <2>2, SendSleeve DEF Tags
  <2>4. QED
    BY <2>3, CappedKept
<1>5. CASE BollingerBuy
  <2>0. PICK s \in Symbol \ Tracked : \E cost : Send(s, "bollinger", cost)
    BY <1>5 DEF BollingerBuy
  <2>1. PICK cost : Send(s, "bollinger", cost)
    BY <2>0
  <2>2. Tagged' /\ Sleeve' = Sleeve /\ Coming' \subseteq {s}
    BY <1>1, <1>2, <1>3, <2>1, SendSleeve DEF Tags
  <2>3. Sleeve \subseteq BollingerOpen
    BY <1>3 DEF Sleeve, BollingerOpen, Held, Tagged
  <2>4. Cardinality(BollingerOpen) < MaxBollinger
    BY <1>5 DEF BollingerBuy
  <2> DEFINE S == BollingerOpen
             T == Sleeve' \cup Coming'
  <2>5. S \in SUBSET Symbol /\ T \in SUBSET (S \cup {s})
    BY <2>2, <2>3 DEF BollingerOpen, Tracked
  <2> HIDE DEF S, T
  <2>6. Cardinality(S) \in Nat /\ Cardinality(T) \in Nat
        /\ Cardinality(T) <= Cardinality(S) + 1
    BY <2>5, OneMore
  <2>7. Cardinality(T) <= MaxBollinger
    BY <2>4, <2>6, NumbersAssumption DEF S
  <2>8. QED
    BY <2>2, <2>7 DEF Capped, T
<1>6. QED
  BY <1>4, <1>5

LEMMA SleevesStep ==
  ASSUME Typed, Alone, Sleeves, [Next]_vars
  PROVE  Sleeves'
<1>1. SUFFICES ASSUME CancelsLand' PROVE Tagged' /\ Capped'
  BY DEF Sleeves
<1>2. Facts /\ Tagged /\ Capped
  BY <1>1, ExcusesStay DEF Alone, Sleeves, CancelsLand
<1>3. CASE BrokerNext
  BY <1>2, <1>3, BrokerSleeve
<1>4. CASE Buy \/ BollingerBuy
  BY <1>2, <1>4, EntrySleeve
<1>5. CASE (Engine \/ Crash) /\ ~Buy /\ ~BollingerBuy
  BY <1>1, <1>2, <1>5, EngineSleeve
<1>6. CASE UNCHANGED vars
  <2>1. UNCHANGED << lots, buys, tag, pc, mine >>
    BY <1>6 DEF vars, broker, round
  <2>2. /\ Held' = Held /\ Tracked' = Tracked /\ Working' = Working
        /\ Sleeve' = Sleeve /\ Coming' = Coming
    BY <2>1 DEF Held, Tracked, Working, Sleeve, Coming
  <2>3. QED
    BY <1>2, <2>1, <2>2, CappedKept DEF Tagged
<1>7. QED
  BY <1>3, <1>4, <1>5, <1>6 DEF Next

LEMMA InitSleeves ==
  Init => Sleeves
<1> SUFFICES ASSUME Init PROVE Tagged /\ Capped
  BY DEF Sleeves
<1>1. Working = {} /\ Sleeve = {} /\ Coming = {}
  BY DEF Init, Working, Sleeve, Coming, NoLot
<1>2. Capped
  BY <1>1, FS_EmptySet, NumbersAssumption DEF Capped
<1>3. QED
  BY <1>1, <1>2 DEF Init, Tagged, NoLot

\* Crashes between a fill and its record, recovered positions and late fills never give
\* the Bollinger strategy more positions than its cap, unless a cancel raised and was
\* swallowed or had not landed when the engine went on.
THEOREM SleeveStaysCapped ==
  Spec => []BollingerCapped
<1>1. Sleeves => BollingerCapped
  <2>1. SUFFICES ASSUME Capped PROVE Cardinality(Sleeve) <= MaxBollinger
    BY DEF Sleeves, BollingerCapped, Sleeve
  <2>2. /\ Cardinality(Sleeve) \in Nat /\ Cardinality(Sleeve \cup Coming) \in Nat
        /\ Cardinality(Sleeve) <= Cardinality(Sleeve \cup Coming)
    <3>1. Sleeve \cup Coming \in SUBSET Symbol /\ Sleeve \in SUBSET (Sleeve \cup Coming)
      BY DEF Sleeve, Coming
    <3>2. QED
      BY <3>1, PartSmaller
  <2>3. QED
    BY <2>1, <2>2, NumbersAssumption DEF Capped
<1>2. Typed /\ Alone /\ Sleeves /\ [Next]_vars => Typed' /\ Alone' /\ Sleeves'
  BY TypedStep, AloneStep, SleevesStep
<1>3. QED
  BY <1>1, <1>2, InitTyped, InitAlone, InitSleeves, PTL DEF Spec
=============================================================================
