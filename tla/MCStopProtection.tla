--------------------------- MODULE MCStopProtection ---------------------------
(* What the engine may find when it starts, for model-checking StopProtection. *)
EXTENDS StopProtection

Trail(q, gate, own, dollar) ==
  [ type |-> "TRAIL", qty |-> q, status |-> "submitted", gate |-> gate,
    own |-> own, dollar |-> dollar ]

NoOrders  == [ i \in OrderId |-> FreeSlot ]
Book(o)   == [NoOrders EXCEPT ![1] = o]

Saved(q, prot, id) ==
  [ tracked |-> TRUE, qty |-> q, prot |-> prot, stopSet |-> TRUE, stopId |-> id,
    pendingExit |-> FALSE ]

Start(q, book, record) == [ held |-> q, book |-> book, disk |-> record ]

\* Nothing held, or a position whose record and stop survived a restart.
KnownStarts ==
  { Start(0, NoOrders, Untracked),
    Start(1, Book(Trail(1, "stale", TRUE, FALSE)), Saved(1, "confirmed", 1)) }

\* The state file is lost or outdated: an unknown position with or without a
\* stop of ours (percent or dollar), with another client's, with two stops, or
\* orders left for a symbol that is flat.
LostStarts ==
  { Start(1, NoOrders, Untracked),
    Start(1, Book(Trail(1, "stale", TRUE, FALSE)), Untracked),
    Start(1, Book(Trail(1, "none", TRUE, TRUE)), Untracked),
    Start(1, Book(Trail(1, "none", FALSE, FALSE)), Untracked),
    Start(1, [Book(Trail(1, "stale", TRUE, FALSE)) EXCEPT
                ![2] = Trail(1, "none", TRUE, FALSE)], Untracked),
    Start(0, Book(Trail(1, "stale", TRUE, FALSE)), Untracked),
    Start(1, NoOrders, Saved(1, "pending", 0)) }

\* Starts with at most one stop: with two, which one the audit keeps is open.
OneStopStarts ==
  KnownStarts \cup { Start(1, Book(Trail(1, "stale", TRUE, FALSE)), Untracked),
                    Start(1, Book(Trail(1, "none", TRUE, TRUE)), Untracked),
                    Start(1, NoOrders, Saved(1, "pending", 0)) }

AnyStart == KnownStarts \cup LostStarts

\* The order slots never run out, but for slow cancels, of which they bound how
\* many are in flight: the number of slots cuts no behaviour of an instance off.
SlotNeverLacking == "slowCancel" \in Faults \/ Slots(Watched) # {}
=============================================================================
