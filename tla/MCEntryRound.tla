----------------------------- MODULE MCEntryRound -----------------------------
(* A small account for model-checking EntryRound. *)
EXTENDS EntryRound, TLC

CONSTANTS a, b, c

Alike == Permutations({a, b})
Candidates == {a, b, c}
Sectors    == (a :> "tech") @@ (b :> "tech") @@ (c :> "energy")
=============================================================================
