--------------------------- MODULE MCPositionBooks ---------------------------
(* Two symbols for model-checking PositionBooks. *)
EXTENDS PositionBooks

CONSTANTS a, b

Pair == {a, b}
=============================================================================
