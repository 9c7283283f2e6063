----------------------------- MODULE MCSupervisor -----------------------------
(* One shell or two, and three processes, for model-checking Supervisor. *)
EXTENDS Supervisor, TLC
CONSTANTS s1, s2, p1, p2, p3
OneShell  == {s1}
TwoShells == {s1, s2}
ThreePids == {p1, p2, p3}
Alike == Permutations(TwoShells) \cup Permutations(ThreePids)
=============================================================================
