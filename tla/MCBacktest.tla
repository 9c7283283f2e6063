------------------------------ MODULE MCBacktest ------------------------------
EXTENDS Backtest, TLC

CONSTANTS a, b

Pair  == {a, b}
Alike == Permutations(Pair)

Flat  == [ open |-> 100, high |-> 101, low |-> 99, close |-> 100 ]
Rally == [ open |-> 100, high |-> 130, low |-> 99, close |-> 120 ]
Crash == [ open |-> 110, high |-> 110, low |-> 60, close |-> 70 ]

ThreeBars == {Flat, Rally, Crash}
===============================================================================
