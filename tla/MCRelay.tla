------------------------------- MODULE MCRelay -------------------------------
(* A small instance of Relay for TLC.                                      *)
EXTENDS Relay

CONSTANTS c1, c2

MCTwo == {c1, c2, Px}
MCCells2 == 0 .. 1
MCLines2 == <<{0, 1}>>
MCAnywhere2 == [c \in MCCells2 |-> MCCells2]
MCNone == {}

\* No option, numbers out of range, and two that are acceptable together only
\* with the default of the other.
MCDropArgs == {NoOption, 85}
MCHoldArgs == {16, 101}

=============================================================================
