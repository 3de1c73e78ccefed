------------------------------- MODULE MCSystem -------------------------------
(* Small instances of System for TLC.                                      *)
EXTENDS Session

CONSTANTS c1, c2, c3

MCTwo == {c1, c2}
MCThree == {c1, c2, c3}

MCSymmetry == Permutations(Clients)

\* Two cells in a line: X wins with both, otherwise the board fills up.
MCCells2 == 0 .. 1
MCLines2 == <<{0, 1}>>
\* The same cells, where the mark on the second wins: X at once, or O.
MCShortLines2 == <<{1}>>
\* Three cells: X may win with its second mark or the board fills up.
MCCells3 == 0 .. 2
MCLines3 == <<{0, 1}, {1, 2}>>
\* Four cells in two lines.
MCCells4 == 0 .. 3
MCLines4 == <<{0, 1}, {2, 3}>>

MCAnywhere2 == [c \in MCCells2 |-> MCCells2]
MCAnywhere3 == [c \in MCCells3 |-> MCCells3]
MCAnywhere4 == [c \in MCCells4 |-> MCCells4]

MCNone == {}
MCOne == {c1}
MCLose == {"lose"}
MCLoseDup == {"lose", "duplicate"}
MCAllFaults == {"lose", "duplicate", "reorder"}

=============================================================================
