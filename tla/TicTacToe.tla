------------------------------ MODULE TicTacToe ------------------------------
(***************************************************************************)
(* What the system promises its players: a game of tick-tack-toe.  Players *)
(* alternate, X first, each marking one blank cell, and at any moment the  *)
(* table may be cleared for new players.  Fair play adds that nobody marks *)
(* a cell of a game that is over.                                          *)
(***************************************************************************)
EXTENDS Game

VARIABLES board, toMove

gameVars == <<board, toMove>>

EmptyBoard == [c \in Cells |-> Blank]

Init == board = EmptyBoard /\ toMove = "X"

Mark(c) ==
    /\ board[c] = Blank
    /\ board' = [board EXCEPT ![c] = toMove]
    /\ toMove' = Opponent(toMove)

NewGame == board' = EmptyBoard /\ toMove' = "X"

Next == NewGame \/ \E c \in Cells : Mark(c)

Spec == Init /\ [][Next]_gameVars

FairPlayNext == NewGame \/ (~IsGameOver(board) /\ \E c \in Cells : Mark(c))

FairPlay == Init /\ [][FairPlayNext]_gameVars

=============================================================================
