-------------------------------- MODULE Game --------------------------------
(***************************************************************************)
(* The pure part of Game.c: what a board is, what a press of the button    *)
(* does to it and when a game is over.  The server keeps the one game that *)
(* counts; every client keeps a copy that the server's packets overwrite.  *)
(* The board is a parameter: the program's is 3 x 3, the protocol models   *)
(* use smaller ones.                                                       *)
(***************************************************************************)
EXTENDS Integers, FiniteSets, Sequences, FiniteSetsExt

CONSTANTS
    Cells,      \* the indices of trackGame
    Middle,     \* the cell the cursor starts in
    WinLines    \* the lines isGameOver tests, in the order it tests them

Blank == " "
Marks == {"X", "O"}

ASSUME BoardAssumption ==
    /\ Cells \subseteq Nat
    /\ IsFiniteSet(Cells)
    /\ Middle \in Cells
    /\ WinLines \in Seq((SUBSET Cells) \ {{}})

Boards == [Cells -> Marks \cup {Blank}]

\* A struct Game as far as the protocol sees it.  The server's turn is always
\* a mark; a client's copy may hold the blank isGameOver writes on a tie.
Games == [trackGame : Boards, turn : Marks \cup {Blank}, cursor : Cells]

ResetGame == [trackGame |-> [c \in Cells |-> Blank], turn |-> "X", cursor |-> Middle]

Opponent(m) == IF m = "X" THEN "O" ELSE "X"

\* Mutant: any cell of the board may be marked.
OverwritesMarks(g) == g.cursor \in Cells

ValidateMove(g) == g.trackGame[g.cursor] = Blank

UpdateBoard(g) ==
    IF ValidateMove(g)
    THEN [g EXCEPT !.trackGame[g.cursor] = g.turn, !.turn = Opponent(g.turn)]
    ELSE g

CompletedBy(b, m) == {i \in DOMAIN WinLines : \A c \in WinLines[i] : b[c] = m}

CompleteLines(b) == CompletedBy(b, "X") \cup CompletedBy(b, "O")

IsGridFull(b) == \A c \in Cells : b[c] # Blank

\* Mutant: the test for a full grid is missing.
NeverTies(b) == CompleteLines(b) # {}

IsGameOver(b) == CompleteLines(b) # {} \/ IsGridFull(b)

\* winCondition as isGameOver leaves it: the position of the first complete
\* line in the order of the tests, 0 (TIE) for a full board without one.
WinCondition(b) == IF CompleteLines(b) = {} THEN 0 ELSE Min(CompleteLines(b))

\* The turn isGameOver leaves behind names the winner, or nobody on a tie.
WinnerOf(b) ==
    CASE WinCondition(b) = 0                      -> Blank
      [] WinCondition(b) \in CompletedBy(b, "X")  -> "X"
      [] OTHER                                    -> "O"

\* isGameOver on a copy of the game: it overwrites turn when it answers true.
Judged(g) == IF IsGameOver(g.trackGame) THEN [g EXCEPT !.turn = WinnerOf(g.trackGame)] ELSE g

MarkCount(b, m) == Cardinality({c \in Cells : b[c] = m})

=============================================================================
