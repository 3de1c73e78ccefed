--------------------------------- MODULE Play ---------------------------------
(***************************************************************************)
(* A game on the program's own board, as the players live it when the      *)
(* protocol delivers what ImplementsFairPlay of System promises: whoever   *)
(* has the turn starts from the shared cursor, one use of the controller   *)
(* is applied by the server, everybody is shown the result, and nobody     *)
(* plays on a board a client judged to be over.                            *)
(***************************************************************************)
EXTENDS Game, Controller

\* The lines of the program's board in the order of isGameOver: rows, diagonals,
\* columns.
Lines == <<{0, 1, 2}, {3, 4, 5}, {6, 7, 8}, {0, 4, 8}, {2, 4, 6},
           {0, 3, 6}, {1, 4, 7}, {2, 5, 8}>>

ASSUME BoardOfTheProgram == Cells = GridCells /\ Middle = 4 /\ WinLines = Lines

VARIABLE game

TypeOK == game \in Games

Init == game = ResetGame

\* The move as sv_process applies it.
Apply(g, input) ==
    LET moved == [g EXCEPT !.cursor = input.cursor]
    IN  IF input.btn THEN UpdateBoard(moved) ELSE moved

\* Mutant: no client judges the game.
PlaysOn ==
    \E input \in UseController(game.cursor) : game' = Apply(game, input)

Turn ==
    /\ ~IsGameOver(game.trackGame)
    /\ \E input \in UseController(game.cursor) : game' = Apply(game, input)

\* A player left: the server clears the table.
Reset == game' = ResetGame

Next == Turn \/ Reset

Spec == Init /\ [][Next]_game

-----------------------------------------------------------------------------
(* What a client shows of its copy of the game.                            *)

\* Mutant: counts the complete lines instead of naming one.
HighlightsLast(b) ==
    IF CompleteLines(b) = {} THEN {} ELSE WinLines[Cardinality(CompleteLines(b))]

\* displayBoardEnd: the cells it colours.
Highlighted(b) == IF WinCondition(b) = 0 THEN {} ELSE WinLines[WinCondition(b)]

\* displayBoardWithCursor frames the cursor; displayDetails, which it calls,
\* draws the board anew without the cursor when the game is over.
StandsOut(g) ==
    IF IsGameOver(g.trackGame) THEN Highlighted(g.trackGame) ELSE {g.cursor}

\* displayDetails: who has won, or is selecting; nobody when both lose.
Announced(g) == Judged(g).turn

-----------------------------------------------------------------------------
Row(c) == c \div 3
Column(c) == c % 3

\* Three cells in a row, a column or a diagonal, by geometry.
Straight(cells) ==
    /\ Cardinality(cells) = 3
    /\ \/ \E r \in 0 .. 2 : \A c \in cells : Row(c) = r
       \/ \E k \in 0 .. 2 : \A c \in cells : Column(c) = k
       \/ \A c \in cells : Row(c) = Column(c)
       \/ \A c \in cells : Row(c) + Column(c) = 2

Has(m, cells) == \A c \in cells : game.trackGame[c] = m

\* isGameOver (Game.c:484) finds exactly the three-in-a-rows there are on the
\* board, and the winner it names has one.
JudgedByGeometry ==
    LET won == {m \in Marks : \E s \in SUBSET Cells : Straight(s) /\ Has(m, s)}
        b   == game.trackGame
    IN  /\ IsGameOver(b) <=> (won # {} \/ \A c \in Cells : b[c] # Blank)
        /\ IsGameOver(b) => IF won = {} THEN WinnerOf(b) = Blank ELSE WinnerOf(b) \in won

\* The players are told the truth: the winner is the player who moved last,
\* the one whose turn it is not, and has made as many marks as the other, or
\* one more as X.
WinnerMovedLast ==
    LET b == game.trackGame
        w == Announced(game)
    IN  IsGameOver(b) /\ w # Blank =>
            /\ w = Opponent(game.turn)
            /\ MarkCount(b, "X") - MarkCount(b, "O") = (IF w = "X" THEN 1 ELSE 0)

\* displayBoardEnd (Game.c:211) colours a line of the winner, or no line and
\* the full board on a tie; a last mark may complete two lines, of which the
\* first tested is coloured.
HighlightIsTheWinners ==
    LET b == game.trackGame
    IN  IsGameOver(b) =>
            IF Announced(game) = Blank
            THEN StandsOut(game) = {} /\ IsGridFull(b)
            ELSE Straight(StandsOut(game)) /\ Has(Announced(game), StandsOut(game))

\* No line of the loser is on the board when the game is over: the order in
\* which isGameOver tests the lines cannot decide who won.
OneWinner == CompletedBy(game.trackGame, "X") = {} \/ CompletedBy(game.trackGame, "O") = {}

\* One use of the controller moves the cursor to a neighbour: it never wraps
\* from the end of one row to the start of the next (Controller.c:181, 185).
CursorKeepsToTheGrid ==
    [][game' # ResetGame =>
        /\ Row(game'.cursor) - Row(game.cursor) \in -1 .. 1
        /\ Column(game'.cursor) - Column(game.cursor) \in -1 .. 1]_game

=============================================================================
