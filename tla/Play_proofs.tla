------------------------------ MODULE Play_proofs ------------------------------
(***************************************************************************)
(* What a game on the program's board guarantees, for every reading of the *)
(* controller: isGameOver's eight tests are the eight straight lines, the  *)
(* winner it names is the one there is, and the cursor keeps to its grid.  *)
(***************************************************************************)
EXTENDS Play, FiniteSetTheorems, WellFoundedInduction, TLAPS

\* The player to move has no line, and X has made as many marks as O, or one
\* more when O is to move.
MoverBehind ==
    /\ game.turn \in Marks
    /\ CompletedBy(game.trackGame, game.turn) = {}
    /\ MarkCount(game.trackGame, "X") - MarkCount(game.trackGame, "O")
            = (IF game.turn = "X" THEN 0 ELSE 1)

PlayInv == TypeOK /\ MoverBehind

-----------------------------------------------------------------------------
(* The lines.                                                              *)

\* Eight tests, of nonempty sets of cells.
LEMMA LinesOfTheBoard ==
    /\ Cells = 0 .. 8
    /\ DOMAIN WinLines = 1 .. 8
    /\ \A i \in DOMAIN WinLines : WinLines[i] \subseteq Cells /\ WinLines[i] # {}
BY BoardOfTheProgram DEF Lines, GridCells

\* A set of naturals has a least element, which is what Min chooses.
LEMMA MinFacts ==
    ASSUME NEW S \in SUBSET Nat, S # {}
    PROVE  Min(S) \in S /\ \A y \in S : Min(S) <= y
<1>1. PICK x \in S : \A y \in S : ~(<<y, x>> \in OpToRel(<, Nat))
  BY NatLessThanWellFounded, WFMin
<1>2. \A y \in S : ~(y < x)
  BY <1>1 DEF OpToRel
<1>3. \A y \in S : x <= y
  BY <1>2
<1> QED
  BY <1>3 DEF Min

\* Three different cells are three.
LEMMA ThreeCells ==
    ASSUME NEW a, NEW b, NEW c, a # b, b # c, a # c
    PROVE  IsFiniteSet({a, b, c}) /\ Cardinality({a, b, c}) = 3
<1>1. IsFiniteSet({a}) /\ Cardinality({a}) = 1
  BY FS_Singleton
<1>2. IsFiniteSet({a} \cup {b}) /\ Cardinality({a} \cup {b}) = 2
  BY <1>1, FS_AddElement
<1>3. IsFiniteSet(({a} \cup {b}) \cup {c}) /\ Cardinality(({a} \cup {b}) \cup {c}) = 3
  BY <1>2, FS_AddElement
<1>4. ({a} \cup {b}) \cup {c} = {a, b, c}
  OBVIOUS
<1> QED
  BY <1>3, <1>4

\* A set of cells is one of the eight lines.
IsLine(s) ==
    \/ s = {0, 1, 2} \/ s = {3, 4, 5} \/ s = {6, 7, 8}
    \/ s = {0, 4, 8} \/ s = {2, 4, 6}
    \/ s = {0, 3, 6} \/ s = {1, 4, 7} \/ s = {2, 5, 8}

\* A line has three cells.
LEMMA LineSize ==
    ASSUME NEW s, IsLine(s)
    PROVE  IsFiniteSet(s) /\ Cardinality(s) = 3
<1>1. CASE s = {0, 1, 2}
  <2>1. 0 # 1 /\ 1 # 2 /\ 0 # 2
    OBVIOUS
  <2> QED
    BY <1>1, <2>1, ThreeCells, Zenon
<1>2. CASE s = {3, 4, 5}
  <2>1. 3 # 4 /\ 4 # 5 /\ 3 # 5
    OBVIOUS
  <2> QED
    BY <1>2, <2>1, ThreeCells, Zenon
<1>3. CASE s = {6, 7, 8}
  <2>1. 6 # 7 /\ 7 # 8 /\ 6 # 8
    OBVIOUS
  <2> QED
    BY <1>3, <2>1, ThreeCells, Zenon
<1>4. CASE s = {0, 4, 8}
  <2>1. 0 # 4 /\ 4 # 8 /\ 0 # 8
    OBVIOUS
  <2> QED
    BY <1>4, <2>1, ThreeCells, Zenon
<1>5. CASE s = {2, 4, 6}
  <2>1. 2 # 4 /\ 4 # 6 /\ 2 # 6
    OBVIOUS
  <2> QED
    BY <1>5, <2>1, ThreeCells, Zenon
<1>6. CASE s = {0, 3, 6}
  <2>1. 0 # 3 /\ 3 # 6 /\ 0 # 6
    OBVIOUS
  <2> QED
    BY <1>6, <2>1, ThreeCells, Zenon
<1>7. CASE s = {1, 4, 7}
  <2>1. 1 # 4 /\ 4 # 7 /\ 1 # 7
    OBVIOUS
  <2> QED
    BY <1>7, <2>1, ThreeCells, Zenon
<1>8. CASE s = {2, 5, 8}
  <2>1. 2 # 5 /\ 5 # 8 /\ 2 # 8
    OBVIOUS
  <2> QED
    BY <1>8, <2>1, ThreeCells, Zenon
<1> QED
  BY <1>1, <1>2, <1>3, <1>4, <1>5, <1>6, <1>7, <1>8 DEF IsLine

\* Three cells within a line are the line.
LEMMA ThreeInLine ==
    ASSUME NEW l, IsLine(l), NEW s \in SUBSET l, Cardinality(s) = 3
    PROVE  IsLine(s)
<1>1. IsFiniteSet(l) /\ Cardinality(l) = 3
  BY LineSize
<1>2. s = l
  BY <1>1, FS_Subset
<1> QED
  BY <1>2

\* What isGameOver tests are these lines, each of them.
LEMMA TestsAreLines ==
    /\ \A i \in DOMAIN WinLines : IsLine(WinLines[i])
    /\ \A s : IsLine(s) => \E i \in DOMAIN WinLines : s = WinLines[i]
<1>1. \A i \in DOMAIN WinLines : IsLine(WinLines[i])
  BY BoardOfTheProgram, LinesOfTheBoard DEF Lines, IsLine
<1>2. /\ WinLines[1] = {0, 1, 2} /\ WinLines[2] = {3, 4, 5} /\ WinLines[3] = {6, 7, 8}
      /\ WinLines[4] = {0, 4, 8} /\ WinLines[5] = {2, 4, 6}
      /\ WinLines[6] = {0, 3, 6} /\ WinLines[7] = {1, 4, 7} /\ WinLines[8] = {2, 5, 8}
  BY BoardOfTheProgram DEF Lines
<1>3. \A i \in {1, 2, 3, 4, 5, 6, 7, 8} : i \in DOMAIN WinLines
  BY LinesOfTheBoard
<1>4. \A s : IsLine(s) => \E i \in DOMAIN WinLines : s = WinLines[i]
  BY <1>2, <1>3, Zenon DEF IsLine
<1> QED
  BY <1>1, <1>4

\* A set of cells is a line exactly when it is straight.
LEMMA LinesByGeometry == \A s \in SUBSET Cells : Straight(s) <=> IsLine(s)
<1> SUFFICES ASSUME NEW s \in SUBSET Cells PROVE Straight(s) <=> IsLine(s)
  OBVIOUS
<1>1. \A c \in s : c \in 0 .. 8 /\ Row(c) = c \div 3 /\ Column(c) = c % 3
  BY LinesOfTheBoard DEF Row, Column
<1>2. ASSUME IsLine(s) PROVE Straight(s)
  <2>1. \/ \E r \in 0 .. 2 : \A c \in s : Row(c) = r
        \/ \E k \in 0 .. 2 : \A c \in s : Column(c) = k
        \/ \A c \in s : Row(c) = Column(c)
        \/ \A c \in s : Row(c) + Column(c) = 2
    BY <1>1, <1>2 DEF IsLine
  <2> QED
    BY <1>2, <2>1, LineSize DEF Straight
<1>3. ASSUME Straight(s) PROVE IsLine(s)
  <2>1. \/ s \subseteq {0, 1, 2} \/ s \subseteq {3, 4, 5} \/ s \subseteq {6, 7, 8}
        \/ s \subseteq {0, 4, 8} \/ s \subseteq {2, 4, 6}
        \/ s \subseteq {0, 3, 6} \/ s \subseteq {1, 4, 7} \/ s \subseteq {2, 5, 8}
    <3>1. CASE \E r \in 0 .. 2 : \A c \in s : Row(c) = r
      BY <1>1, <3>1
    <3>2. CASE \E k \in 0 .. 2 : \A c \in s : Column(c) = k
      BY <1>1, <3>2
    <3>3. CASE \A c \in s : Row(c) = Column(c)
      BY <1>1, <3>3
    <3>4. CASE \A c \in s : Row(c) + Column(c) = 2
      BY <1>1, <3>4
    <3> QED
      BY <1>3, <3>1, <3>2, <3>3, <3>4 DEF Straight
  <2>2. \E l : IsLine(l) /\ s \in SUBSET l
    BY <2>1, Zenon DEF IsLine
  <2> QED
    BY <1>3, <2>2, ThreeInLine DEF Straight
<1> QED
  BY <1>2, <1>3

-----------------------------------------------------------------------------
(* What isGameOver says of any board.                                      *)

\* The line it reports is complete, and 0 is reported when none is.
LEMMA WinConditionFacts ==
    ASSUME NEW b
    PROVE  /\ CompleteLines(b) = {} => WinCondition(b) = 0
           /\ CompleteLines(b) # {} => WinCondition(b) \in CompleteLines(b)
           /\ CompleteLines(b) \subseteq 1 .. 8
<1>1. CompleteLines(b) \subseteq 1 .. 8
  BY LinesOfTheBoard DEF CompleteLines, CompletedBy
<1>2. CompleteLines(b) # {} => Min(CompleteLines(b)) \in CompleteLines(b)
  BY <1>1, MinFacts
<1> QED
  BY <1>1, <1>2 DEF WinCondition

\* The winner it names has completed the line it reports.
LEMMA WinnerFacts ==
    ASSUME NEW b
    PROVE  /\ CompleteLines(b) = {} => WinnerOf(b) = Blank
           /\ CompleteLines(b) # {} =>
                /\ WinnerOf(b) \in Marks
                /\ WinCondition(b) # 0
                /\ WinCondition(b) \in CompletedBy(b, WinnerOf(b))
<1>1. CASE CompleteLines(b) = {}
  <2>1. WinCondition(b) = 0 /\ WinCondition(b) \notin CompletedBy(b, "X")
    BY <1>1, WinConditionFacts DEF CompleteLines
  <2>2. WinnerOf(b) = Blank
    BY <2>1, Zenon DEF WinnerOf
  <2> QED
    BY <1>1, <2>2, Zenon
<1>2. CASE CompleteLines(b) # {}
  <2>1. WinCondition(b) \in CompletedBy(b, "X") \cup CompletedBy(b, "O")
    BY <1>2, WinConditionFacts DEF CompleteLines
  <2>2. WinCondition(b) # 0
    BY <1>2, WinConditionFacts
  <2>3. CASE WinCondition(b) \in CompletedBy(b, "X")
    BY <2>2, <2>3, <1>2 DEF WinnerOf, Marks
  <2>4. CASE WinCondition(b) \notin CompletedBy(b, "X")
    BY <2>1, <2>2, <2>4, <1>2 DEF WinnerOf, Marks
  <2> QED
    BY <2>3, <2>4
<1> QED
  BY <1>1, <1>2, Zenon

\* A mark is not a blank.
LEMMA MarksAreNoBlanks == Blank \notin Marks
BY DEF Blank, Marks

\* The judgement is that of geometry.
LEMMA Judgement == TypeOK => JudgedByGeometry
<1> SUFFICES ASSUME TypeOK PROVE JudgedByGeometry
  OBVIOUS
<1> DEFINE b == game.trackGame
           won == {m \in Marks : \E s \in SUBSET Cells : Straight(s) /\ Has(m, s)}
<1>1. \A m \in Marks : m \in won <=> CompletedBy(b, m) # {}
  <2>1. ASSUME NEW m \in Marks, NEW s \in SUBSET Cells, Straight(s), Has(m, s)
        PROVE  CompletedBy(b, m) # {}
    <3>1. PICK i \in DOMAIN WinLines : s = WinLines[i]
      BY <2>1, LinesByGeometry, TestsAreLines
    <3>2. i \in CompletedBy(b, m)
      BY <2>1, <3>1 DEF CompletedBy, Has
    <3> QED
      BY <3>2
  <2>2. ASSUME NEW m \in Marks, NEW i \in CompletedBy(b, m)
        PROVE  \E s \in SUBSET Cells : Straight(s) /\ Has(m, s)
    <3>1. i \in DOMAIN WinLines /\ \A c \in WinLines[i] : b[c] = m
      BY <2>2 DEF CompletedBy
    <3>2. WinLines[i] \in SUBSET Cells /\ Straight(WinLines[i])
      BY <3>1, LinesOfTheBoard, LinesByGeometry, TestsAreLines
    <3>3. Has(m, WinLines[i])
      BY <3>1 DEF Has
    <3> QED
      BY <3>2, <3>3
  <2> QED
    BY <2>1, <2>2
<1> HIDE DEF won
<1>2. won \subseteq Marks
  BY DEF won
<1>3. CompleteLines(b) # {} <=> won # {}
  BY <1>1, <1>2 DEF CompleteLines, Marks
<1>4. IsGameOver(b) <=> (won # {} \/ \A c \in Cells : b[c] # Blank)
  BY <1>3 DEF IsGameOver, IsGridFull
<1>5. won = {} => WinnerOf(b) = Blank
  BY <1>3, WinnerFacts
<1>6. won # {} => WinnerOf(b) \in won
  BY <1>1, <1>3, WinnerFacts
<1> QED
  BY <1>4, <1>5, <1>6 DEF JudgedByGeometry, won

\* The cells that stand out are a line of the winner.
LEMMA Highlights == TypeOK => HighlightIsTheWinners
<1> SUFFICES ASSUME TypeOK, IsGameOver(game.trackGame)
             PROVE  IF Announced(game) = Blank
                    THEN StandsOut(game) = {} /\ IsGridFull(game.trackGame)
                    ELSE Straight(StandsOut(game)) /\ Has(Announced(game), StandsOut(game))
  BY DEF HighlightIsTheWinners
<1> DEFINE b == game.trackGame
<1>1. Announced(game) = WinnerOf(b)
  BY DEF Announced, Judged, TypeOK, Games
<1>2. StandsOut(game) = Highlighted(b)
  BY DEF StandsOut
<1>3. CASE CompleteLines(b) = {}
  BY <1>1, <1>2, <1>3, WinnerFacts, WinConditionFacts DEF Highlighted, IsGameOver
<1>4. CASE CompleteLines(b) # {}
  <2>1. /\ Announced(game) # Blank
        /\ WinCondition(b) # 0
        /\ WinCondition(b) \in CompletedBy(b, Announced(game))
    BY <1>1, <1>4, WinnerFacts, MarksAreNoBlanks
  <2>2. StandsOut(game) = WinLines[WinCondition(b)]
    BY <1>2, <2>1 DEF Highlighted
  <2>3. WinCondition(b) \in DOMAIN WinLines /\ Has(Announced(game), StandsOut(game))
    BY <2>1, <2>2 DEF CompletedBy, Has
  <2>4. Straight(StandsOut(game))
    BY <2>2, <2>3, LinesOfTheBoard, LinesByGeometry, TestsAreLines
  <2> QED
    BY <2>1, <2>3, <2>4
<1> QED
  BY <1>3, <1>4

-----------------------------------------------------------------------------
(* One turn.                                                               *)

\* The controller keeps the cursor on the board, and moves it by at most one row
\* and one column.
LEMMA CursorSteps ==
    ASSUME NEW c \in Cells, NEW turn \in UseController(c)
    PROVE  /\ turn.cursor \in Cells /\ turn.btn \in BOOLEAN
           /\ Row(turn.cursor) - Row(c) \in -1 .. 1
           /\ Column(turn.cursor) - Column(c) \in -1 .. 1
<1>1. PICK x \in Int, y \in Int : turn.cursor = AdjustVertical(y, AdjustHorizontal(x, c))
  BY LevelAssumption DEF UseController, AdcResult
<1>2. turn.btn \in BOOLEAN
  BY DEF UseController
<1> DEFINE h == AdjustHorizontal(x, c)
<1>3. /\ h \in Cells
      /\ Row(h) = Row(c)
      /\ Column(h) - Column(c) \in -1 .. 1
  BY LinesOfTheBoard DEF AdjustHorizontal, COL_SHIFT, Row, Column,
     ANALOG_V_UPPER_BOUND, ANALOG_V_LOWER_BOUND
<1> HIDE DEF h
<1> DEFINE v == AdjustVertical(y, h)
<1>4. /\ v \in Cells
      /\ Column(v) = Column(h)
      /\ Row(v) - Row(h) \in -1 .. 1
  BY <1>3, LinesOfTheBoard DEF AdjustVertical, ROW_SHIFT, Row, Column,
     ANALOG_V_UPPER_BOUND, ANALOG_V_LOWER_BOUND
<1>5. turn.cursor = v
  BY <1>1 DEF h
<1> QED
  BY <1>2, <1>3, <1>4, <1>5

\* What one use of the controller does: at most one blank cell is marked, by the
\* player to move, and then the turn passes.
LEMMA TurnEffect ==
    ASSUME game \in Games, game.turn \in Marks, Turn
    PROVE  /\ game' \in Games
           /\ \E turn \in UseController(game.cursor) : game'.cursor = turn.cursor
           /\ \/ game'.trackGame = game.trackGame /\ game'.turn = game.turn
              \/ /\ game'.turn = Opponent(game.turn)
                 /\ \E c \in Cells :
                      /\ game.trackGame[c] = Blank
                      /\ game'.trackGame = [game.trackGame EXCEPT ![c] = game.turn]
<1>1. PICK input \in UseController(game.cursor) : game' = Apply(game, input)
  BY DEF Turn
<1>2. input.cursor \in Cells /\ game.cursor \in Cells
  BY <1>1, CursorSteps DEF Games
<1> DEFINE moved == [game EXCEPT !.cursor = input.cursor]
<1>3. /\ moved \in Games
      /\ moved.trackGame = game.trackGame /\ moved.turn = game.turn
      /\ moved.cursor = input.cursor
  BY <1>2 DEF Games
<1> HIDE DEF moved
<1>4. game' = moved \/ game' = UpdateBoard(moved)
  BY <1>1 DEF Apply, moved
<1>5. CASE game' = moved
  BY <1>3, <1>5
<1>6. CASE game' = UpdateBoard(moved) /\ game' # moved
  <2>1. /\ game.trackGame[input.cursor] = Blank
        /\ game' = [moved EXCEPT !.trackGame[moved.cursor] = moved.turn,
                                 !.turn = Opponent(moved.turn)]
    BY <1>3, <1>6 DEF UpdateBoard, ValidateMove
  <2>2. /\ game'.trackGame = [game.trackGame EXCEPT ![input.cursor] = game.turn]
        /\ game'.turn = Opponent(game.turn)
        /\ game'.cursor = input.cursor
    BY <1>3, <2>1 DEF Games
  <2>3. Opponent(game.turn) \in Marks /\ game.turn \in Marks \cup {Blank}
    BY DEF Opponent, Marks
  <2>4. game' \in Games
    BY <1>2, <1>3, <2>1, <2>3 DEF Games, Boards
  <2> QED
    BY <1>2, <2>1, <2>2, <2>4
<1> QED
  BY <1>4, <1>5, <1>6

\* A mark on a blank cell counts once, and for its player only.
LEMMA MarkCounts ==
    ASSUME NEW b \in Boards, NEW c \in Cells, b[c] = Blank, NEW m \in Marks
    PROVE  LET after == [b EXCEPT ![c] = m]
           IN  /\ MarkCount(after, m) = MarkCount(b, m) + 1
               /\ \A o \in Marks \ {m} : MarkCount(after, o) = MarkCount(b, o)
               /\ \A o \in Marks : MarkCount(b, o) \in Nat
<1> DEFINE after == [b EXCEPT ![c] = m]
           At(d, o) == {k \in Cells : d[k] = o}
<1>1. \A o \in Marks : IsFiniteSet(At(b, o))
  BY FS_Subset, BoardAssumption
<1>2. m # Blank
  BY MarksAreNoBlanks
<1>3. At(after, m) = At(b, m) \cup {c} /\ c \notin At(b, m)
  BY <1>2 DEF Boards
<1>4. \A o \in Marks \ {m} : At(after, o) = At(b, o)
  BY MarksAreNoBlanks DEF Boards
<1>5. Cardinality(At(after, m)) = Cardinality(At(b, m)) + 1
  BY <1>1, <1>3, FS_AddElement
<1>6. \A o \in Marks : Cardinality(At(b, o)) \in Nat
  BY <1>1, FS_CardinalityType
<1> QED
  BY <1>4, <1>5, <1>6 DEF MarkCount

\* Nobody moves once a line is complete, so the mover's mark completes lines of
\* the mover only.
LEMMA TurnKeeps ==
    ASSUME PlayInv, Turn
    PROVE  PlayInv'
<1> DEFINE b == game.trackGame
           t == game.turn
<1>1. /\ game \in Games /\ b \in Boards /\ t \in Marks
      /\ CompletedBy(b, t) = {}
      /\ MarkCount(b, "X") - MarkCount(b, "O") = (IF t = "X" THEN 0 ELSE 1)
  BY DEF PlayInv, TypeOK, MoverBehind, Games
<1>2. CASE game'.trackGame = b /\ game'.turn = t
  BY <1>1, <1>2, TurnEffect DEF PlayInv, TypeOK, MoverBehind
<1>3. ASSUME NEW c \in Cells, b[c] = Blank,
             game'.trackGame = [b EXCEPT ![c] = t], game'.turn = Opponent(t)
      PROVE  MoverBehind'
  <2> DEFINE after == [b EXCEPT ![c] = t]
             o == Opponent(t)
  <2>1. o \in Marks /\ o # t
    BY <1>1 DEF Opponent, Marks
  <2>2. CompletedBy(after, o) = {}
    <3>1. CompletedBy(b, o) = {}
      BY <2>1 DEF Turn, IsGameOver, CompleteLines, Marks
    <3>2. \A k \in Cells : after[k] = o => b[k] = o
      BY <1>1, <2>1 DEF Boards
    <3>3. CompletedBy(after, o) \subseteq CompletedBy(b, o)
      BY <3>2, LinesOfTheBoard DEF CompletedBy
    <3> QED
      BY <3>1, <3>3
  <2>3. /\ MarkCount(after, t) = MarkCount(b, t) + 1
        /\ MarkCount(after, o) = MarkCount(b, o)
        /\ MarkCount(b, "X") \in Nat /\ MarkCount(b, "O") \in Nat
    <3>1. "X" \in Marks /\ "O" \in Marks /\ o \in Marks \ {t}
      BY <2>1 DEF Marks
    <3>2. /\ MarkCount(after, t) = MarkCount(b, t) + 1
          /\ \A p \in Marks \ {t} : MarkCount(after, p) = MarkCount(b, p)
          /\ \A p \in Marks : MarkCount(b, p) \in Nat
      BY <1>1, <1>3, MarkCounts, Zenon
    <3> HIDE DEF o, after
    <3> QED
      BY <3>1, <3>2
  <2>4. MarkCount(after, "X") - MarkCount(after, "O") = (IF o = "X" THEN 0 ELSE 1)
    <3>1. CASE t = "X"
      <4>1. o = "O"
        BY <3>1 DEF Opponent
      <4> QED
        BY <1>1, <2>3, <3>1, <4>1
    <3>2. CASE t = "O"
      <4>1. o = "X"
        BY <3>2 DEF Opponent
      <4> QED
        BY <1>1, <2>3, <3>2, <4>1
    <3> QED
      BY <1>1, <3>1, <3>2 DEF Marks
  <2> QED
    BY <1>3, <2>1, <2>2, <2>4 DEF MoverBehind
<1> QED
  BY <1>1, <1>2, <1>3, TurnEffect DEF PlayInv, TypeOK

\* The empty table.
LEMMA ResetSafe ==
    /\ ResetGame \in Games
    /\ game = ResetGame => PlayInv
    /\ game' = ResetGame => PlayInv'
<1> DEFINE e == [c \in Cells |-> Blank]
<1>1. /\ ResetGame \in Games
      /\ ResetGame.trackGame = e /\ ResetGame.turn = "X"
  BY BoardAssumption DEF ResetGame, Games, Boards, Marks
<1>2. \A m \in Marks : CompletedBy(e, m) = {} /\ MarkCount(e, m) = 0
  <2> SUFFICES ASSUME NEW m \in Marks PROVE CompletedBy(e, m) = {} /\ MarkCount(e, m) = 0
    OBVIOUS
  <2>1. {c \in Cells : e[c] = m} = {}
    BY MarksAreNoBlanks
  <2>2. CompletedBy(e, m) = {}
    BY LinesOfTheBoard, MarksAreNoBlanks DEF CompletedBy
  <2> QED
    BY <2>1, <2>2, FS_EmptySet DEF MarkCount
<1>3. "X" \in Marks /\ "O" \in Marks
  BY DEF Marks
<1> QED
  BY <1>1, <1>2, <1>3 DEF PlayInv, TypeOK, MoverBehind

\* The inductive invariant holds in every state of a game.
LEMMA PlayInductive == Spec => []PlayInv
<1>1. Init => PlayInv
  BY ResetSafe DEF Init
<1>2. PlayInv /\ [Next]_game => PlayInv'
  BY ResetSafe, TurnKeeps DEF Next, Reset, PlayInv, TypeOK, MoverBehind
<1> QED
  BY <1>1, <1>2, PTL DEF Spec

-----------------------------------------------------------------------------
(* The theorems.                                                           *)

\* isGameOver (Game.c:484), which spells out eight lines, finds on every board
\* that can be reached exactly the three-in-a-rows of a 3 x 3 grid, and names a
\* winner who has one.
THEOREM JudgedRight == Spec => []JudgedByGeometry
<1>1. PlayInv => JudgedByGeometry
  BY Judgement DEF PlayInv
<1> QED
  BY <1>1, PlayInductive, PTL

\* displayBoardEnd (Game.c:211) colours a line of the winner it announces, or
\* nothing on a full board.
THEOREM HighlightsRight == Spec => []HighlightIsTheWinners
<1>1. PlayInv => HighlightIsTheWinners
  BY Highlights DEF PlayInv
<1> QED
  BY <1>1, PlayInductive, PTL

\* Two players never both have a line, so the order of isGameOver's tests does
\* not decide who won: only a game nobody has judged to be over is played on.
THEOREM OneWinnerOnly == Spec => []OneWinner
<1>1. PlayInv => OneWinner
  BY DEF PlayInv, MoverBehind, OneWinner, Marks
<1> QED
  BY <1>1, PlayInductive, PTL

\* The winner shown to the players is the one who moved last.
THEOREM WinnerJustMoved == Spec => []WinnerMovedLast
<1>1. ASSUME PlayInv, IsGameOver(game.trackGame), Announced(game) # Blank
      PROVE  /\ Announced(game) = Opponent(game.turn)
             /\ MarkCount(game.trackGame, "X") - MarkCount(game.trackGame, "O")
                    = (IF Announced(game) = "X" THEN 1 ELSE 0)
  <2> DEFINE b == game.trackGame
             w == Announced(game)
  <2>1. w = WinnerOf(b)
    BY <1>1 DEF Announced, Judged, PlayInv, TypeOK, Games
  <2>2. w \in Marks /\ CompletedBy(b, w) # {}
    BY <1>1, <2>1, WinnerFacts
  <2>3. w # game.turn /\ game.turn \in Marks
    BY <1>1, <2>2 DEF PlayInv, MoverBehind
  <2>4. w = Opponent(game.turn)
    BY <2>2, <2>3 DEF Opponent, Marks
  <2>5. (IF game.turn = "X" THEN 0 ELSE 1) = (IF w = "X" THEN 1 ELSE 0)
    BY <2>2, <2>3 DEF Marks
  <2> QED
    BY <1>1, <2>4, <2>5 DEF PlayInv, MoverBehind
<1>2. PlayInv => WinnerMovedLast
  BY <1>1 DEF WinnerMovedLast
<1> QED
  BY <1>2, PlayInductive, PTL

\* However the stick is held, the cursor goes from a cell to one beside it, above
\* or below, and never around the edge of the grid (Controller.c:181, 185).
THEOREM CursorStaysOnTheGrid == Spec => CursorKeepsToTheGrid
<1>1. PlayInv /\ [Next]_game =>
        [game' # ResetGame =>
            /\ Row(game'.cursor) - Row(game.cursor) \in -1 .. 1
            /\ Column(game'.cursor) - Column(game.cursor) \in -1 .. 1]_game
  <2> SUFFICES ASSUME PlayInv, Next, game' # ResetGame
               PROVE  /\ Row(game'.cursor) - Row(game.cursor) \in -1 .. 1
                      /\ Column(game'.cursor) - Column(game.cursor) \in -1 .. 1
    OBVIOUS
  <2>1. Turn
    BY DEF Next, Reset
  <2>2. game \in Games /\ game.turn \in Marks /\ game.cursor \in Cells
    BY DEF PlayInv, TypeOK, MoverBehind, Games
  <2>3. PICK turn \in UseController(game.cursor) : game'.cursor = turn.cursor
    BY <2>1, <2>2, TurnEffect
  <2> QED
    BY <2>2, <2>3, CursorSteps
<1> QED
  BY <1>1, PlayInductive, PTL DEF Spec, CursorKeepsToTheGrid

=============================================================================
