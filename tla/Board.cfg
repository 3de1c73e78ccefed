SPECIFICATION Spec
CONSTANTS
    Cells <- GridCells
    Middle = 4
    WinLines <- Lines
    Levels <- MCLevels
INVARIANTS
    JudgedByGeometry
    WinnerMovedLast
    HighlightIsTheWinners
    OneWinner
PROPERTIES
    CursorKeepsToTheGrid
