------------------------------ MODULE Controller ------------------------------
(***************************************************************************)
(* The player's hand controller (Controller.c): an analog stick read       *)
(* through an A/D converter and a button.  One turn ends with the first    *)
(* sample that moves the cursor or finds the button pressed.               *)
(***************************************************************************)
EXTENDS Integers

CONSTANT
    Levels      \* the readings of the converter, part of 0 .. 255

ASSUME LevelAssumption == Levels \subseteq 0 .. 255

\* The cursor walks a grid of three rows and three columns.
ROW_SHIFT == 3
COL_SHIFT == 1
GridCells == 0 .. 8

ANALOG_V_LOWER_BOUND == 10
ANALOG_V_UPPER_BOUND == 245

\* Every conversion is read twice, in both bit orders; readings that differ
\* count as 0, which is also the stick's far right and far up.
AdcResult(dat1, dat2) == IF dat1 = dat2 THEN dat1 ELSE 0

AdjustVertical(y, c) ==
    IF y <= ANALOG_V_LOWER_BOUND /\ c - ROW_SHIFT >= 0 THEN c - ROW_SHIFT
    ELSE IF y >= ANALOG_V_UPPER_BOUND /\ c + ROW_SHIFT <= 8 THEN c + ROW_SHIFT
    ELSE c

\* Mutant: the tests for the ends of the rows are missing.
WrapsRows(x, c) ==
    IF x >= ANALOG_V_UPPER_BOUND /\ c - COL_SHIFT >= 0 THEN c - COL_SHIFT
    ELSE IF x <= ANALOG_V_LOWER_BOUND /\ c + COL_SHIFT <= 8 THEN c + COL_SHIFT
    ELSE c

AdjustHorizontal(x, c) ==
    IF x >= ANALOG_V_UPPER_BOUND /\ c - COL_SHIFT >= 0 /\ c \notin {3, 6}
    THEN c - COL_SHIFT
    ELSE IF x <= ANALOG_V_LOWER_BOUND /\ c + COL_SHIFT <= 8 /\ c \notin {2, 5}
    THEN c + COL_SHIFT
    ELSE c

\* What useController can return to a player whose cursor is at c.
UseController(c) ==
    LET samples == {AdcResult(d, e) : d, e \in Levels}
        cells   == {AdjustVertical(y, AdjustHorizontal(x, c)) : x, y \in samples}
    IN  {turn \in [cursor : cells, btn : BOOLEAN] : turn.btn \/ turn.cursor # c}

=============================================================================
