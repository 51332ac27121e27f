----------------------------- MODULE PanelRows -----------------------------
(***************************************************************************)
(* What a text panel promises: MAX_ROWS rows of MAX_COLUMN characters and  *)
(* a line feed each.  Lines are printed into consecutive rows, the first   *)
(* from a column on, the others from the first column; what does not fit   *)
(* in a row is cut, except that a line of one character too many takes the *)
(* place of the line feed.                                                 *)
(***************************************************************************)
EXTENDS Integers, Sequences

CONSTANTS MAX_ROWS, MAX_COLUMN, Messages, Space

VARIABLE rows

BlankRow == [cells |-> [c \in 1 .. MAX_COLUMN |-> Space], feed |-> TRUE]

Overwritten(row, c, line) ==
    [cells |-> [k \in 1 .. MAX_COLUMN |->
                  IF k - c + 1 \in DOMAIN line THEN line[k - c + 1] ELSE row.cells[k]],
     feed |-> row.feed /\ c + Len(line) - 1 # MAX_COLUMN + 1]

PrintLines(r, c, lines) ==
    rows' = [i \in 1 .. MAX_ROWS |->
               IF i - r + 1 \in DOMAIN lines
               THEN Overwritten(rows[i], IF i = r THEN c ELSE 1, lines[i - r + 1])
               ELSE rows[i]]

BlankFrom(r) == rows' = [i \in 1 .. MAX_ROWS |-> IF i < r THEN rows[i] ELSE BlankRow]

Init == rows = [i \in 1 .. MAX_ROWS |-> BlankRow]

Next ==
    \E r \in 1 .. MAX_ROWS :
        \/ \E c \in 1 .. MAX_COLUMN, lines \in Messages : PrintLines(r, c, lines)
        \/ BlankFrom(r)

Spec == Init /\ [][Next]_rows
=============================================================================
