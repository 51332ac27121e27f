------------------------------- MODULE Panel -------------------------------
(***************************************************************************)
(* The text panels of the client: class Panel_Display of                   *)
(* phutils/common_utils.cpp.  A panel is one text of a widget, a line feed *)
(* after every MAX_COLUMN characters; Dis replaces characters of it by     *)
(* their index, with the colours and the font they are printed in.         *)
(*                                                                         *)
(* A message has the sequence of its lines, what is between line feeds,    *)
(* and a line is a sequence of characters.                                 *)
(***************************************************************************)
EXTENDS Integers, Sequences, SequencesExt

CONSTANTS
    MAX_ROWS, MAX_COLUMN,
    Messages,       \* what is printed: records [lines, color, back_color, font_attr];
                    \* with line feeds shorter than a row, as strcpy into
                    \* buf[MAX_COLUMN] needs, and not of them alone
    WidgetFont,     \* the styles of the widget's own font
    ClearColumns,   \* the columns Clear is called with (1)
    MaxCalls        \* bound

VARIABLES
    text,       \* of the widget: characters with their attributes
    curr_row,   \* where a call without a row prints
    calls

vars == <<text, curr_row, calls>>

Width == MAX_COLUMN + 1
Plain == [text_color |-> 0, background_color |-> 0, font |-> {}]
Blank == [k \in 1 .. MAX_ROWS * Width |-> <<IF k % Width = 0 THEN "\n" ELSE " ", Plain>>]
Called == calls < MaxCalls /\ calls' = calls + 1

-----------------------------------------------------------------------------
Row_Of(index) == index \div Width

Placed(row, col) == row \in 0 .. MAX_ROWS /\ col \in 0 .. MAX_COLUMN

(* Update_Index: a line that ends in another row than it begins is cut.    *)
Update_IndexShort(line, row, col) ==
    LET start == (row - 1) * Width + col - 1
        length == IF Row_Of(start) = Row_Of(start + Len(line) - 1)
                  THEN Len(line) ELSE MAX_COLUMN - (start % Width) - 1
    IN  [start |-> start, length |-> length]
Update_Index(line, row, col) ==
    LET start == (row - 1) * Width + col - 1
        length == IF Row_Of(start) = Row_Of(start + Len(line) - 1)
                  THEN Len(line) ELSE MAX_COLUMN - (start % Width)
    IN  [start |-> start, length |-> length]

(* PtMultiTextModifyText(start, end + 1, start, line, length). *)
Modify(s, at, line) ==
    SubSeq(s, 1, at.start) \o SubSeq(line, 1, at.length)
      \o SubSeq(s, at.start + at.length + 1, Len(s))

(* Colour 0 and no style are the defaults; a style is added to those the   *)
(* font of the widget has.                                                 *)
Set_Font_Attr(m) ==
    [text_color |-> m.color, background_color |-> m.back_color,
     font |-> IF m.font_attr = {} THEN {} ELSE WidgetFont \cup m.font_attr]
Printed(m) ==
    [l \in DOMAIN m.lines |-> [i \in DOMAIN m.lines[l] |-> <<m.lines[l][i], Set_Font_Attr(m)>>]]

(* strtok at the line feeds: an empty line is no token. *)
Tokens(message) ==
    FoldLeft(LAMBDA tokens, line : IF line = <<>> THEN tokens ELSE Append(tokens, line),
             <<>>, message)

(* One line of a message and the call of Update_Index before it. *)
DisLine(p, line) ==
    IF Placed(p.row, p.col)
    THEN [text |-> Modify(p.text, Update_Index(line, p.row, p.col), line),
          curr_row |-> p.curr_row + 1, row |-> p.row + 1, col |-> 1]
    ELSE [p EXCEPT !.row = @ + 1, !.col = 1]

(* wgprintf, wprintf, Dis: row 0 is the row after the last, column 0 the   *)
(* first.  A line feed in front skips a row, curr_row does not go along.   *)
Dis(m, in_row, in_col) ==
    /\ Called
    /\ Placed(in_row, in_col)
    /\ LET message == Printed(m)
           row == IF in_row = 0 THEN curr_row ELSE in_row
           skip == IF Len(message) > 1 /\ message[1] = <<>> THEN 1 ELSE 0
           before == [text |-> text, curr_row |-> row, row |-> row + skip,
                      col |-> IF in_col = 0 THEN 1 ELSE in_col]
           after == FoldLeft(DisLine, before, Tokens(message))
       IN  /\ text' = after.text /\ curr_row' = after.curr_row

(* PtTextModifyText(start, start + len - 1, -1, dis_buf, len) deletes one  *)
(* character less than it inserts: what is left stands behind the panel, a *)
(* line feed more each time.  The place -1 is taken to be that of the      *)
(* deletion.  What is inserted is the blank text from its beginning.       *)
Clear(in_row, in_col) ==
    /\ Called
    /\ LET start == (in_row - 1) * Width + in_col - 1
           len == Len(Blank) - start
       IN  text' = SubSeq(text, 1, start) \o SubSeq(Blank, 1, len)
                     \o SubSeq(text, start + len, Len(text))
    /\ curr_row' = in_row

-----------------------------------------------------------------------------
Init == text = Blank /\ curr_row = 1 /\ calls = 0

Next ==
    \/ \E m \in Messages, row \in 0 .. MAX_ROWS, col \in 0 .. MAX_COLUMN : Dis(m, row, col)
    \/ \E row \in 1 .. MAX_ROWS, col \in ClearColumns : Clear(row, col)

Spec == Init /\ [][Next]_vars

-----------------------------------------------------------------------------
(* Whatever is printed wherever and however often the panel is cleared,    *)
(* its rows are those of a panel that keeps them apart: each line is cut   *)
(* at the end of its row and in the colours it was printed in, and a row   *)
(* is joined to the next one only by a line that ends on the line feed     *)
(* exactly, until it is cleared.  Update_Index, Dis, Clear.                *)
Lines == {Tokens(Printed(m)) : m \in Messages}
Row(r) == [cells |-> [c \in 1 .. MAX_COLUMN |-> text[(r - 1) * Width + c]],
           feed |-> text[r * Width] = <<"\n", Plain>>]
Panels == INSTANCE PanelRows WITH
    rows <- [r \in 1 .. MAX_ROWS |-> Row(r)], Messages <- Lines, Space <- <<" ", Plain>>
RowsApart == Panels!Spec
=============================================================================
