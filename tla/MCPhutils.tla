----------------------------- MODULE MCPhutils ------------------------------
(***************************************************************************)
(* The parts of phutils that keep state: a menu (Menu), the selection of a *)
(* combo box in a binary file (ComboFile), the lists of all boxes in a     *)
(* text file (ComboSections), a text panel (Panel), a widget and what      *)
(* shows numbers in it (Widgets) and the dialogues (Dialogs).  They share  *)
(* no variable, so a behaviour is of one of them.                          *)
(***************************************************************************)
EXTENDS Menu

CONSTANTS Texts, CHAR_MAX, MaxSaves, MaxMishaps, BoxTags, AtTexts, COMBO_LIST_MAX, MaxCuts,
    MAX_ROWS, MAX_COLUMN, Messages, Numbers, Limits, Colors, Err_Color, MaxObjects, Inputs, Words,
    Values,
    PanelCalls, WidgetCalls, DialogCalls    \* MaxCalls of Panel, Widgets and Dialogs
VARIABLES part,
    there, header, step, pending, items, sel, saves, mishaps, loaded, selKept, lost,
    sections, tail, lists, selected, sectionSaves, cuts, first, filled,
    text, curr_row, printed,
    wid, objects, blklist, got, widgetCalls, orphaned,
    dbase, parent, font, image, dialog, val, answer, user, stored, saving, kept, notStored, dialogCalls

(* All files of up to three lines, and longer ones that go too deep, close *)
(* a submenu too often or not at all, or hide a mark in a comment.         *)
L(m, t) == [mark |-> m, tag |-> t, enabled |-> TRUE, comment |-> ""]
A == L("item", "a")
B == L("item", "b")
Off == [B EXCEPT !.enabled = FALSE]
Hidden(c) == [B EXCEPT !.comment = c]
Sub == L("sub", "")
SubA == L("sub", "a")
Back == L("back", "")
End == L("end", "")
Short == {A, Off, Sub, Back, End, L("bad", "")}
MenuFiles ==
    UNION {[1 .. n -> Short] : n \in 0 .. 3} \cup
    {<<A, Sub, B, Back, A, End>>, <<Sub, A, Sub, B, Back, Off, Back, A>>,
     <<Sub, A, Back, SubA, B, Back, End>>,
     <<Sub, Sub, Sub, A, Back, Back, Back, A>>, <<Sub, Sub, Sub, A, Sub, B, Back, End, A>>,
     <<Sub, A, End, B, Back, A>>, <<A, Back, B>>, <<Sub, A, L("bad", ""), B, Back>>,
     <<A, Hidden("#"), B>>, <<A, Hidden("<"), B>>,
     <<A, L("blank", ""), L("other", ""), B>>}

Box == INSTANCE ComboFile WITH pc <- step, kept <- selKept

Boxes == INSTANCE ComboSections WITH
    Tags <- BoxTags, file <- sections, items <- lists, sel <- selected, saves <- sectionSaves,
    loaded <- filled

(* The empty message, lines of two characters, of one more than a row has  *)
(* and of two more, and short ones with line feeds.                        *)
Line(c, n) == [i \in 1 .. n |-> c]
Plainly(l) == [lines |-> l, color |-> 0, back_color |-> 0, font_attr |-> {}]
InRed(l) == [lines |-> l, color |-> 1, back_color |-> 0, font_attr |-> {"bold"}]
PrintedMessages ==
    {Plainly(<<line>>) : line \in {<<>>, <<"a", "b">>, Line("b", MAX_COLUMN + 1)}}
    \cup {InRed(<<Line("a", MAX_COLUMN + 2)>>), InRed(<<<<"a">>, <<"b">>>>),
          Plainly(<<<<>>, <<"b">>>>), InRed(<<<<"a">>, <<>>>>)}
Display == INSTANCE Panel WITH
    WidgetFont <- {"italic"}, ClearColumns <- {1}, calls <- printed, MaxCalls <- PanelCalls

Limit(min, max) == [min |-> min, max |-> max]
WidgetLimits == {Limit(0, 1), Limit(1, 2)}
Widget == INSTANCE Widgets WITH answer <- got, calls <- widgetCalls, MaxCalls <- WidgetCalls

(* A number, and a text there is none in. *)
TypedInputs == {[text |-> "12", number |-> "12"], [text |-> "abc", number |-> "none"]}
Asked == INSTANCE Dialogs WITH
    None <- "none", lost <- notStored, calls <- dialogCalls, MaxCalls <- DialogCalls

ASSUME PhutilsAssumption ==
    /\ CHAR_MAX \in Nat
    /\ Boxes!None \notin BoxTags /\ COMBO_LIST_MAX \in Nat
    /\ Err_Color \notin Colors
    /\ Asked!INVALID \notin Values
    /\ MAX_ROWS \in Nat \ {0} /\ MAX_COLUMN \in Nat \ {0}
    /\ \A m \in Messages : m.lines \in Seq(Seq(STRING \ {"\n"}))

boxVars == <<there, header, step, pending, items, sel, saves, mishaps, loaded, selKept, lost>>
sectionVars == <<sections, tail, lists, selected, sectionSaves, cuts, first, filled>>
panelVars == <<text, curr_row, printed>>
widgetVars == <<wid, objects, blklist, got, widgetCalls, orphaned>>
dialogVars == <<dbase, parent, font, image, dialog, val, answer, user, stored, saving, kept,
                notStored, dialogCalls>>
phutilsVars == <<vars, boxVars, sectionVars, panelVars, widgetVars, dialogVars, part>>

PhutilsInit ==
    /\ Init /\ Box!Init /\ Boxes!Init /\ Display!Init /\ Widget!Init /\ Asked!Init
    /\ part \in {"menu", "box", "boxes", "panel", "widget", "dialog"}
    /\ part # "widget" => wid.COLOR = (CHOOSE c \in Colors : TRUE)
                          /\ wid.NUMERIC_VALUE = (CHOOSE n \in Numbers : TRUE)
AllBut(p) ==
    /\ part = p
    /\ p # "menu" => UNCHANGED vars
    /\ p # "box" => UNCHANGED boxVars
    /\ p # "boxes" => UNCHANGED sectionVars
    /\ p # "panel" => UNCHANGED panelVars
    /\ p # "widget" => UNCHANGED widgetVars
    /\ p # "dialog" => UNCHANGED dialogVars
PhutilsNext ==
    /\ UNCHANGED part
    /\ \/ AllBut("menu") /\ Next
       \/ AllBut("box") /\ Box!Next
       \/ AllBut("boxes") /\ Boxes!Next
       \/ AllBut("panel") /\ Display!Next
       \/ AllBut("widget") /\ Widget!Next
       \/ AllBut("dialog") /\ Asked!Next
PhutilsSpec == PhutilsInit /\ [][PhutilsNext]_phutilsVars

(* ComboFile: a box is loaded with the selection that was last saved.      *)
SelectionSurvives == Box!SelectionSurvives

(* ComboSections: a box gets the list first saved under its tag.           *)
FirstSaveWins == Boxes!FirstSaveWins

(* Panel: the rows of the panel are those of PanelRows.                    *)
RowsApart == Display!RowsApart

(* Widgets: a widget has the error colour only while someone can take it   *)
(* away.                                                                   *)
RedHasOwner == Widget!RedHasOwner

(* Dialogs: the caller gets what the user meant.                           *)
AnswerIsTheUsers == Asked!AnswerIsTheUsers
=============================================================================
