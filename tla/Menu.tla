------------------------------- MODULE Menu -------------------------------
(***************************************************************************)
(* Class Ph_Menu (phutils/phmenu.cpp): a tree of Photon menus built from a *)
(* file.  Init reads the file twice: Get_Widget_Count sizes the arrays of  *)
(* buttons and tags, then Generate_Menu_Items, which calls itself for      *)
(* every submenu, fills them.  The two passes judge a line differently,    *)
(* what an inner call returns is ignored, and Init may fail between any    *)
(* two lines and be called again.                                          *)
(*                                                                         *)
(* One action reads one line.  A line is what it means to                  *)
(* Get_Item_Details, with the mark its comment holds, which only the count *)
(* sees.  Colours, fonts and the stream a failed Init leaves open are left *)
(* out; tags fit in a tag_t.                                               *)
(***************************************************************************)
EXTENDS Integers, Sequences, FiniteSets, SequencesExt

CONSTANTS
    Files,          \* the menu files, sequences of lines
    Tags,           \* what Disable_Item may be asked for
    MAX_MENU_LEVEL, \* depth of the tree (5)
    MaxCalls        \* bound: calls of Init and Detach

Marks == {"item", "sub", "back", "end", "other", "blank", "bad"}
Lines == [mark : Marks, tag : Tags \cup {""}, enabled : BOOLEAN, comment : {"", "<", "#"}]

ASSUME MenuAssumption ==
    /\ Files \subseteq Seq(Lines)
    /\ MAX_MENU_LEVEL \in Nat \ {0} /\ MaxCalls \in Nat
    /\ "" \notin Tags

VARIABLES
    pc,           \* idle, or where Init is: count, enter, read;
                  \* corrupt: its members are overwritten
    status,
    file, pos,    \* the file and the next line of it
    stack,        \* Cur_Parent of the calls of Generate_Menu_Items, innermost last
    entering,     \* the parent the next call is for
    menu_level,
    widgets,      \* every widget made: its line (0 for a menu) and its ancestors
    dead,         \* the widgets destroyed by name
    off,          \* the buttons made unselectable
    Menu_Widget,
    Widget_Buffer, Widget_Count, widget_buf_cnt,
    Tag,
    Main_Menu,
    handlers,     \* menus Show_Menu is registered with for the parent
    calls,
    failed,       \* history: what has returned NULL, a "call", the one of "Init"
    asked         \* history: tags disabled since the menu was made

tree == <<widgets, dead, Menu_Widget>>
table == <<Widget_Buffer, Widget_Count, widget_buf_cnt, Tag>>
reading == <<file, pos, stack, entering, menu_level>>
vars == <<pc, status, reading, tree, off, table, Main_Menu, handlers, calls, failed, asked>>

Root == 0    \* the widget the menu is attached to
NULL == -1

-----------------------------------------------------------------------------
(* Get_Widget_Count: '<', '^' and '-' are looked for before '#', and in    *)
(* comments too; blank lines and bad ones count.                           *)
Skipped(l) == l.comment = "<" \/ l.mark \in {"back", "other"}
Stops(l) == ~Skipped(l) /\ (l.mark = "end" \/ l.comment = "#")
Counted(f, i) == ~Skipped(f[i]) /\ \A j \in 1 .. i : ~Stops(f[j])
Get_Widget_Count(f) == Cardinality({i \in DOMAIN f : Counted(f, i)})

Ancestors(w) == IF w = Root THEN {} ELSE widgets[w].above \cup {w}
Alive(w) == Ancestors(w) \cap dead = {}

(* Destroy: the buttons if the menu was complete, and the menus down to    *)
(* the level the last Generate_Menu_Items ended at.                        *)
Destroyed ==
    ({Menu_Widget[i] : i \in {j \in DOMAIN Menu_Widget : j < menu_level}} \ {NULL})
    \cup (IF status = "OK" THEN {Widget_Buffer[i] : i \in DOMAIN Widget_Buffer \cap 1 .. Widget_Count}
          ELSE {})
Destroy ==
    /\ dead' = dead \cup Destroyed
    /\ IF status = "OK" THEN handlers' = handlers \ {Main_Menu} /\ Widget_Count' = 0
       ELSE UNCHANGED <<handlers, Widget_Count>>
    /\ menu_level' = 0
    /\ Widget_Buffer' = <<>> /\ Tag' = <<>>
    /\ status' = "NOT_OK"

Detach ==
    /\ pc = "idle" /\ calls < MaxCalls
    /\ calls' = calls + 1
    /\ Destroy
    /\ UNCHANGED <<pc, file, pos, stack, entering, widgets, Menu_Widget, off, widget_buf_cnt,
                   Main_Menu, failed, asked>>

(* Init, up to fopen, which may fail. *)
InitKeepsOld(f) ==
    /\ pc = "idle" /\ calls < MaxCalls
    /\ calls' = calls + 1
    /\ status' = "NOT_OK"
    /\ file' = f
    /\ pc' \in {"idle", "count"}
    /\ UNCHANGED <<pos, stack, entering, menu_level, tree, off, table, Main_Menu, handlers,
                   failed, asked>>
InitMenu(f) ==
    /\ pc = "idle" /\ calls < MaxCalls
    /\ calls' = calls + 1
    /\ IF status = "OK" THEN Destroy
       ELSE UNCHANGED <<dead, handlers, Widget_Count, menu_level, Widget_Buffer, Tag, status>>
    /\ file' = f
    /\ pc' \in {"idle", "count"}
    /\ UNCHANGED <<pos, stack, entering, widgets, Menu_Widget, off, widget_buf_cnt, Main_Menu,
                   failed, asked>>

(* The first pass and the two arrays; Widget_Count is not reset. *)
Count ==
    /\ pc = "count"
    /\ widget_buf_cnt' = Get_Widget_Count(file)
    /\ \/ /\ widget_buf_cnt' = 0
          /\ pc' = "idle"
          /\ UNCHANGED <<Widget_Buffer, Tag, pos, entering, asked, off>>
       \/ /\ widget_buf_cnt' > 0
          /\ Widget_Buffer' = <<>>
          /\ Tag' = [i \in 1 .. widget_buf_cnt' |-> ""]
          /\ pos' = 1 /\ entering' = Root /\ asked' = {} /\ off' = {}
          /\ pc' = "enter"
    /\ UNCHANGED <<status, file, stack, menu_level, tree, Widget_Count, Main_Menu, handlers,
                   calls, failed>>
CountFails ==    \* bad_alloc, for the first array or for the second
    /\ pc = "count" /\ Get_Widget_Count(file) > 0
    /\ widget_buf_cnt' = Get_Widget_Count(file)
    /\ Widget_Buffer' \in {Widget_Buffer, <<>>}
    /\ pc' = "idle"
    /\ UNCHANGED <<status, reading, tree, off, Widget_Count, Tag, Main_Menu, handlers, calls,
                   failed, asked>>

-----------------------------------------------------------------------------
(* A call of Generate_Menu_Items returns v, leaving the calls in rest.  An *)
(* inner call's caller ignores v and reads on; the outermost one's is Init.*)
Return(rest, v) ==
    /\ stack' = rest
    /\ IF rest # <<>>
       THEN pc' = "read" /\ UNCHANGED <<status, Main_Menu, handlers>>
       ELSE /\ pc' = "idle"
            /\ Main_Menu' = v
            /\ IF v = NULL
               THEN UNCHANGED <<status, handlers>>
               ELSE status' = "OK" /\ handlers' = handlers \cup {v}
    /\ failed' = failed \cup (IF v # NULL THEN {} ELSE IF rest = <<>> THEN {"call", "Init"}
                              ELSE {"call"})

NewWidget(line, parent) ==
    widgets' = Append(widgets, [line |-> line, above |-> Ancestors(parent)])

Enter ==
    /\ pc = "enter" /\ menu_level \in DOMAIN Menu_Widget
    /\ NewWidget(0, entering)
    /\ Menu_Widget' = [Menu_Widget EXCEPT ![menu_level] = Len(widgets')]
    /\ stack' = Append(stack, Len(widgets'))
    /\ pc' = "read"
    /\ UNCHANGED <<status, file, pos, entering, menu_level, dead, off, table, Main_Menu,
                   handlers, calls, failed, asked>>

(* Too deep, no menu, or a menu and no font. *)
EnterFails ==
    /\ pc = "enter"
    /\ \/ menu_level = MAX_MENU_LEVEL /\ UNCHANGED <<widgets, Menu_Widget>>
       \/ /\ menu_level \in DOMAIN Menu_Widget
          /\ Menu_Widget' = [Menu_Widget EXCEPT ![menu_level] = NULL]
          /\ UNCHANGED widgets
       \/ /\ menu_level \in DOMAIN Menu_Widget
          /\ NewWidget(0, entering)
          /\ Menu_Widget' = [Menu_Widget EXCEPT ![menu_level] = Len(widgets')]
    /\ Return(stack, NULL)
    /\ UNCHANGED <<file, pos, entering, menu_level, dead, off, table, calls, asked>>

(* The test is for the maximum itself: one level further the new menu goes *)
(* behind Menu_Widget, over other members of the object, and what follows  *)
(* is undefined.                                                           *)
EnterBeyond ==
    /\ pc = "enter" /\ menu_level > MAX_MENU_LEVEL
    /\ pc' = "corrupt"
    /\ UNCHANGED <<status, reading, tree, off, table, Main_Menu, handlers, calls, failed, asked>>

NextLine(marks) ==
    /\ pc = "read" /\ pos <= Len(file) /\ file[pos].mark \in marks
    /\ pos' = pos + 1
Store(key, value, f) == [i \in DOMAIN f \cup {key} |-> IF i = key THEN value ELSE f[i]]

(* A button for the line read: NORMAL and SUB_LINK. *)
NewButton ==
    /\ NewWidget(pos, Last(stack))
    /\ Widget_Count' = Widget_Count + 1
    /\ Widget_Buffer' = Store(Widget_Count', Len(widgets'), Widget_Buffer)
    /\ Tag' = Store(Widget_Count', file[pos].tag, Tag)
    /\ off' = (IF file[pos].enabled THEN off ELSE off \cup {Len(widgets')})

ReadItem ==
    /\ NextLine({"item"})
    /\ NewButton
    /\ UNCHANGED <<pc, status, file, stack, entering, menu_level, dead, Menu_Widget,
                   widget_buf_cnt, Main_Menu, handlers, calls, failed, asked>>

ReadSub ==
    /\ NextLine({"sub"})
    /\ NewButton
    /\ menu_level' = menu_level + 1
    /\ entering' = Len(widgets')
    /\ pc' = "enter"
    /\ UNCHANGED <<status, file, stack, dead, Menu_Widget, widget_buf_cnt, Main_Menu, handlers,
                   calls, failed, asked>>

(* A blank line, a title or a separator. *)
ReadOther ==
    /\ NextLine({"blank", "other"})
    /\ UNCHANGED <<pc, status, file, stack, entering, menu_level, tree, off, table, Main_Menu,
                   handlers, calls, failed, asked>>

GoBackStays ==
    /\ NextLine({"back"})
    /\ Return(Front(stack), Last(stack))
    /\ UNCHANGED <<file, entering, menu_level, tree, off, table, calls, asked>>
GoBack ==
    /\ NextLine({"back"})
    /\ menu_level' = menu_level - 1
    /\ Return(Front(stack), Last(stack))
    /\ UNCHANGED <<file, entering, tree, off, table, calls, asked>>

FileEnd ==
    /\ NextLine({"end"})
    /\ Return(Front(stack), Last(stack))
    /\ UNCHANGED <<file, entering, menu_level, tree, off, table, calls, asked>>

ReadBad ==
    /\ NextLine({"bad"})
    /\ Return(Front(stack), NULL)
    /\ UNCHANGED <<file, entering, menu_level, tree, off, table, calls, asked>>

(* "may not execute": the lines are over.  Behind Menu_Widget there is     *)
(* another member of the object.                                           *)
LinesOver ==
    /\ pc = "read" /\ pos > Len(file)
    /\ \E v \in (IF menu_level \in DOMAIN Menu_Widget THEN {Menu_Widget[menu_level]} ELSE {Root}) :
          Return(Front(stack), v)
    /\ UNCHANGED <<file, pos, entering, menu_level, tree, off, table, calls, asked>>

Disable_Item(tag) ==
    /\ pc = "idle" /\ status = "OK"
    /\ asked' = asked \cup {tag}
    /\ off' = off \cup {Widget_Buffer[i] : i \in {j \in 1 .. widget_buf_cnt : Tag[j] = tag}}
    /\ UNCHANGED <<pc, status, reading, tree, table, Main_Menu, handlers, calls, failed>>

-----------------------------------------------------------------------------
Init ==
    /\ pc = "idle" /\ status = "NOT_OK"
    /\ file = <<>> /\ pos = 1 /\ stack = <<>> /\ entering = Root /\ menu_level = 0
    /\ widgets = <<>> /\ dead = {} /\ off = {}
    /\ Menu_Widget = [i \in 0 .. MAX_MENU_LEVEL - 1 |-> NULL]
    /\ Widget_Buffer = <<>> /\ Widget_Count = 0 /\ widget_buf_cnt = 0 /\ Tag = <<>>
    /\ Main_Menu = NULL /\ handlers = {}
    /\ calls = 0 /\ failed = {} /\ asked = {}

Next ==
    \/ \E f \in Files : InitMenu(f)
    \/ \E tag \in Tags : Disable_Item(tag)
    \/ Detach
    \/ Count \/ CountFails \/ Enter \/ EnterFails \/ EnterBeyond
    \/ ReadItem \/ ReadSub \/ ReadOther \/ GoBack \/ FileEnd \/ ReadBad \/ LinesOver

Spec == Init /\ [][Next]_vars

-----------------------------------------------------------------------------
(* The shape a file should have: every submenu closed, not too deep, an    *)
(* end, if any, on the last line and outside submenus, and nothing in the  *)
(* comments that the count takes for a mark.                               *)
Entry(f, i) == f[i].mark \in {"item", "sub"}
Depth(f, i) ==
    Cardinality({j \in 1 .. i - 1 : f[j].mark = "sub"}) -
    Cardinality({j \in 1 .. i - 1 : f[j].mark = "back"})
WellFormed(f) ==
    /\ \A i \in 1 .. Len(f) + 1 : Depth(f, i) \in 0 .. MAX_MENU_LEVEL - 1
    /\ Depth(f, Len(f) + 1) = 0
    /\ \A i \in DOMAIN f : /\ f[i].mark # "bad" /\ f[i].comment = ""
                          /\ (f[i].mark = "end" => i = Len(f))
Enclosing(f, i) ==
    LET open == {j \in 1 .. i - 1 : f[j].mark = "sub" /\ Depth(f, j) = Depth(f, i) - 1} IN
    IF Depth(f, i) = 0 THEN 0 ELSE CHOOSE j \in open : \A k \in open : k <= j
CountSeesAll(f) == \A i \in DOMAIN f : Entry(f, i) => Counted(f, i)

(* The buttons of the menu that is there. *)
Buttons == {w \in 1 .. Len(widgets) : widgets[w].line # 0 /\ Alive(w)}
(* The line of the submenu a button is in, 0 for the main menu: its parent *)
(* is a menu, made last of its ancestors, on the button made before that.  *)
LineAbove(w) ==
    LET above == {widgets[b].line : b \in widgets[w].above} IN
    CHOOSE l \in above : \A k \in above : k <= l

(* A finished menu is the tree its file draws: each entry of a well formed *)
(* file has one button, in the menu of the submenu entry that encloses it, *)
(* and the parent's button shows the outermost menu.  Unselectable are the *)
(* buttons whose line says so and those with a tag that was asked for, all *)
(* of them and no other.  Init, Generate_Menu_Items, Disable_Item.         *)
MenuIsTheFile ==
    status = "OK" /\ failed = {} /\ WellFormed(file) =>
        /\ {<<widgets[w].line, LineAbove(w)>> : w \in Buttons} =
           {<<i, Enclosing(file, i)>> : i \in {j \in DOMAIN file : Entry(file, j)}}
        /\ Cardinality(Buttons) = Widget_Count
        /\ widgets[Main_Menu] = [line |-> 0, above |-> {}] /\ Alive(Main_Menu)
        /\ off = {w \in Buttons : LET l == file[widgets[w].line] IN
                                     ~l.enabled \/ l.tag \in asked}

(* The second pass stays inside the arrays the first one sized, whatever   *)
(* marks a file holds, if the first pass sees all its entries and no Init  *)
(* failed halfway before.  Get_Widget_Count against Generate_Menu_Items.   *)
SlotsInBounds ==
    pc # "idle" /\ pc # "count" /\ "Init" \notin failed /\ CountSeesAll(file) =>
        Widget_Count <= widget_buf_cnt

(* The parent shows this object's menu as long as it is complete, and none *)
(* of its earlier ones: Show_Menu is registered once.  Init, Destroy.      *)
HandlerOfMenu ==
    handlers = IF status = "OK" THEN {Main_Menu} ELSE {}
=============================================================================
