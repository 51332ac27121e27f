------------------------------ MODULE Widgets -------------------------------
(***************************************************************************)
(* The wrappers of phutils/my_widget.cpp and common_utils.cpp around one   *)
(* widget and its window, and class My_Widget, which shows numbers in it   *)
(* and has it in another colour while they are outside limits.             *)
(*                                                                         *)
(* The resources of a widget are external: what was set last is got.  Text *)
(* and titles are the number or the word they are printed from.            *)
(***************************************************************************)
EXTENDS Integers, Sequences

CONSTANTS
    Numbers, Limits,  \* numbers shown, and records [min, max]
    Err_Color, Colors,\* the colour of an error, and others
    MaxObjects,       \* bound: objects of class My_Widget made for the widget
    MaxCalls          \* bound

VARIABLES
    wid,        \* its resources, by name
    objects,    \* My_Widget, with those there are no more
    blklist,    \* the windows Block_Window blocked last
    answer,     \* what the last call returned
    calls,
    orphaned    \* history: the colour is red since an object went that had to set it back

vars == <<wid, objects, blklist, answer, calls, orphaned>>

NULL == "NULL"
None == "no colour"     \* 0
INVALID == -1
Kinds == {"INTEGER_VALUE", "FLOAT_VALUE"}

Called == calls < MaxCalls /\ calls' = calls + 1
SetResource(name, value) == wid' = [wid EXCEPT ![name] = value]
SetFlags(on, off) == SetResource("FLAGS", (wid.FLAGS \cup on) \ off)
NoObject == UNCHANGED <<objects, blklist>>

-----------------------------------------------------------------------------
(* The setters of one resource. *)
Set_Numeric(n) == SetResource("NUMERIC_VALUE", n)
Set_Color_Text(color, str) ==
    /\ Called
    /\ wid' = [wid EXCEPT !.TEXT = str, !.COLOR = IF color = None THEN @ ELSE color]
    /\ NoObject /\ UNCHANGED answer

Set_Window_Title(str) == SetResource("WINDOW_TITLE", str)
Set_Widget_State(flg) == SetFlags(IF flg THEN {"SET"} ELSE {}, IF flg THEN {} ELSE {"SET"})
Enable_Disable_Widget(flg) ==
    LET both == {"BLOCKED", "GHOST"}
    IN  SetFlags(IF flg THEN {} ELSE both, IF flg THEN both ELSE {})
Hide_Widget == wid' = [wid EXCEPT !.POS = "away", !.FLAGS = @ \cup {"BLOCKED"}]
Hide_Window == SetResource("WINDOW_STATE", wid.WINDOW_STATE \cup {"ISHIDDEN"})
Show_Window == SetResource("WINDOW_STATE", wid.WINDOW_STATE \cup {"ISNORMAL"})
(* One ARM callback more, with the widget's tag. *)
Add_Callback(tag) == SetResource("ARM", wid.ARM \cup {tag})

SetWidget ==
    /\ Called
    /\ \/ \E flg \in BOOLEAN : Set_Widget_State(flg) \/ Enable_Disable_Widget(flg)
       \/ Hide_Widget \/ Hide_Window \/ Show_Window
       \/ Set_Window_Title("title") \/ Add_Callback("tag")
    /\ NoObject /\ UNCHANGED answer

(* The getters.  A double is got into a pointer of the getter's own: the   *)
(* caller's variable stays as it was.  User data there is none is "".      *)
Get_Numeric_Int == wid.NUMERIC_VALUE
Get_Numeric_Float(type) == IF type = "double" THEN NULL ELSE wid.NUMERIC_VALUE
Get_Text == wid.TEXT
Get_Font == wid.TEXT_FONT
Get_List_Index == wid.CBOX_SEL_ITEM
Get_User_Data == IF wid.USER_DATA = NULL THEN "" ELSE wid.USER_DATA
Check_Widget_Selection == "SET" \in wid.FLAGS

GetWidget ==
    /\ Called
    /\ \/ answer' = Get_Text \/ answer' = Get_Font \/ answer' = Get_List_Index
       \/ answer' = Get_User_Data \/ answer' = Check_Widget_Selection
    /\ UNCHANGED wid /\ NoObject

(* The index of a widget's name in a list of names.  INVALID is 255 as a   *)
(* flag_t, the type it is returned in.                                     *)
Get_Widget_Index(name, array) ==
    LET at == {i \in DOMAIN array : array[i] = name}
    IN  IF at = {} THEN 255 ELSE (CHOOSE i \in at : \A j \in at : i <= j) - 1
FindWidget(name, array) ==
    /\ Called /\ answer' = Get_Widget_Index(name, array)
    /\ UNCHANGED wid /\ NoObject

(* Block_Window keeps one list: blocking again forgets the one before, and *)
(* its windows stay blocked.  An error is 1.                               *)
Block_Window(wnd, block) ==
    /\ Called
    /\ blklist' = IF block THEN wnd ELSE NULL
    /\ answer' = IF ~block /\ blklist = NULL THEN 1 ELSE 0
    /\ UNCHANGED <<wid, objects>>

-----------------------------------------------------------------------------
(* My_Widget.  An object without limits checks nothing; one with limits    *)
(* saves the colour the widget has when it is made, the error colour too.  *)
(* It is gone when its owner is: there is no destructor.                   *)
New(kind, limit) ==
    /\ Called /\ Len(objects) < MaxObjects
    /\ objects' = Append(objects, [limit_status |-> kind, limit |-> limit,
                                   Org_Color |-> wid.COLOR, alive |-> TRUE])
    /\ UNCHANGED <<wid, blklist, answer>>
Alive == {o \in DOMAIN objects : objects[o].alive}
Remembers(o) == "LIMIT_EXCEEDED" \in objects[o].limit_status
MadeRed(o) == objects[o].limit_status \cap Kinds # {} /\ objects[o].Org_Color = Err_Color
Gone(o) ==
    /\ Called
    /\ objects' = [objects EXCEPT ![o].alive = FALSE]
    /\ orphaned' = (wid.COLOR = Err_Color /\ (orphaned \/ Remembers(o) \/ MadeRed(o)))
    /\ UNCHANGED <<wid, blklist, answer>>

Set_Limit_HitForgetting(o, resource, value, status) ==
    LET hit == "LIMIT_EXCEEDED" \in objects[o].limit_status
    IN  /\ wid' = [wid EXCEPT ![resource] = value,
                              !.COLOR = IF status THEN Err_Color
                                        ELSE IF hit THEN objects[o].Org_Color ELSE @]
        /\ objects' = [objects EXCEPT ![o].limit_status =
                         IF status THEN {"LIMIT_EXCEEDED"} ELSE @ \ {"LIMIT_EXCEEDED"}]
Set_Limit_Hit(o, resource, value, status) ==
    LET hit == "LIMIT_EXCEEDED" \in objects[o].limit_status
    IN  /\ wid' = [wid EXCEPT ![resource] = value,
                              !.COLOR = IF status THEN Err_Color
                                        ELSE IF hit THEN objects[o].Org_Color ELSE @]
        /\ objects' = [objects EXCEPT ![o].limit_status =
                         IF status THEN @ \cup {"LIMIT_EXCEEDED"} ELSE @ \ {"LIMIT_EXCEEDED"}]

Outside(n, limit) == n < limit.min \/ n > limit.max

(* Set_Data and Set_Text_chk, of an int or a double: the check is that of  *)
(* the type of the argument, and made if the object has it.                *)
Checked(o, resource, type, n) ==
    IF type \in objects[o].limit_status
    THEN Set_Limit_Hit(o, resource, n, Outside(n, objects[o].limit))
    ELSE SetResource(resource, n) /\ UNCHANGED objects
Set_Data(o, type, n) ==
    /\ Called /\ Checked(o, "NUMERIC_VALUE", type, n)
    /\ UNCHANGED <<blklist, answer>>
Set_Text_chk(o, type, n) ==
    /\ Called /\ Checked(o, "TEXT", type, n)
    /\ UNCHANGED <<blklist, answer>>

Set_Text(o, str) ==
    /\ Called /\ SetResource("TEXT", str)
    /\ NoObject /\ UNCHANGED answer

Get_Data(o, type) ==
    /\ Called
    /\ answer' = CASE type = "text" -> IF objects[o].limit_status = {} THEN Get_Text ELSE INVALID
                   [] type \in {"int", "long"} -> Get_Numeric_Int
                   [] type \in {"float", "double"} -> Get_Numeric_Float(type)
    /\ UNCHANGED wid /\ NoObject

-----------------------------------------------------------------------------
Init ==
    /\ wid \in [TEXT : {"label"}, NUMERIC_VALUE : Numbers, COLOR : Colors, FLAGS : {{}},
                POS : {"place"}, WINDOW_STATE : {{}}, WINDOW_TITLE : {""}, ARM : {{}},
                TEXT_FONT : {"font"}, CBOX_SEL_ITEM : {1}, USER_DATA : {NULL}]
    /\ objects = <<>> /\ blklist = NULL /\ answer = NULL
    /\ calls = 0 /\ orphaned = FALSE

Use ==
    \/ \E color \in Colors \cup {None} : Set_Color_Text(color, "label")
    \/ SetWidget \/ GetWidget
    \/ \E name \in {"b", "c"} : FindWidget(name, <<"a", "b">>)
    \/ \E block \in BOOLEAN : Block_Window("window", block)
    \/ \E kind \in Kinds, limit \in Limits : New({kind}, limit)
    \/ New({}, NULL)
    \/ \E o \in Alive, type \in Kinds, n \in Numbers :
         Set_Data(o, type, n) \/ Set_Text_chk(o, type, n)
    \/ \E o \in Alive : Set_Text(o, "label")
    \/ \E o \in Alive, type \in {"text", "int", "long", "float", "double"} : Get_Data(o, type)
Next ==
    \/ Use /\ orphaned' = (orphaned /\ wid'.COLOR = Err_Color)
    \/ \E o \in Alive : Gone(o)

Spec == Init /\ [][Next]_vars

-----------------------------------------------------------------------------
(* However many objects are made for a widget and go again, of whatever    *)
(* types, and whoever else sets its colour: it has the error colour only   *)
(* while an object that still checks remembers so and has another colour   *)
(* to set it back to; or while one is there that was made when the widget  *)
(* was red and takes that for the widget's own; or since an object went    *)
(* that was to set the colour back, or had set it back to that.  New,      *)
(* Set_Limit_Hit, Set_Data, Set_Text_chk.                                  *)
Owns(o) ==
    /\ Remembers(o) /\ objects[o].limit_status \cap Kinds # {}
    /\ objects[o].Org_Color # Err_Color
RedHasOwner ==
    wid.COLOR = Err_Color => orphaned \/ \E o \in Alive : Owns(o) \/ MadeRed(o)
=============================================================================
