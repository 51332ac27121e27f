--------------------------- MODULE PhutilsProofs ---------------------------
(***************************************************************************)
(* The parts of phutils, for any texts, tags, lengths of lists, limits,    *)
(* colours and menu files: who owns the error colour of a widget, what the *)
(* two kinds of files keep of a combo box, what a dialogue answers,        *)
(* which menu a file makes, and that a text panel keeps its rows apart.  A *)
(* step of another part leaves the variables of this one.                  *)
(***************************************************************************)
EXTENDS MCPhutils, ListProofs, FiniteSetTheorems

-----------------------------------------------------------------------------
(* Widgets.                                                                *)
Object == [limit_status : SUBSET (Widget!Kinds \cup {"LIMIT_EXCEEDED"}),
           limit : Limits \cup {"NULL"}, Org_Color : Colors \cup {Err_Color}, alive : BOOLEAN]
Coloured ==
    /\ objects \in Seq(Object)
    /\ "COLOR" \in DOMAIN wid /\ wid.COLOR \in Colors \cup {Err_Color}

(* Only an object that can hit a limit remembers one. *)
Limited ==
    \A o \in DOMAIN objects :
        Widget!Remembers(o) => objects[o].limit_status \cap Widget!Kinds # {}

OwnerInv == Coloured /\ Limited /\ RedHasOwner

(* The objects and the colour stay, and red is still explained. *)
LEMMA SameColour ==
    ASSUME OwnerInv, objects' = objects, "COLOR" \in DOMAIN wid', wid'.COLOR = wid.COLOR,
           wid'.COLOR = Err_Color => orphaned' = orphaned
    PROVE  OwnerInv'
<1>1. Coloured' /\ Limited'
  BY DEF OwnerInv, Coloured, Limited, Widget!Remembers
<1>2. RedHasOwner'
  BY DEF OwnerInv, RedHasOwner, Widget!RedHasOwner, Widget!Alive, Widget!Owns, Widget!Remembers,
         Widget!MadeRed
<1>. QED BY <1>1, <1>2 DEF OwnerInv

(* The objects stay and the widget gets a colour of its own. *)
LEMMA OwnColour ==
    ASSUME OwnerInv, objects' = objects, "COLOR" \in DOMAIN wid', wid'.COLOR \in Colors
    PROVE  OwnerInv'
<1>1. wid'.COLOR # Err_Color
  BY PhutilsAssumption
<1>2. Coloured' /\ Limited'
  BY DEF OwnerInv, Coloured, Limited, Widget!Remembers
<1>3. RedHasOwner'
  BY <1>1 DEF RedHasOwner, Widget!RedHasOwner
<1>. QED BY <1>2, <1>3 DEF OwnerInv

LEMMA NewOwner ==
    ASSUME OwnerInv, NEW kind, NEW limit \in Limits \cup {"NULL"}, Widget!New(kind, limit),
           kind \subseteq Widget!Kinds, orphaned' = (orphaned /\ wid'.COLOR = Err_Color)
    PROVE  OwnerInv'
<1>. DEFINE n == Len(objects)
            new == [limit_status |-> kind, limit |-> limit, Org_Color |-> wid.COLOR,
                    alive |-> TRUE]
<1>1. n \in Nat /\ objects \in Seq(Object) /\ wid' = wid
  BY DEF OwnerInv, Coloured, Widget!New
<1>2. new \in Object /\ new.limit_status = kind
  BY DEF OwnerInv, Coloured, Object
<1>3. objects' = Append(objects, new)
  BY DEF Widget!New
<1>. HIDE DEF new
<1>4. /\ objects' \in Seq(Object) /\ DOMAIN objects = 1 .. n /\ DOMAIN objects' = 1 .. n + 1
      /\ \A o \in 1 .. n : objects'[o] = objects[o]
      /\ objects'[n + 1] = new
  <2>. HIDE DEF Object
  <2>. QED BY <1>1, <1>2, <1>3
<1>. HIDE DEF n
<1>5. \A o \in DOMAIN objects' : o \in DOMAIN objects \/ objects'[o] = new
  BY <1>1, <1>4
<1>6. \A o \in DOMAIN objects : o \in DOMAIN objects' /\ objects'[o] = objects[o]
  BY <1>1, <1>4
<1>7. Coloured'
  BY <1>1, <1>4 DEF OwnerInv, Coloured
<1>8. Limited'
  <2>1. "LIMIT_EXCEEDED" \notin kind
    BY DEF Widget!Kinds
  <2>. QED BY <1>2, <1>5, <1>6, <2>1 DEF OwnerInv, Limited, Widget!Remembers
<1>9. RedHasOwner'
  <2>. SUFFICES ASSUME wid'.COLOR = Err_Color
                PROVE  orphaned' \/ (\E o \in Widget!Alive : Widget!Owns(o) \/ Widget!MadeRed(o))'
    BY DEF RedHasOwner, Widget!RedHasOwner
  <2>1. orphaned \/ \E o \in Widget!Alive : Widget!Owns(o) \/ Widget!MadeRed(o)
    BY <1>1 DEF OwnerInv, RedHasOwner, Widget!RedHasOwner
  <2>2. CASE orphaned
    BY <2>2
  <2>3. ASSUME NEW o \in Widget!Alive, Widget!Owns(o) \/ Widget!MadeRed(o)
        PROVE  (\E p \in Widget!Alive : Widget!Owns(p) \/ Widget!MadeRed(p))'
    BY <1>6, <2>3 DEF Widget!Alive, Widget!Owns, Widget!MadeRed, Widget!Remembers
  <2>. QED BY <2>1, <2>2, <2>3
<1>. QED BY <1>7, <1>8, <1>9 DEF OwnerInv

(* An object goes. *)
LEMMA GoneOwner ==
    ASSUME OwnerInv, NEW o \in Widget!Alive, Widget!Gone(o)
    PROVE  OwnerInv'
<1>. DEFINE changed == [objects[o] EXCEPT !.alive = FALSE]
<1>1. /\ wid' = wid /\ o \in DOMAIN objects
      /\ orphaned' = (wid.COLOR = Err_Color
                        /\ (orphaned \/ Widget!Remembers(o) \/ Widget!MadeRed(o)))
  BY DEF Widget!Gone, Widget!Alive
<1>2. objects \in Seq(Object) /\ objects[o] \in Object /\ DOMAIN objects = 1 .. Len(objects)
  <2>1. objects \in Seq(Object)
    BY DEF OwnerInv, Coloured
  <2>. HIDE DEF Object
  <2>. QED BY <1>1, <2>1
<1>3. /\ changed \in Object /\ changed.limit_status = objects[o].limit_status
      /\ changed.Org_Color = objects[o].Org_Color
  BY <1>2 DEF Object
<1>4. objects' = [objects EXCEPT ![o] = changed]
  BY DEF Widget!Gone
<1>. HIDE DEF changed
<1>5. /\ objects' \in Seq(Object) /\ DOMAIN objects' = DOMAIN objects /\ objects'[o] = changed
      /\ \A p \in DOMAIN objects : p # o => objects'[p] = objects[p]
  <2>. HIDE DEF Object
  <2>. QED BY <1>1, <1>2, <1>3, <1>4
<1>6. Coloured'
  BY <1>1, <1>5 DEF OwnerInv, Coloured
<1>7. Limited'
  BY <1>1, <1>3, <1>5 DEF OwnerInv, Limited, Widget!Remembers
<1>8. RedHasOwner'
  <2>. SUFFICES ASSUME wid.COLOR = Err_Color, ~orphaned'
                PROVE  (\E p \in Widget!Alive : Widget!Owns(p) \/ Widget!MadeRed(p))'
    BY <1>1 DEF RedHasOwner, Widget!RedHasOwner
  <2>1. ~orphaned /\ ~Widget!Remembers(o) /\ ~Widget!MadeRed(o)
    BY <1>1
  <2>2. PICK p \in Widget!Alive : Widget!Owns(p) \/ Widget!MadeRed(p)
    BY <2>1 DEF OwnerInv, RedHasOwner, Widget!RedHasOwner
  <2>3. p # o
    BY <2>1, <2>2 DEF Widget!Owns
  <2>4. p \in DOMAIN objects /\ objects'[p] = objects[p]
    BY <1>5, <2>3 DEF Widget!Alive
  <2>. QED BY <1>5, <2>2, <2>4 DEF Widget!Alive, Widget!Owns, Widget!MadeRed, Widget!Remembers
<1>. QED BY <1>6, <1>7, <1>8 DEF OwnerInv

(* A number is shown and checked by the type it has.                       *)
LEMMA CheckedOwner ==
    ASSUME OwnerInv, NEW o \in Widget!Alive, NEW resource \in {"NUMERIC_VALUE", "TEXT"},
           NEW type \in Widget!Kinds, NEW n, Widget!Checked(o, resource, type, n),
           orphaned \in BOOLEAN, orphaned' = (orphaned /\ wid'.COLOR = Err_Color)
    PROVE  OwnerInv'
<1>0. o \in DOMAIN objects /\ objects[o].alive
  BY DEF Widget!Alive
<1>1. CASE type \notin objects[o].limit_status
  <2>1. wid' = [wid EXCEPT ![resource] = n] /\ objects' = objects
    BY <1>1 DEF Widget!Checked, Widget!SetResource
  <2>2. "COLOR" \in DOMAIN wid' /\ wid'.COLOR = wid.COLOR
    BY <2>1 DEF OwnerInv, Coloured
  <2>3. wid'.COLOR = Err_Color => orphaned' = orphaned
    OBVIOUS
  <2>. QED BY <2>1, <2>2, <2>3, SameColour
<1>2. CASE type \in objects[o].limit_status
  <2>. DEFINE hit == Widget!Outside(n, objects[o].limit)
              s == objects[o].limit_status
              t == IF hit THEN s \cup {"LIMIT_EXCEEDED"} ELSE s \ {"LIMIT_EXCEEDED"}
  <2>1. /\ wid' = [wid EXCEPT ![resource] = n,
                             !.COLOR = IF hit THEN Err_Color
                                       ELSE IF "LIMIT_EXCEEDED" \in s THEN objects[o].Org_Color
                                       ELSE @]
        /\ objects' = [objects EXCEPT ![o].limit_status = t]
    BY <1>2 DEF Widget!Checked, Widget!Set_Limit_Hit
  <2>2. objects \in Seq(Object) /\ objects[o] \in Object /\ Len(objects) \in Nat
        /\ DOMAIN objects = 1 .. Len(objects)
    <3>1. objects \in Seq(Object)
      BY DEF OwnerInv, Coloured
    <3>. HIDE DEF Object
    <3>. QED BY <1>0, <3>1
  <2>3. s \subseteq Widget!Kinds \cup {"LIMIT_EXCEEDED"} /\ type \in s /\ type # "LIMIT_EXCEEDED"
        /\ objects[o].Org_Color \in Colors \cup {Err_Color}
    BY <1>2, <2>2 DEF Object, Widget!Kinds
  <2>4. /\ "COLOR" \in DOMAIN wid'
        /\ wid'.COLOR = IF hit THEN Err_Color
                        ELSE IF "LIMIT_EXCEEDED" \in s THEN objects[o].Org_Color ELSE wid.COLOR
    BY <2>1 DEF OwnerInv, Coloured
  <2>. DEFINE changed == [objects[o] EXCEPT !.limit_status = t]
  <2>5. /\ changed \in Object /\ changed.limit_status = t /\ changed.alive
        /\ changed.Org_Color = objects[o].Org_Color
    BY <1>0, <2>2, <2>3 DEF Object
  <2>6. objects' = [objects EXCEPT ![o] = changed]
    BY <2>1
  <2>. HIDE DEF changed, hit
  <2>7. /\ objects' \in Seq(Object) /\ DOMAIN objects' = DOMAIN objects /\ objects'[o] = changed
        /\ \A p \in DOMAIN objects : p # o => objects'[p] = objects[p]
    <3>. HIDE DEF Object
    <3>. QED BY <1>0, <2>2, <2>5, <2>6
  <2>8. Coloured'
    BY <2>3, <2>4, <2>7 DEF OwnerInv, Coloured
  <2>9. type \in t /\ t \cap Widget!Kinds # {}
    BY <2>3
  <2>10. Limited'
    BY <2>3, <2>5, <2>7, <2>9 DEF OwnerInv, Limited, Widget!Remembers
  <2>11. o \in DOMAIN objects' /\ objects'[o].alive /\ objects'[o].limit_status = t
         /\ objects'[o].Org_Color = objects[o].Org_Color
    BY <1>0, <2>5, <2>7
  <2>12. RedHasOwner'
    <3>. SUFFICES ASSUME wid'.COLOR = Err_Color
                  PROVE  orphaned' \/ \E p \in DOMAIN objects' :
                           /\ objects'[p].alive
                           /\ \/ /\ "LIMIT_EXCEEDED" \in objects'[p].limit_status
                                 /\ objects'[p].limit_status \cap Widget!Kinds # {}
                                 /\ objects'[p].Org_Color # Err_Color
                              \/ /\ objects'[p].limit_status \cap Widget!Kinds # {}
                                 /\ objects'[p].Org_Color = Err_Color
      BY DEF RedHasOwner, Widget!RedHasOwner, Widget!Alive, Widget!Owns, Widget!MadeRed,
             Widget!Remembers
    <3>1. CASE objects[o].Org_Color = Err_Color
      BY <2>9, <2>11, <3>1
    <3>2. CASE objects[o].Org_Color # Err_Color /\ hit
      <4>1. "LIMIT_EXCEEDED" \in t
        BY <3>2
      <4>. QED BY <2>9, <2>11, <3>2, <4>1
    <3>3. CASE objects[o].Org_Color # Err_Color /\ ~hit
      <4>1. wid'.COLOR = wid.COLOR /\ "LIMIT_EXCEEDED" \notin s
        BY <2>4, <3>3
      <4>2. orphaned \/ \E p \in Widget!Alive : Widget!Owns(p) \/ Widget!MadeRed(p)
        BY <4>1 DEF OwnerInv, RedHasOwner, Widget!RedHasOwner
      <4>3. CASE orphaned
        BY <4>3
      <4>4. ASSUME NEW p \in Widget!Alive, Widget!Owns(p) \/ Widget!MadeRed(p)
            PROVE  \E q \in DOMAIN objects' :
                           /\ objects'[q].alive
                           /\ \/ /\ "LIMIT_EXCEEDED" \in objects'[q].limit_status
                                 /\ objects'[q].limit_status \cap Widget!Kinds # {}
                                 /\ objects'[q].Org_Color # Err_Color
                              \/ /\ objects'[q].limit_status \cap Widget!Kinds # {}
                                 /\ objects'[q].Org_Color = Err_Color
        <5>1. p # o
          BY <3>3, <4>1, <4>4 DEF Widget!Owns, Widget!MadeRed, Widget!Remembers
        <5>2. p \in DOMAIN objects /\ objects[p].alive
          BY DEF Widget!Alive
        <5>. QED BY <2>7, <4>4, <5>1, <5>2 DEF Widget!Owns, Widget!MadeRed, Widget!Remembers
      <4>. QED BY <4>2, <4>3, <4>4
    <3>. QED BY <3>1, <3>2, <3>3
  <2>. QED BY <2>8, <2>10, <2>12 DEF OwnerInv
<1>. QED BY <1>1, <1>2

LEMMA WidgetSteps ==
    ASSUME OwnerInv, orphaned \in BOOLEAN, Widget!Next
    PROVE  OwnerInv'
<1>. SUFFICES ASSUME Widget!Use, orphaned' = (orphaned /\ wid'.COLOR = Err_Color)
              PROVE  OwnerInv'
  BY GoneOwner DEF Widget!Next
<1>0. wid'.COLOR = Err_Color => orphaned' = orphaned
  OBVIOUS
<1>1. ASSUME NEW color \in Colors \cup {Widget!None}, Widget!Set_Color_Text(color, "label")
      PROVE  OwnerInv'
  <2>1. objects' = objects /\ "COLOR" \in DOMAIN wid'
        /\ wid'.COLOR = IF color = Widget!None THEN wid.COLOR ELSE color
    BY <1>1 DEF Widget!Set_Color_Text, Widget!NoObject, OwnerInv, Coloured
  <2>2. wid'.COLOR = wid.COLOR \/ wid'.COLOR \in Colors
    BY <2>1
  <2>. QED BY <1>0, <2>1, <2>2, SameColour, OwnColour
<1>2. CASE Widget!SetWidget
  <2>1. objects' = objects /\ "COLOR" \in DOMAIN wid' /\ wid'.COLOR = wid.COLOR
    BY <1>2 DEF Widget!SetWidget, Widget!NoObject, Widget!Set_Widget_State, Widget!SetFlags,
            Widget!Enable_Disable_Widget, Widget!Hide_Widget, Widget!Hide_Window,
            Widget!Show_Window, Widget!Set_Window_Title, Widget!Add_Callback,
            Widget!SetResource, OwnerInv, Coloured
  <2>. QED BY <1>0, <2>1, SameColour
<1>3. ASSUME UNCHANGED <<wid, objects>> PROVE OwnerInv'
  BY <1>0, <1>3, SameColour DEF OwnerInv, Coloured
<1>4. ASSUME NEW kind \in Widget!Kinds, NEW limit \in Limits, Widget!New({kind}, limit)
      PROVE  OwnerInv'
  BY <1>4, NewOwner
<1>5. CASE Widget!New({}, Widget!NULL)
  BY <1>5, NewOwner DEF Widget!NULL
<1>6. ASSUME NEW o \in Widget!Alive, NEW type \in Widget!Kinds, NEW n \in Numbers,
             Widget!Set_Data(o, type, n) \/ Widget!Set_Text_chk(o, type, n)
      PROVE  OwnerInv'
  BY <1>6, CheckedOwner DEF Widget!Set_Data, Widget!Set_Text_chk
<1>7. ASSUME NEW o \in Widget!Alive, Widget!Set_Text(o, "label") PROVE OwnerInv'
  <2>1. objects' = objects /\ "COLOR" \in DOMAIN wid' /\ wid'.COLOR = wid.COLOR
    BY <1>7 DEF Widget!Set_Text, Widget!NoObject, Widget!SetResource, OwnerInv, Coloured
  <2>. QED BY <1>0, <2>1, SameColour
<1>8. \/ Widget!GetWidget \/ (\E name \in {"b", "c"} : Widget!FindWidget(name, <<"a", "b">>))
      \/ (\E block \in BOOLEAN : Widget!Block_Window("window", block))
      \/ (\E o \in Widget!Alive, type \in {"text", "int", "long", "float", "double"} :
            Widget!Get_Data(o, type))
      => UNCHANGED <<wid, objects>>
  BY DEF Widget!GetWidget, Widget!FindWidget, Widget!Block_Window, Widget!Get_Data, Widget!NoObject
<1>. QED BY <1>1, <1>2, <1>3, <1>4, <1>5, <1>6, <1>7, <1>8 DEF Widget!Use

(* However many objects show numbers in a widget and go again, with        *)
(* whatever limits and types: while it has the error colour one of them    *)
(* will set it back, or one was made when the widget was red already, or   *)
(* went before it set the colour back.  New, Set_Limit_Hit, Set_Data,      *)
(* Set_Text_chk.                                                           *)
THEOREM RedIsOwned == PhutilsSpec => []RedHasOwner
<1>. DEFINE Inv == OwnerInv /\ orphaned \in BOOLEAN
<1>1. PhutilsInit => Inv
  <2>. SUFFICES ASSUME Widget!Init PROVE Inv
    BY DEF PhutilsInit
  <2>1. objects = <<>> /\ orphaned = FALSE /\ wid.COLOR \in Colors /\ "COLOR" \in DOMAIN wid
    BY DEF Widget!Init
  <2>2. Coloured /\ Limited
    BY <2>1 DEF Coloured, Limited
  <2>3. RedHasOwner
    BY <2>1, PhutilsAssumption DEF RedHasOwner, Widget!RedHasOwner
  <2>. QED BY <2>1, <2>2, <2>3 DEF OwnerInv
<1>2. Inv /\ [PhutilsNext]_phutilsVars => Inv'
  <2>. SUFFICES ASSUME OwnerInv, orphaned \in BOOLEAN, [PhutilsNext]_phutilsVars PROVE Inv'
    OBVIOUS
  <2>1. Widget!Next \/ UNCHANGED <<wid, objects, orphaned>>
    BY DEF PhutilsNext, AllBut, phutilsVars, widgetVars
  <2>2. CASE UNCHANGED <<wid, objects, orphaned>>
    BY <2>2, SameColour DEF OwnerInv, Coloured
  <2>3. Widget!Next => orphaned' \in BOOLEAN
    BY DEF Widget!Next, Widget!Gone
  <2>. QED BY <2>1, <2>2, <2>3, WidgetSteps
<1>3. Inv => RedHasOwner
  BY DEF OwnerInv
<1>. QED BY <1>1, <1>2, <1>3, PTL DEF PhutilsSpec

-----------------------------------------------------------------------------
(* Dialogues.                                                              *)
Shown(type, button, blocks) ==
    LET buttons == Asked!Buttons[type + 1]
        count == Len(buttons)
        least == IF button > count THEN count ELSE button
    IN  [kind |-> "msgbox", type |-> type, buttons |-> buttons,
         default |-> IF type = 1 /\ least = 3 THEN 2 ELSE least, asked |-> button,
         blocks |-> blocks]
DialogInv ==
    /\ dialogCalls \in Nat
    /\ dialog.kind = "msgbox" =>
           \E type \in 0 .. 3, button \in 1 .. 3, blocks \in BOOLEAN :
               dialog = Shown(type, button, blocks)
    /\ parent \in BOOLEAN
    /\ saving = Asked!INVALID =>
           Asked!ReadValue = kept \/ (notStored /\ Asked!ReadValue = Asked!INVALID)
    /\ saving # Asked!INVALID => stored = <<>> /\ saving = kept

(* Each type of dialogue, each button button for as the default. *)
LEMMA PressedIsMeant ==
    ASSUME NEW type \in 0 .. 3, NEW button \in 1 .. 3, NEW blocks,
           dialog = Shown(type, button, blocks),
           NEW key, NEW response \in DOMAIN dialog.buttons,
           key = "Default" => response = dialog.default,
           key # "Default" => key = dialog.buttons[response]
    PROVE  Asked!Response(response) = Asked!Meant(dialog, key)
<1>1. /\ dialog.kind = "msgbox" /\ dialog.type = type /\ dialog.asked = button
      /\ dialog.buttons = Asked!Buttons[type + 1]
      /\ dialog.default = LET count == Len(Asked!Buttons[type + 1])
                              least == IF button > count THEN count ELSE button
                          IN  IF type = 1 /\ least = 3 THEN 2 ELSE least
  BY DEF Shown
<1>2. /\ Asked!Code("OK") = 1 /\ Asked!Code("Yes") = 1 /\ Asked!Code("No") = 2
      /\ Asked!Code("Cancel") = 3
  BY DEF Asked!Code
<1>3. Asked!Response(response) = IF type = 1 /\ response = 2 THEN 3 ELSE response
  BY <1>1 DEF Asked!Response, Asked!PH_OK_CANCEL, Asked!PH_CANCEL
<1>. DEFINE buttons == Asked!Buttons[type + 1]
<1>4. Asked!Meant(dialog, key) =
        IF key # "Default" THEN Asked!Code(key)
        ELSE IF \E b \in DOMAIN buttons : Asked!Code(buttons[b]) = button THEN button
        ELSE Asked!Code(buttons[Len(buttons)])
  BY <1>1 DEF Asked!Meant
<1>5. CASE type = 0
  <2>1. Len(buttons) = 1 /\ DOMAIN buttons = 1 .. 1 /\ buttons[1] = "OK"
    BY <1>5 DEF Asked!Buttons
  <2>. QED BY <1>1, <1>2, <1>3, <1>4, <1>5, <2>1
<1>6. CASE type = 1
  <2>1. /\ Len(buttons) = 2 /\ DOMAIN buttons = 1 .. 2
        /\ buttons[1] = "OK" /\ buttons[2] = "Cancel"
    BY <1>6 DEF Asked!Buttons
  <2>. QED BY <1>1, <1>2, <1>3, <1>4, <1>6, <2>1
<1>7. CASE type = 2
  <2>1. /\ Len(buttons) = 2 /\ DOMAIN buttons = 1 .. 2
        /\ buttons[1] = "Yes" /\ buttons[2] = "No"
    BY <1>7 DEF Asked!Buttons
  <2>. QED BY <1>1, <1>2, <1>3, <1>4, <1>7, <2>1
<1>8. CASE type = 3
  <2>1. /\ Len(buttons) = 3 /\ DOMAIN buttons = 1 .. 3
        /\ buttons[1] = "Yes" /\ buttons[2] = "No" /\ buttons[3] = "Cancel"
    BY <1>8 DEF Asked!Buttons
  <2>. QED BY <1>1, <1>2, <1>3, <1>4, <1>8, <2>1
<1>. QED BY <1>5, <1>6, <1>7, <1>8

LEMMA DialogSteps ==
    ASSUME DialogInv, Asked!Next
    PROVE  DialogInv'
<1>. USE DEF DialogInv
<1>1. ASSUME NEW d, Asked!Opens(d),
             d.kind = "msgbox" => \E type \in 0 .. 3, button \in 1 .. 3, blocks \in BOOLEAN :
                                      d = Shown(type, button, blocks)
      PROVE  DialogInv'
  BY <1>1 DEF Asked!Opens, Asked!Called, Asked!Kept, Asked!ReadValue
<1>2. ASSUME NEW what, NEW code, NEW value, Asked!Closes(what, code, value)
      PROVE  DialogInv'
  BY <1>2 DEF Asked!Closes, Asked!Kept, Asked!object, Asked!Closed, Asked!ReadValue
<1>3. ASSUME NEW opened \in BOOLEAN, NEW generated \in BOOLEAN, Asked!InitDialog(opened, generated)
      PROVE  DialogInv'
  <2>1. /\ dialogCalls' \in Nat /\ dialog' = dialog /\ dialog = Asked!Closed /\ parent' = FALSE
        /\ UNCHANGED <<saving, stored, kept, notStored>>
    BY <1>3 DEF Asked!InitDialog, Asked!Called, Asked!Idle, Asked!Kept
  <2>2. dialog'.kind # "msgbox"
    BY <2>1 DEF Asked!Closed
  <2>. QED BY <2>1, <2>2 DEF Asked!ReadValue
<1>4. ASSUME NEW opened, Asked!Set_Parent \/ Asked!Dis_Msg \/ Asked!Read(opened) PROVE DialogInv'
  <2>1. /\ dialogCalls' \in Nat /\ dialog' = dialog /\ dialog = Asked!Closed
        /\ parent' \in BOOLEAN /\ UNCHANGED <<saving, stored, kept, notStored>>
    <3>1. CASE Asked!Set_Parent
      BY <3>1 DEF Asked!Set_Parent, Asked!Called, Asked!Idle, Asked!Kept
    <3>2. CASE Asked!Dis_Msg
      BY <3>2 DEF Asked!Dis_Msg, Asked!Called, Asked!Idle, Asked!Kept
    <3>3. CASE Asked!Read(opened)
      BY <3>3 DEF Asked!Read, Asked!Called, Asked!Idle, Asked!Kept, Asked!object
    <3>. QED BY <1>4, <3>1, <3>2, <3>3
  <2>2. dialog'.kind # "msgbox"
    BY <2>1 DEF Asked!Closed
  <2>. QED BY <2>1, <2>2 DEF Asked!ReadValue
<1>5. ASSUME NEW type \in 0 .. 4, NEW default \in 1 .. 3, Asked!msgbox(type, default)
      PROVE  DialogInv'
  <2>. DEFINE t == IF type > 3 THEN 1 ELSE type
              button == IF type > 3 THEN 1 ELSE default
  <2>1. Asked!Opens(Shown(t, button, parent))
    BY <1>5 DEF Asked!msgbox, Shown, Asked!PH_OK_CANCEL, Asked!PH_YES_NO_CANCEL, Asked!PH_CANCEL
  <2>2. t \in 0 .. 3 /\ button \in 1 .. 3
    OBVIOUS
  <2>. QED BY <1>1, <2>1, <2>2
<1>6. ASSUME NEW buttons, NEW default, Asked!msgboxOf(buttons, default) PROVE DialogInv'
  BY <1>6, <1>1 DEF Asked!msgboxOf
<1>7. ASSUME NEW word, Asked!Chk_Password(word) PROVE DialogInv'
  BY <1>7, <1>1 DEF Asked!Chk_Password
<1>8. Asked!Dis_Msg_Wait \/ Asked!Get_Number \/ Asked!Get_Text => DialogInv'
  BY <1>1 DEF Asked!Dis_Msg_Wait, Asked!Get_Number, Asked!Get_Text
<1>9. Asked!Ask => DialogInv'
  BY <1>3, <1>4, <1>5, <1>6, <1>7, <1>8 DEF Asked!Ask
<1>10. Asked!Answer => DialogInv'
  BY <1>2 DEF Asked!Answer, Asked!Press, Asked!ReadNotice, Asked!Enter, Asked!Cancel,
              Asked!Password, Asked!GiveUp
<1>11. ASSUME NEW value \in Values, NEW opened \in BOOLEAN, Asked!SaveOpen(value, opened)
       PROVE  DialogInv'
  <2>1. /\ dialogCalls' \in Nat /\ dialog' = dialog /\ dialog = Asked!Closed
        /\ parent' = parent /\ saving = Asked!INVALID
        /\ IF opened THEN stored' = <<>> /\ saving' = value /\ kept' = value
           ELSE UNCHANGED <<stored, saving, kept, notStored>>
    BY <1>11 DEF Asked!SaveOpen, Asked!Called, Asked!Idle, Asked!object
  <2>2. dialog'.kind # "msgbox"
    BY <2>1 DEF Asked!Closed
  <2>. QED BY <2>1, <2>2, PhutilsAssumption DEF Asked!ReadValue
<1>12. ASSUME saving # Asked!INVALID, Asked!WrittenOrLost, UNCHANGED kept
       PROVE  Asked!ReadValue' = kept' \/ (notStored' /\ Asked!ReadValue' = Asked!INVALID)
  <2>1. stored = <<>> /\ saving = kept
    BY <1>12
  <2>. QED BY <1>12, <2>1 DEF Asked!WrittenOrLost, Asked!ReadValue
<1>13. CASE Asked!SaveClose
  <2>1. saving # Asked!INVALID /\ Asked!WrittenOrLost /\ saving' = Asked!INVALID
        /\ UNCHANGED <<dialogCalls, dialog, parent, kept>>
    BY <1>13 DEF Asked!SaveClose, Asked!object
  <2>. QED BY <1>12, <2>1
<1>14. CASE Asked!Restart
  <2>1. /\ dialogCalls' \in Nat /\ dialog' = Asked!Closed /\ parent' = FALSE
        /\ saving' = Asked!INVALID /\ kept' = kept
        /\ IF saving = Asked!INVALID THEN UNCHANGED <<stored, notStored>> ELSE Asked!WrittenOrLost
    BY <1>14 DEF Asked!Restart
  <2>2. dialog'.kind # "msgbox"
    BY <2>1 DEF Asked!Closed
  <2>3. Asked!ReadValue' = kept' \/ (notStored' /\ Asked!ReadValue' = Asked!INVALID)
    <3>1. CASE saving = Asked!INVALID
      BY <2>1, <3>1 DEF Asked!ReadValue
    <3>2. CASE saving # Asked!INVALID
      BY <1>12, <2>1, <3>2
    <3>. QED BY <3>1, <3>2
  <2>. QED BY <2>1, <2>2, <2>3
<1>15. Asked!KeepValue => DialogInv'
  BY <1>4, <1>11, <1>13, <1>14 DEF Asked!KeepValue
<1>. QED BY <1>9, <1>10, <1>15 DEF Asked!Next

(* Whatever dialogues were opened and closed before, for any words, values *)
(* and texts: the caller gets what the user meant, and of the file the     *)
(* number of the last save that opened it or, if that was lost, none.      *)
(* msgbox, Get_Sav_Val_File.                                               *)
THEOREM AnswersAreTheUsers == PhutilsSpec => AnswerIsTheUsers
<1>1. PhutilsInit => DialogInv
  <2>. SUFFICES ASSUME Asked!Init PROVE DialogInv
    BY DEF PhutilsInit
  <2>1. /\ dialogCalls = 0 /\ parent = FALSE /\ dialog.kind = "none" /\ stored = <<-1>>
        /\ saving = -1 /\ kept = -1
    BY DEF Asked!Init, Asked!Closed, Asked!Absent, Asked!INVALID
  <2>. QED BY <2>1 DEF DialogInv, Asked!ReadValue, Asked!INVALID
<1>2. DialogInv /\ [PhutilsNext]_phutilsVars => DialogInv'
  <2>. SUFFICES ASSUME DialogInv, [PhutilsNext]_phutilsVars PROVE DialogInv'
    OBVIOUS
  <2>1. Asked!Next \/ UNCHANGED dialogVars
    BY DEF PhutilsNext, AllBut, phutilsVars
  <2>2. CASE UNCHANGED dialogVars
    BY <2>2 DEF dialogVars, DialogInv, Asked!ReadValue
  <2>. QED BY <2>1, <2>2, DialogSteps
<1>3. DialogInv /\ [PhutilsNext]_phutilsVars => 
         [/\ dialog.kind = "msgbox" /\ dialog' = Asked!Closed /\ dialogCalls' = dialogCalls
                => answer' = Asked!Meant(dialog, user'.did)
          /\ Asked!Read(TRUE) =>
               answer' = kept \/ (notStored /\ answer' = Asked!INVALID)]_(Asked!vars)
  <2>. DEFINE A0 == dialog.kind = "msgbox" /\ dialog' = Asked!Closed
                    /\ dialogCalls' = dialogCalls
                    => answer' = Asked!Meant(dialog, user'.did)
              A1 == Asked!Read(TRUE) =>
                      answer' = kept \/ (notStored /\ answer' = Asked!INVALID)
  <2>. SUFFICES ASSUME DialogInv, [PhutilsNext]_phutilsVars,
                       ~ UNCHANGED Asked!vars
                PROVE  A0 /\ A1
    OBVIOUS
  <2>1. A1
    BY DEF DialogInv, Asked!Read, Asked!Called, Asked!Idle, Asked!Returns
  <2>2. Asked!Next
    BY DEF PhutilsNext, AllBut, phutilsVars, dialogVars, Asked!vars, Asked!object
  <2>3. SUFFICES ASSUME dialog.kind = "msgbox", dialog' = Asked!Closed,
                        dialogCalls' = dialogCalls
                 PROVE  answer' = Asked!Meant(dialog, user'.did)
    BY <2>1
  <2>4. dialog # Asked!Closed /\ dialogCalls \in Nat /\ dialogCalls + 1 # dialogCalls
    BY <2>3 DEF Asked!Closed, DialogInv
  <2>5. ~Asked!Called
    BY <2>3, <2>4 DEF Asked!Called
  <2>6. ~Asked!Ask
    BY <2>5 DEF Asked!Ask, Asked!InitDialog, Asked!Set_Parent, Asked!msgbox, Asked!msgboxOf,
            Asked!Dis_Msg, Asked!Dis_Msg_Wait, Asked!Get_Number, Asked!Get_Text,
            Asked!Chk_Password, Asked!Opens
  <2>7. ~Asked!KeepValue
    BY <2>3, <2>4, <2>5 DEF Asked!KeepValue, Asked!SaveOpen, Asked!SaveClose, Asked!Read,
            Asked!Restart, Asked!object
  <2>8. PICK key \in Asked!Keys : Asked!Press(key)
    BY <2>2, <2>3, <2>6, <2>7 DEF Asked!Next, Asked!Answer, Asked!ReadNotice, Asked!Enter,
            Asked!Cancel, Asked!Password, Asked!GiveUp
  <2>9. PICK response \in DOMAIN dialog.buttons :
               /\ key = "Default" => response = dialog.default
               /\ key # "Default" => key = dialog.buttons[response]
               /\ Asked!Closes(key, Asked!Response(response), val)
    BY <2>8 DEF Asked!Press
  <2>10. user'.did = key /\ answer' = Asked!Response(response)
    BY <2>9 DEF Asked!Closes, Asked!Returns
  <2>11. PICK type \in 0 .. 3, button \in 1 .. 3, blocks \in BOOLEAN :
                dialog = Shown(type, button, blocks)
    BY <2>3 DEF DialogInv
  <2>. QED BY <2>9, <2>10, <2>11, PressedIsMeant
<1>. QED BY <1>1, <1>2, <1>3, PTL DEF PhutilsSpec, AnswerIsTheUsers, Asked!AnswerIsTheUsers

-----------------------------------------------------------------------------
(* The selection in a binary file.                                         *)
BoxInv ==
    /\ header # <<>> /\ ~lost => header = <<Box!AsChar(selKept)>>
    /\ header = <<>> => selKept = 0 \/ lost
    /\ step = "new" => header = <<>>
    /\ step # "idle" => ~loaded /\ there
    /\ ~there => header = <<>> /\ ~pending
    /\ loaded => header # <<>> /\ sel = header[1]

LEMMA ZeroIsKept == Box!AsChar(0) = 0
<1>1. CHAR_MAX \in Nat
  BY PhutilsAssumption
<1>2. 0 <= CHAR_MAX
  BY <1>1
<1>. QED BY <1>2 DEF Box!AsChar

(* A step that does not leave the box loaded, nor touches what is kept.    *)
LEMMA HeaderKept ==
    ASSUME BoxInv, ~loaded', UNCHANGED <<header, lost, selKept>>, step' # "new",
           ~there' => ~there /\ step' = "idle" /\ ~pending'
    PROVE  BoxInv'
BY DEF BoxInv, Box!AsChar

LEMMA BoxSteps == ASSUME BoxInv, Box!Next PROVE BoxInv'
<1>1. ASSUME NEW t \in Texts, NEW k, Box!Add_Combo_Items(t, k) PROVE BoxInv'
  BY <1>1, HeaderKept DEF Box!Add_Combo_Items, Box!file, BoxInv
<1>2. ASSUME NEW k, Box!Select(k) PROVE BoxInv'
  BY <1>2, HeaderKept DEF Box!Select, Box!file, BoxInv
<1>3. CASE Box!Save_Combo_Selection
  <2>1. ~loaded' /\ selKept' = selKept /\ pending' = pending /\ Box!Open
    BY <1>3 DEF Box!Save_Combo_Selection
  <2>2. CASE step' # "new"
    <3>1. UNCHANGED <<there, header, lost>> /\ (there \/ step' = "idle")
      BY <2>1, <2>2 DEF Box!Open
    <3>. QED BY <2>1, <2>2, <3>1, HeaderKept DEF BoxInv
(* A file is new, or "w+b" has emptied it.                                 *)
  <2>3. CASE step' = "new"
    <3>1. header' = <<>> /\ there' /\ (IF there THEN lost' = TRUE ELSE lost' = lost)
      BY <2>1, <2>3 DEF Box!Open
    <3>. QED BY <2>1, <2>3, <3>1 DEF BoxInv
  <2>. QED BY <2>2, <2>3
<1>4. CASE Box!Write_Header
  <2>1. step = "new" /\ header = <<>> /\ ~loaded /\ there /\ UNCHANGED <<there, loaded, selKept, lost>>
    BY <1>4 DEF Box!Write_Header, BoxInv
  <2>2. CASE header' = <<0>> /\ step' = "read"
    <3>1. selKept = 0 \/ lost
      BY <2>1 DEF BoxInv
    <3>2. header' = <<Box!AsChar(0)>>
      BY <2>2, ZeroIsKept
    <3>. QED BY <2>1, <2>2, <3>1, <3>2 DEF BoxInv, Box!AsChar
  <2>3. CASE step' = "idle" /\ UNCHANGED header
    BY <2>1, <2>3, HeaderKept
  <2>. QED BY <1>4, <2>2, <2>3 DEF Box!Write_Header
<1>5. CASE Box!ReadHeader
  <2>1. ~loaded' /\ step' # "new" /\ there' /\ UNCHANGED <<header, lost, selKept>>
    BY <1>5 DEF Box!ReadHeader, Box!file, BoxInv
  <2>. QED BY <2>1, HeaderKept
<1>6. CASE Box!WriteHeader
  <2>1. step' = "idle" /\ ~loaded' /\ there'
    BY <1>6 DEF Box!WriteHeader, BoxInv
  <2>2. CASE header' = <<Box!AsChar(sel)>> /\ selKept' = sel
    BY <2>1, <2>2 DEF BoxInv, Box!AsChar
  <2>3. CASE UNCHANGED <<header, selKept, lost>>
    BY <2>1, <2>3, HeaderKept
  <2>4. CASE selKept' = sel /\ lost' = TRUE /\ UNCHANGED header
    BY <2>1, <2>4 DEF BoxInv
  <2>. QED BY <1>6, <2>2, <2>3, <2>4 DEF Box!WriteHeader
<1>7. CASE Box!Restart
  <2>1. step' = "idle" /\ ~loaded' /\ ~pending' /\ UNCHANGED <<there, selKept>>
    BY <1>7 DEF Box!Restart
  <2>2. CASE pending /\ header' = <<0>> /\ lost' = TRUE
    BY <2>1, <2>2 DEF BoxInv
  <2>3. CASE UNCHANGED <<header, lost>>
    BY <2>1, <2>3, HeaderKept
  <2>. QED BY <1>7, <2>2, <2>3 DEF Box!Restart
<1>8. CASE Box!Load_Combo_File
  BY <1>8 DEF Box!Load_Combo_File, Box!file, BoxInv, Box!AsChar
<1>. QED BY <1>1, <1>2, <1>3, <1>4, <1>5, <1>6, <1>7, <1>8 DEF Box!Next

(* For any texts and any number of saves, failures and kills: a box that   *)
(* is loaded has the selection of the last save that was reported, if it   *)
(* fits in a char and the file was neither emptied nor written over.       *)
(* Save_Combo_Item_Pos, Load_Combo_File.                                   *)
THEOREM SelectionIsKept == PhutilsSpec => []SelectionSurvives
<1>1. PhutilsInit => BoxInv
  BY DEF PhutilsInit, Box!Init, BoxInv
<1>2. BoxInv /\ [PhutilsNext]_phutilsVars => BoxInv'
  <2>. SUFFICES ASSUME BoxInv, [PhutilsNext]_phutilsVars PROVE BoxInv'
    OBVIOUS
  <2>1. Box!Next \/ UNCHANGED boxVars
    BY DEF PhutilsNext, AllBut, phutilsVars
  <2>2. CASE UNCHANGED boxVars
    BY <2>2 DEF boxVars, BoxInv, Box!AsChar
  <2>. QED BY <2>1, <2>2, BoxSteps
<1>3. BoxInv => SelectionSurvives
  <2>. SUFFICES ASSUME BoxInv, loaded, ~lost, selKept <= CHAR_MAX PROVE sel = selKept
    BY DEF SelectionSurvives, Box!SelectionSurvives
  <2>1. header = <<Box!AsChar(selKept)>> /\ sel = header[1]
    BY DEF BoxInv
  <2>. QED BY <2>1 DEF Box!AsChar
<1>. QED BY <1>1, <1>2, <1>3, PTL DEF PhutilsSpec

-----------------------------------------------------------------------------
(* The lists of all boxes in a text file.                                  *)
Fills(F, base, s) ==
    /\ F[0] = base
    /\ \A k \in 0 .. Len(s) - 1 : F[k + 1] = Boxes!AddLast(F[k], s[k + 1])
LEMMA FoldLast ==
    ASSUME NEW E, NEW base \in Seq(E), NEW s \in Seq(E)
    PROVE  \E F \in [0 .. Len(s) -> Seq(E)] :
               Fills(F, base, s) /\ Boxes!FoldLeft(Boxes!AddLast, base, s) = F[Len(s)]
<1>. DEFINE n == Len(s)
            G == [p \in Seq(E) \X E |-> Boxes!AddLast(p[1], p[2])]
<1>1. n \in Nat /\ DOMAIN s = 1 .. n /\ \A i \in 1 .. n : s[i] \in E
  OBVIOUS
<1>2. G \in [Seq(E) \X E -> Seq(E)]
  BY DEF Boxes!AddLast
<1>3. \A l \in Seq(E), t \in E : G[<<l, t>>] = Boxes!AddLast(l, t)
  OBVIOUS
<1>. HIDE DEF G, n
<1>4. PICK h : Folding(h, G, base, s) /\ \A T \in SUBSET DOMAIN s : h[T] \in Seq(E)
  BY <1>2, FoldExists
<1>5. \A T \in SUBSET DOMAIN s : T # {} =>
          G[<<h[T \ {Max(T)}], s[Max(T)]>>] = Boxes!AddLast(h[T \ {Max(T)}], s[Max(T)])
  <2>1. ASSUME NEW T \in SUBSET DOMAIN s, T # {}
        PROVE  h[T \ {Max(T)}] \in Seq(E) /\ s[Max(T)] \in E
    <3>1. Max(T) \in 1 .. n
      BY <1>1, <2>1, GreatestOf
    <3>2. T \ {Max(T)} \in SUBSET DOMAIN s
      OBVIOUS
    <3>. QED BY <1>1, <1>4, <3>1, <3>2
  <2>. QED BY <1>3, <2>1
<1>6. h = [T \in SUBSET DOMAIN s |->
              IF T = {} THEN base ELSE Boxes!AddLast(h[T \ {Max(T)}], s[Max(T)])]
  BY <1>4, <1>5 DEF Folding
<1>7. PICK g : /\ g = [T \in SUBSET DOMAIN s |->
                          IF T = {} THEN base ELSE Boxes!AddLast(g[T \ {Max(T)}], s[Max(T)])]
               /\ FoldLeft(Boxes!AddLast, base, s) = g[DOMAIN s]
  BY <1>6, Zenon DEF FoldLeft, MapThenFoldSet
<1>. DEFINE F == [k \in 0 .. n |-> g[1 .. k]]
            Good == {k \in 0 .. n : F[k] \in Seq(E)}
<1>8. F[0] = base
  <2>1. 1 .. 0 = {} /\ {} \in SUBSET DOMAIN s
    OBVIOUS
  <2>. QED BY <1>1, <1>7, <2>1
<1>9. ASSUME NEW k \in 0 .. n - 1 PROVE F[k + 1] = Boxes!AddLast(F[k], s[k + 1])
  <2>. DEFINE T == 1 .. k + 1
  <2>1. /\ k \in 0 .. n /\ k + 1 \in 0 .. n /\ T \in SUBSET DOMAIN s /\ T # {}
        /\ Max(T) = k + 1 /\ T \ {k + 1} = 1 .. k
    BY <1>1, Prefix
  <2>2. g[T] = Boxes!AddLast(g[T \ {Max(T)}], s[Max(T)])
    BY <1>7, <2>1
  <2>3. g[T] = Boxes!AddLast(g[1 .. k], s[k + 1])
    BY <2>1, <2>2
  <2>. QED BY <2>1, <2>3
<1>. HIDE DEF F
<1>10. 0 .. n \subseteq Good
  <2>1. 0 \in Good
    BY <1>1, <1>8
  <2>2. ASSUME NEW k \in 0 .. n - 1, k \in Good PROVE k + 1 \in Good
    <3>1. k + 1 \in 0 .. n /\ s[k + 1] \in E
      BY <1>1
    <3>2. F[k] \in Seq(E) /\ F[k + 1] = Boxes!AddLast(F[k], s[k + 1])
      BY <1>9, <2>2
    <3>3. Boxes!AddLast(F[k], s[k + 1]) \in Seq(E)
      BY <3>1, <3>2 DEF Boxes!AddLast
    <3>. QED BY <3>1, <3>2, <3>3
  <2>. HIDE DEF Good
  <2>. QED BY <1>1, <2>1, <2>2, Induct
<1>11. F[n] = g[DOMAIN s]
  BY <1>1 DEF F
<1>12. F \in [0 .. n -> Seq(E)]
  BY <1>10 DEF F
<1>13. Boxes!FoldLeft(Boxes!AddLast, base, s) = FoldLeft(Boxes!AddLast, base, s)
  BY DEF FoldLeft, Boxes!FoldLeft, MapThenFoldSet, Boxes!MapThenFoldSet, Max, Boxes!Max
<1>14. Fills(F, base, s)
  BY <1>8, <1>9 DEF Fills, n
<1>. QED BY <1>7, <1>11, <1>12, <1>13, <1>14 DEF n

LEMMA SameItems ==
    ASSUME NEW E, NEW c \in Seq(E), NEW d \in Seq(E), NEW n, Len(c) = n, Len(d) = n,
           \A i \in 1 .. n : c[i] = d[i]
    PROVE  c = d
OBVIOUS

LEMMA Concatenated ==
    ASSUME NEW E, NEW a \in Seq(E), NEW t \in Seq(E)
    PROVE  /\ a \o t \in Seq(E) /\ Len(a \o t) = Len(a) + Len(t)
           /\ \A i \in 1 .. Len(a) : (a \o t)[i] = a[i]
           /\ \A i \in 1 .. Len(t) : (a \o t)[Len(a) + i] = t[i]
<1>1. Len(a) \in Nat /\ Len(t) \in Nat
  OBVIOUS
<1>2. a \o t \in Seq(E) /\ Len(a \o t) = Len(a) + Len(t)
  OBVIOUS
<1>3. \A i \in 1 .. Len(a) : (a \o t)[i] = a[i]
  BY <1>1
<1>4. \A i \in 1 .. Len(t) : (a \o t)[Len(a) + i] = t[i]
  BY <1>1
<1>. QED BY <1>2, <1>3, <1>4

Distinct(list) == \A i, j \in DOMAIN list : list[i] = list[j] => i = j

LEMMA SetOfList == ASSUME NEW s PROVE Boxes!ToSet(s) = ToSet(s)
BY DEF Boxes!ToSet, ToSet

LEMMA AddLastIs ==
    ASSUME NEW E, NEW list \in Seq(E), NEW l \in E, Distinct(list)
    PROVE  /\ Boxes!AddLast(list, l) \in Seq(E)
           /\ Distinct(Boxes!AddLast(list, l))
           /\ ToSet(Boxes!AddLast(list, l)) \subseteq ToSet(list) \cup {l}
<1>1. CASE l \in ToSet(list)
  <2>1. Boxes!AddLast(list, l) = list
    BY <1>1, SetOfList DEF Boxes!AddLast
  <2>. QED BY <2>1
<1>2. CASE l \notin ToSet(list)
  <2>. DEFINE a == Append(list, l)
              n == Len(list)
  <2>1. Boxes!AddLast(list, l) = a
    BY <1>2, SetOfList DEF Boxes!AddLast
  <2>2. /\ n \in Nat /\ a \in Seq(E) /\ DOMAIN list = 1 .. n /\ DOMAIN a = 1 .. n + 1
        /\ a[n + 1] = l /\ \A i \in 1 .. n : a[i] = list[i]
    OBVIOUS
  <2>. HIDE DEF a, n
  <2>3. \A i \in 1 .. n + 1 : i \in 1 .. n \/ i = n + 1
    BY <2>2
  <2>4. \A i \in 1 .. n : list[i] # l
    BY <1>2, <2>2 DEF ToSet
  <2>5. Distinct(a)
    <3>1. ASSUME NEW i \in 1 .. n + 1, NEW j \in 1 .. n + 1, a[i] = a[j] PROVE i = j
      <4>1. CASE i \in 1 .. n /\ j \in 1 .. n
        BY <2>2, <3>1, <4>1 DEF Distinct
      <4>2. CASE i = n + 1 \/ j = n + 1
        BY <2>2, <2>3, <2>4, <3>1, <4>2
      <4>. QED BY <2>3, <4>1, <4>2
    <3>. QED BY <2>2, <3>1 DEF Distinct
  <2>6. ToSet(a) \subseteq ToSet(list) \cup {l}
    BY <2>2, <2>3 DEF ToSet
  <2>. QED BY <2>1, <2>2, <2>5, <2>6
<1>. QED BY <1>1, <1>2

(* What a box is filled with: no line twice, and lines of the file only.   *)
LEMMA FilledIs ==
    ASSUME NEW E, NEW base \in Seq(E), NEW s \in Seq(E), Distinct(base)
    PROVE  LET list == Boxes!FoldLeft(Boxes!AddLast, base, s)
           IN  /\ list \in Seq(E) /\ Distinct(list)
               /\ ToSet(list) \subseteq ToSet(base) \cup ToSet(s)
<1>. DEFINE n == Len(s)
<1>1. n \in Nat /\ DOMAIN s = 1 .. n /\ \A i \in 1 .. n : s[i] \in E
  OBVIOUS
<1>2. PICK F \in [0 .. n -> Seq(E)] :
               /\ F[0] = base
               /\ \A k \in 0 .. n - 1 : F[k + 1] = Boxes!AddLast(F[k], s[k + 1])
               /\ Boxes!FoldLeft(Boxes!AddLast, base, s) = F[n]
  <2>1. PICK F \in [0 .. n -> Seq(E)] :
               Fills(F, base, s) /\ Boxes!FoldLeft(Boxes!AddLast, base, s) = F[n]
    BY <1>1, FoldLast
  <2>. QED BY <2>1 DEF Fills
<1>. DEFINE Good == {k \in 0 .. n : /\ Distinct(F[k])
                                    /\ ToSet(F[k]) \subseteq ToSet(base) \cup ToSet(s)}
<1>3. 0 \in Good
  BY <1>1, <1>2
<1>4. ASSUME NEW k \in 0 .. n - 1, k \in Good PROVE k + 1 \in Good
  <2>1. k \in 0 .. n /\ k + 1 \in 0 .. n /\ k + 1 \in 1 .. n /\ s[k + 1] \in E
        /\ s[k + 1] \in ToSet(s) /\ F[k] \in Seq(E)
    BY <1>1, <1>2 DEF ToSet
  <2>2. F[k + 1] = Boxes!AddLast(F[k], s[k + 1])
    BY <1>2
  <2>3. Distinct(F[k]) /\ ToSet(F[k]) \subseteq ToSet(base) \cup ToSet(s)
    BY <1>4
  <2>4. Distinct(F[k + 1]) /\ ToSet(F[k + 1]) \subseteq ToSet(F[k]) \cup {s[k + 1]}
    <3>. DEFINE f == F[k]
                x == s[k + 1]
    <3>1. f \in Seq(E) /\ x \in E /\ Distinct(f) /\ F[k + 1] = Boxes!AddLast(f, x)
      BY <2>1, <2>2, <2>3
    <3>. HIDE DEF f, x
    <3>2. Distinct(Boxes!AddLast(f, x)) /\ ToSet(Boxes!AddLast(f, x)) \subseteq ToSet(f) \cup {x}
      BY <3>1, AddLastIs
    <3>. QED BY <3>1, <3>2 DEF f, x
  <2>. QED BY <2>1, <2>3, <2>4
<1>5. n \in Good
  <2>1. 0 .. n \subseteq Good
    <3>. HIDE DEF Good
    <3>. QED BY <1>1, <1>3, <1>4, Induct
  <2>2. n \in 0 .. n
    BY <1>1
  <2>. HIDE DEF Good
  <2>. QED BY <2>1, <2>2
<1>. QED BY <1>1, <1>2, <1>5

(* An empty box filled with lines that are all different.                  *)
LEMMA FilledWithAll ==
    ASSUME NEW E, NEW s \in Seq(E), Distinct(s)
    PROVE  Boxes!FoldLeft(Boxes!AddLast, <<>>, s) = s
<1>. DEFINE n == Len(s)
            base == <<>>
<1>1. n \in Nat /\ DOMAIN s = 1 .. n /\ (\A i \in 1 .. n : s[i] \in E) /\ base \in Seq(E)
  OBVIOUS
<1>2. base = <<>> /\ Len(base) = 0
  OBVIOUS
<1>. HIDE DEF base
<1>3. PICK F \in [0 .. n -> Seq(E)] :
               /\ F[0] = base
               /\ \A k \in 0 .. n - 1 : F[k + 1] = Boxes!AddLast(F[k], s[k + 1])
               /\ Boxes!FoldLeft(Boxes!AddLast, base, s) = F[n]
  <2>1. PICK F \in [0 .. n -> Seq(E)] :
               Fills(F, base, s) /\ Boxes!FoldLeft(Boxes!AddLast, base, s) = F[n]
    BY <1>1, FoldLast
  <2>. QED BY <2>1 DEF Fills
<1>. DEFINE Good == {k \in 0 .. n : Len(F[k]) = k /\ \A i \in 1 .. k : F[k][i] = s[i]}
<1>4. 0 \in Good
  BY <1>1, <1>2, <1>3
<1>5. ASSUME NEW k \in 0 .. n - 1, k \in Good PROVE k + 1 \in Good
  <2>1. k \in 0 .. n /\ k + 1 \in 0 .. n /\ k + 1 \in 1 .. n /\ s[k + 1] \in E
        /\ F[k] \in Seq(E) /\ k \in Nat
    BY <1>1, <1>3
  <2>2. Len(F[k]) = k /\ DOMAIN F[k] = 1 .. k /\ \A i \in 1 .. k : F[k][i] = s[i]
    BY <1>5, <2>1
  <2>3. s[k + 1] \notin ToSet(F[k])
    <3>1. ASSUME NEW i \in 1 .. k PROVE s[i] # s[k + 1]
      <4>1. i \in 1 .. n /\ i # k + 1
        BY <1>1
      <4>. QED BY <1>1, <2>1, <4>1 DEF Distinct
    <3>. QED BY <2>2, <3>1 DEF ToSet
  <2>4. F[k + 1] = Append(F[k], s[k + 1])
    BY <1>3, <2>3, SetOfList DEF Boxes!AddLast
  <2>5. Len(F[k + 1]) = k + 1 /\ \A i \in 1 .. k + 1 : F[k + 1][i] = s[i]
    <3>. DEFINE f == F[k]
                x == s[k + 1]
    <3>1. f \in Seq(E) /\ Len(f) = k /\ F[k + 1] = Append(f, x) /\ \A i \in 1 .. k : f[i] = s[i]
      BY <2>1, <2>2, <2>4
    <3>. HIDE DEF f, x
    <3>2. Len(Append(f, x)) = k + 1 /\ Append(f, x)[k + 1] = x
          /\ \A i \in 1 .. k : Append(f, x)[i] = f[i]
      BY <2>1, <3>1
    <3>3. \A i \in 1 .. k + 1 : i \in 1 .. k \/ i = k + 1
      BY <2>1
    <3>. QED BY <3>1, <3>2, <3>3 DEF x
  <2>. QED BY <2>1, <2>5
<1>6. n \in Good
  <2>1. 0 .. n \subseteq Good
    <3>. HIDE DEF Good
    <3>. QED BY <1>1, <1>4, <1>5, Induct
  <2>2. n \in 0 .. n
    BY <1>1
  <2>. HIDE DEF Good
  <2>. QED BY <2>1, <2>2
<1>7. F[n] = s
  <2>. DEFINE f == F[n]
  <2>1. f \in Seq(E) /\ Len(f) = n /\ \A i \in 1 .. n : f[i] = s[i]
    BY <1>1, <1>3, <1>6
  <2>. HIDE DEF f
  <2>2. f = s
    BY <2>1, SameItems
  <2>. QED BY <2>2 DEF f
<1>. QED BY <1>2, <1>3, <1>7

Rows == [tag : BoxTags \cup {Boxes!None}, number : Nat, selection : Nat,
         text : Texts \cup {Boxes!None, "cut", "cut@", "joined"}]
HasHeading(s, tag) == \E j \in DOMAIN s : s[j].tag = tag
FirstHeading(s, tag, h) ==
    h \in DOMAIN s /\ s[h].tag = tag /\ \A j \in 1 .. h - 1 : s[j].tag # tag
(* The first section of a tag in the file s has the list and the selection *)
(* f says and, if f says it is whole, all of the list, in the first w      *)
(* lines.                                                                  *)
Known(s, w, tag, f) ==
    \E list \in Seq(Rows), k \in Nat, b \in BOOLEAN, h \in Nat :
        /\ f = <<list, k, b>> /\ k \in 1 .. Len(list) /\ Distinct(list)
        /\ FirstHeading(s, tag, h) /\ s[h].number = Len(list) /\ s[h].selection = k
        /\ b => h + Len(list) <= w /\ \A i \in 1 .. Len(list) : s[h + i] = list[i]
AsFirst(list, k, shown, chosen) ==
    /\ shown = SubSeq(list, 1, Boxes!Least(Len(list), COMBO_LIST_MAX))
    /\ k <= COMBO_LIST_MAX => chosen = k

(* The lines of the file but for one that is cut off: nothing is ever      *)
(* joined to these.                                                        *)
Ended == IF tail = Boxes!None THEN Len(sections) ELSE Len(sections) - 1
InALine == {"text", "at", "number"}
SectionsTyped ==
    /\ sections \in Seq(Rows) /\ lists \in [BoxTags -> Seq(Rows)]
    /\ DOMAIN selected = BoxTags /\ DOMAIN first = BoxTags
    /\ tail \in InALine \cup {Boxes!None, "heading"}
    /\ tail # Boxes!None => Len(sections) > 0
    /\ tail \in InALine => sections[Len(sections)].tag = Boxes!None
SectionsKnown ==
    \A tag \in BoxTags : IF first[tag] = <<>> THEN ~HasHeading(sections, tag)
                         ELSE Known(sections, Ended, tag, first[tag])
(* A heading a box was filled with is one of the file.                     *)
ListsKnown ==
    \A tag \in BoxTags :
        /\ Distinct(lists[tag])
        /\ \A i \in DOMAIN lists[tag] :
               lists[tag][i].tag = Boxes!None \/ HasHeading(sections, lists[tag][i].tag)
FilledKnown ==
    \A tag \in filled :
        /\ tag \in BoxTags /\ first[tag] # <<>>
        /\ first[tag][3] => 
               AsFirst(first[tag][1], first[tag][2], lists[tag], selected[tag])
SectionsInv == SectionsTyped /\ SectionsKnown /\ ListsKnown /\ FilledKnown

(* The file s goes on as t: behind its first w lines there is at most one, *)
(* and if that is a heading it stays.                                      *)
GoesOn(s, w, t) ==
    /\ w <= Len(s) /\ Len(s) <= w + 1 /\ Len(s) <= Len(t)
    /\ \A i \in 1 .. w : t[i] = s[i]
    /\ \A i \in w + 1 .. Len(s) : s[i].tag # Boxes!None => t[i] = s[i]

LEMMA HeadingsStay ==
    ASSUME NEW s \in Seq(Rows), NEW t \in Seq(Rows), NEW w \in Nat, GoesOn(s, w, t),
           NEW tag, tag # Boxes!None
    PROVE  /\ HasHeading(s, tag) => HasHeading(t, tag)
           /\ \A h : FirstHeading(s, tag, h) =>
                  FirstHeading(t, tag, h) /\ h \in DOMAIN s /\ t[h] = s[h]
<1>. DEFINE n == Len(s)
            m == Len(t)
<1>1. /\ n \in Nat /\ m \in Nat /\ DOMAIN s = 1 .. n /\ DOMAIN t = 1 .. m
      /\ w <= n /\ n <= w + 1 /\ n <= m
      /\ (\A i \in 1 .. w : t[i] = s[i]) /\ \A i \in w + 1 .. n : s[i].tag # Boxes!None => t[i] = s[i]
  BY DEF GoesOn
<1>. HIDE DEF n, m
<1>2. ASSUME NEW i \in 1 .. n, s[i].tag = tag PROVE i \in 1 .. m /\ t[i] = s[i]
  <2>1. i \in 1 .. w \/ i \in w + 1 .. n
    BY <1>1
  <2>. QED BY <1>1, <1>2, <2>1
<1>3. HasHeading(s, tag) => HasHeading(t, tag)
  BY <1>1, <1>2 DEF HasHeading
<1>4. ASSUME NEW h, FirstHeading(s, tag, h)
      PROVE  FirstHeading(t, tag, h) /\ h \in DOMAIN s /\ t[h] = s[h]
  <2>1. h \in 1 .. n /\ s[h].tag = tag /\ t[h] = s[h] /\ h \in 1 .. m
    BY <1>1, <1>2, <1>4 DEF FirstHeading
  <2>2. ASSUME NEW j \in 1 .. h - 1 PROVE t[j].tag # tag
    <3>1. j \in 1 .. w
      BY <1>1, <2>1
    <3>2. t[j] = s[j]
      BY <1>1, <3>1
    <3>. QED BY <1>4, <3>2 DEF FirstHeading
  <2>. QED BY <1>1, <2>1, <2>2 DEF FirstHeading
<1>. QED BY <1>3, <1>4

LEMMA StillKnown ==
    ASSUME NEW s \in Seq(Rows), NEW t \in Seq(Rows), NEW w \in Nat, GoesOn(s, w, t),
           NEW v \in Nat, w <= v, NEW tag, tag # Boxes!None, NEW f, Known(s, w, tag, f)
    PROVE  Known(t, v, tag, f)
<1>1. PICK list \in Seq(Rows), k \in Nat, b \in BOOLEAN, h \in Nat :
        /\ f = <<list, k, b>> /\ k \in 1 .. Len(list) /\ Distinct(list)
        /\ FirstHeading(s, tag, h) /\ s[h].number = Len(list) /\ s[h].selection = k
        /\ b => h + Len(list) <= w /\ \A i \in 1 .. Len(list) : s[h + i] = list[i]
  BY DEF Known
<1>. DEFINE m == Len(list)
<1>2. FirstHeading(t, tag, h) /\ t[h] = s[h]
  BY <1>1, HeadingsStay
<1>3. ASSUME b PROVE h + m <= v /\ \A i \in 1 .. m : t[h + i] = list[i]
  <2>1. m \in Nat /\ h + m <= w /\ \A i \in 1 .. m : s[h + i] = list[i]
    BY <1>1, <1>3
  <2>. HIDE DEF m
  <2>2. \A i \in 1 .. m : h + i \in 1 .. w
    BY <2>1
  <2>3. \A i \in 1 .. w : t[i] = s[i]
    BY DEF GoesOn
  <2>4. h + m <= v
    BY <2>1
  <2>. QED BY <2>1, <2>2, <2>3, <2>4
<1>4. /\ f = <<list, k, b>> /\ k \in 1 .. Len(list) /\ Distinct(list)
      /\ FirstHeading(t, tag, h) /\ t[h].number = Len(list) /\ t[h].selection = k
      /\ b => h + Len(list) <= v /\ \A i \in 1 .. Len(list) : t[h + i] = list[i]
  BY <1>1, <1>2, <1>3
<1>. QED BY <1>4, Zenon DEF Known

(* The first section of a tag goes to the file, or its first lines.        *)
LEMMA NowKnown ==
    ASSUME NEW s \in Seq(Rows), NEW t \in Seq(Rows), NEW w \in Nat, GoesOn(s, w, t),
           NEW tag, tag # Boxes!None, ~HasHeading(s, tag), w < Len(t),
           NEW list \in Seq(Rows), Distinct(list), NEW k \in 1 .. Len(list),
           t[w + 1].tag = tag, t[w + 1].number = Len(list), t[w + 1].selection = k,
           NEW v \in Nat, NEW b \in BOOLEAN,
           b => w + 1 + Len(list) <= v /\ \A i \in 1 .. Len(list) : t[w + 1 + i] = list[i]
    PROVE  Known(t, v, tag, <<list, k, b>>)
<1>. DEFINE n == Len(s)
<1>1. /\ n \in Nat /\ w <= n /\ DOMAIN s = 1 .. n /\ DOMAIN t = 1 .. Len(t) /\ Len(t) \in Nat
      /\ \A i \in 1 .. w : t[i] = s[i]
  BY DEF GoesOn
<1>. HIDE DEF n
<1>2. FirstHeading(t, tag, w + 1)
  <2>1. w + 1 \in DOMAIN t
    BY <1>1
  <2>2. ASSUME NEW j \in 1 .. w + 1 - 1 PROVE t[j].tag # tag
    <3>1. j \in 1 .. w /\ j \in DOMAIN s
      BY <1>1
    <3>. QED BY <1>1, <3>1 DEF HasHeading
  <2>. QED BY <2>1, <2>2 DEF FirstHeading
<1>3. w + 1 \in Nat /\ k \in Nat
  OBVIOUS
<1>4. LET f == <<list, k, b>>
          h == w + 1
      IN  /\ f = <<list, k, b>> /\ k \in 1 .. Len(list) /\ Distinct(list)
          /\ FirstHeading(t, tag, h) /\ t[h].number = Len(list) /\ t[h].selection = k
          /\ b => h + Len(list) <= v /\ \A i \in 1 .. Len(list) : t[h + i] = list[i]
  BY <1>2
<1>. QED BY <1>3, <1>4, Zenon DEF Known

LEMMA FirstAddedLine ==
    ASSUME NEW list \in Seq(Rows), NEW l \in Rows, Distinct(list)
    PROVE  LET new == Boxes!AddFirst(list, l)
           IN  /\ new \in Seq(Rows) /\ Distinct(new)
               /\ \A i \in DOMAIN new : new[i] = l \/ \E j \in DOMAIN list : new[i] = list[j]
               /\ Boxes!PositionOf(l, new) \in 1 .. Len(new)
<1>. DEFINE a == <<l>> \o list
            n == Len(list)
            new == Boxes!AddFirst(list, l)
<1>1. CASE l \in ToSet(list)
  <2>1. new = list
    BY <1>1, SetOfList DEF Boxes!AddFirst
  <2>2. \E i \in DOMAIN list : list[i] = l
    BY <1>1 DEF ToSet
  <2>3. Boxes!PositionOf(l, list) \in DOMAIN list
    BY <2>2 DEF Boxes!PositionOf
  <2>4. DOMAIN list = 1 .. n
    OBVIOUS
  <2>. HIDE DEF new
  <2>. QED BY <2>1, <2>3, <2>4 DEF new
<1>2. CASE l \notin ToSet(list)
  <2>1. new = a
    BY <1>2, SetOfList DEF Boxes!AddFirst
  <2>2. /\ n \in Nat /\ a \in Seq(Rows) /\ Len(a) = n + 1 /\ a[1] = l
        /\ DOMAIN list = 1 .. n /\ DOMAIN a = 1 .. n + 1
        /\ \A i \in 1 .. n : a[i + 1] = list[i]
    OBVIOUS
  <2>. HIDE DEF a, n
  <2>3. ASSUME NEW i \in 1 .. n + 1, i # 1 PROVE i - 1 \in 1 .. n /\ a[i] = list[i - 1]
    <3>1. i - 1 \in 1 .. n /\ (i - 1) + 1 = i
      BY <2>2, <2>3
    <3>2. a[(i - 1) + 1] = list[i - 1]
      BY <2>2, <3>1
    <3>. QED BY <3>1, <3>2
  <2>4. \A i \in 1 .. n : list[i] # l
    BY <1>2, <2>2 DEF ToSet
  <2>5. Distinct(a)
    <3>1. ASSUME NEW i \in 1 .. n + 1, NEW j \in 1 .. n + 1, a[i] = a[j] PROVE i = j
      <4>1. CASE i # 1 /\ j # 1
        <5>1. i - 1 \in 1 .. n /\ j - 1 \in 1 .. n /\ list[i - 1] = list[j - 1]
          BY <2>3, <3>1, <4>1
        <5>2. i - 1 = j - 1
          BY <2>2, <5>1 DEF Distinct
        <5>. QED BY <5>2
      <4>2. CASE i = 1 \/ j = 1
        BY <2>2, <2>3, <2>4, <3>1, <4>2
      <4>. QED BY <4>1, <4>2
    <3>. QED BY <2>2, <3>1 DEF Distinct
  <2>6. \A i \in DOMAIN a : a[i] = l \/ \E j \in DOMAIN list : a[i] = list[j]
    BY <2>2, <2>3
  <2>7. 1 \in DOMAIN a /\ \E i \in DOMAIN a : a[i] = l
    <3>1. 1 \in DOMAIN a
      BY <2>2
    <3>. QED BY <2>2, <3>1
  <2>8. Boxes!PositionOf(l, a) \in DOMAIN a
    BY <2>7 DEF Boxes!PositionOf
  <2>. HIDE DEF new
  <2>. QED BY <2>1, <2>2, <2>5, <2>6, <2>8 DEF new
<1>. QED BY <1>1, <1>2

LEMMA NoneIs == Boxes!None \notin InALine \cup {"heading"}
BY Zenon DEF Boxes!None, InALine

LEMMA PieceIs ==
    ASSUME NEW l \in Rows, NEW how \in Boxes!CutAs(l)
    PROVE  /\ how \in InALine \cup {"heading"} /\ Boxes!Piece(l, how) \in Rows
           /\ Boxes!Piece(l, how).tag = IF how = "heading" THEN l.tag ELSE Boxes!None
           /\ how = "heading" => Boxes!Piece(l, how) = l
<1>1. how \in {"text", "at", "number", "heading"}
  BY DEF Boxes!CutAs
<1>2. \A t \in {"cut", "cut@"} : Boxes!Item(t) \in Rows /\ Boxes!Item(t).tag = Boxes!None
  BY DEF Boxes!Item, Rows
<1>3. CASE how = "text"
  BY <1>2, <1>3 DEF Boxes!Piece, InALine
<1>4. CASE how = "heading"
  BY <1>4 DEF Boxes!Piece, InALine
<1>5. CASE how \in {"at", "number"}
  <2>1. Boxes!Piece(l, how) = Boxes!Item("cut@")
    BY <1>5 DEF Boxes!Piece
  <2>. QED BY <1>2, <1>5, <2>1 DEF InALine
<1>. QED BY <1>1, <1>3, <1>4, <1>5

(* What the line cut off becomes.                                          *)
LEMMA JoinedIs ==
    ASSUME NEW last \in Rows, NEW l \in Rows, tail \in InALine \cup {"heading"},
           tail \in InALine => last.tag = Boxes!None
    PROVE  LET x == Boxes!Joined(last, l)
           IN  /\ x \in Rows
               /\ last.tag # Boxes!None => x = last
               /\ x.tag \in {Boxes!None, last.tag, l.tag}
               /\ tail = "text" => x.tag = l.tag
               /\ tail = "text" /\ l.tag # Boxes!None => x.number = l.number /\ x.selection = l.selection
               /\ tail # "text" => x.tag \in {Boxes!None, last.tag}
               /\ tail # "heading" /\ l.tag = Boxes!None => x.tag = Boxes!None
               /\ tail = "number" => x.tag = Boxes!None
<1>1. Boxes!Item("joined") \in Rows /\ Boxes!Item("joined").tag = Boxes!None
  BY DEF Boxes!Item, Rows
<1>2. CASE tail = "text" /\ l.tag # Boxes!None
  <2>1. Boxes!Joined(last, l) = [l EXCEPT !.text = "cut"]
    BY <1>2 DEF Boxes!Joined
  <2>2. /\ [l EXCEPT !.text = "cut"] \in Rows
        /\ [l EXCEPT !.text = "cut"].tag = l.tag
        /\ [l EXCEPT !.text = "cut"].number = l.number
        /\ [l EXCEPT !.text = "cut"].selection = l.selection
    BY DEF Rows
  <2>. QED BY <1>2, <2>1, <2>2 DEF InALine
<1>3. CASE tail = "at" /\ l.tag # Boxes!None
  <2>1. Boxes!Joined(last, l) = Boxes!Item("joined")
    BY <1>3 DEF Boxes!Joined
  <2>. QED BY <1>1, <1>3, <2>1 DEF InALine
<1>4. CASE tail \in {"text", "at"} /\ l.tag = Boxes!None
  <2>1. Boxes!Joined(last, l) = l
    BY <1>4 DEF Boxes!Joined
  <2>. QED BY <1>4, <2>1 DEF InALine
<1>5. CASE tail \in {"number", "heading"}
  <2>1. Boxes!Joined(last, l) = last
    BY <1>5 DEF Boxes!Joined
  <2>. QED BY <1>5, <2>1 DEF InALine
<1>. QED BY <1>2, <1>3, <1>4, <1>5 DEF InALine

LEMMA EndedIs ==
    ASSUME SectionsTyped
    PROVE  /\ Ended \in Nat /\ Len(sections) \in Nat
           /\ Ended <= Len(sections) /\ Len(sections) <= Ended + 1
           /\ tail = Boxes!None => Ended = Len(sections)
           /\ tail # Boxes!None => Ended + 1 = Len(sections)
<1>1. Len(sections) \in Nat
  BY DEF SectionsTyped
<1>. QED BY <1>1 DEF Ended, SectionsTyped

(* The file with some lines more, the first joined to the one cut off.     *)
LEMMA LinesWritten ==
    ASSUME SectionsTyped, NEW lines \in Seq(Rows), Len(lines) > 0
    PROVE  LET t == Boxes!Write(lines)
               x == t[Ended + 1]
           IN  /\ t \in Seq(Rows) /\ Len(t) = Ended + Len(lines)
               /\ GoesOn(sections, Ended, t)
               /\ \A i \in 2 .. Len(lines) : t[Ended + i] = lines[i]
               /\ x.tag = Boxes!None \/ HasHeading(sections, x.tag)
                  \/ (x.tag = lines[1].tag /\ tail \in {Boxes!None, "text"})
               /\ tail \in {Boxes!None, "text"} /\ lines[1].tag # Boxes!None =>
                      x.tag = lines[1].tag /\ x.number = lines[1].number
                      /\ x.selection = lines[1].selection
               /\ tail # "heading" /\ lines[1].tag = Boxes!None => x.tag = Boxes!None
               /\ tail = "number" => x.tag = Boxes!None
<1>. DEFINE n == Len(sections)
            m == Len(lines)
            t == Boxes!Write(lines)
<1>1. /\ Ended \in Nat /\ n \in Nat /\ Ended <= n /\ n <= Ended + 1
      /\ tail = Boxes!None => Ended = n
      /\ tail # Boxes!None => Ended + 1 = n
  BY EndedIs
<1>2. sections \in Seq(Rows) /\ m \in Nat /\ m > 0 /\ DOMAIN sections = 1 .. n /\ lines # <<>>
      /\ lines[1] \in Rows /\ 1 \in 1 .. m
  BY DEF SectionsTyped
<1>3. CASE tail = Boxes!None
  <2>1. t = sections \o lines
    BY <1>3 DEF Boxes!Write
  <2>2. /\ t \in Seq(Rows) /\ Len(t) = n + m
        /\ (\A i \in 1 .. n : t[i] = sections[i]) /\ \A i \in 1 .. m : t[n + i] = lines[i]
    BY <1>2, <2>1, Concatenated
  <2>. HIDE DEF t, n, m
  <2>3. t[Ended + 1] = lines[1] /\ \A i \in 2 .. m : t[Ended + i] = lines[i]
    BY <1>1, <1>2, <1>3, <2>2
  <2>4. GoesOn(sections, Ended, t)
    <3>1. Len(sections) <= Len(t) /\ ~ \E i \in Ended + 1 .. n : TRUE
      BY <1>1, <1>2, <1>3, <2>2 DEF n
    <3>. QED BY <1>1, <1>3, <2>2, <3>1 DEF GoesOn, n
  <2>5. Len(t) = Ended + m
    BY <1>1, <1>3, <2>2
  <2>6. tail # "number" /\ tail # "heading"
    BY <1>3, NoneIs DEF InALine
  <2>. QED BY <1>3, <2>2, <2>3, <2>4, <2>5, <2>6 DEF t, m
<1>4. CASE tail # Boxes!None
  <2>. DEFINE base == SubSeq(sections, 1, n - 1)
              last == sections[n]
              x == Boxes!Joined(last, lines[1])
              more == Tail(lines)
  <2>1. t = base \o <<x>> \o more
    BY <1>2, <1>4 DEF Boxes!Write, Boxes!Front, Boxes!Last
  <2>2. base \in Seq(Rows) /\ Len(base) = n - 1 /\ \A i \in 1 .. n - 1 : base[i] = sections[i]
    BY <1>1, <1>2, <1>4
  <2>3. more \in Seq(Rows) /\ Len(more) = m - 1 /\ \A i \in 1 .. m - 1 : more[i] = lines[i + 1]
    BY <1>2
  <2>4. n \in 1 .. n /\ last \in Rows /\ tail \in InALine \cup {"heading"}
        /\ (tail \in InALine => last.tag = Boxes!None)
    <3>1. n \in 1 .. n
      BY <1>1, <1>4
    <3>. QED BY <1>2, <1>4, <3>1 DEF SectionsTyped
  <2>5. /\ x \in Rows
        /\ last.tag # Boxes!None => x = last
        /\ x.tag \in {Boxes!None, last.tag, lines[1].tag}
        /\ tail = "text" => x.tag = lines[1].tag
        /\ tail = "text" /\ lines[1].tag # Boxes!None =>
               x.number = lines[1].number /\ x.selection = lines[1].selection
        /\ tail # "text" => x.tag \in {Boxes!None, last.tag}
        /\ tail # "heading" /\ lines[1].tag = Boxes!None => x.tag = Boxes!None
        /\ tail = "number" => x.tag = Boxes!None
    BY <1>2, <2>4, JoinedIs
  <2>. HIDE DEF base, x, more
  <2>6. /\ base \o <<x>> \in Seq(Rows) /\ Len(base \o <<x>>) = n
        /\ (\A i \in 1 .. n - 1 : (base \o <<x>>)[i] = base[i]) /\ (base \o <<x>>)[n] = x
    BY <1>1, <1>4, <2>2, <2>5
  <2>. DEFINE front == base \o <<x>>
  <2>. HIDE DEF front
  <2>7. /\ t \in Seq(Rows) /\ Len(t) = n + (m - 1)
        /\ (\A i \in 1 .. n : t[i] = front[i]) /\ \A i \in 1 .. m - 1 : t[n + i] = more[i]
    <3>1. front \in Seq(Rows) /\ Len(front) = n /\ t = front \o more
      BY <2>1, <2>6 DEF front
    <3>2. /\ front \o more \in Seq(Rows) /\ Len(front \o more) = Len(front) + Len(more)
          /\ (\A i \in 1 .. Len(front) : (front \o more)[i] = front[i])
          /\ \A i \in 1 .. Len(more) : (front \o more)[Len(front) + i] = more[i]
      BY <2>3, <3>1, Concatenated
    <3>. HIDE DEF t
    <3>. QED BY <2>3, <3>1, <3>2
  <2>. HIDE DEF t, m
  <2>8. t[Ended + 1] = x
    BY <1>1, <1>4, <2>4, <2>6, <2>7 DEF front
  <2>9. \A i \in 1 .. Ended : t[i] = sections[i]
    <3>1. ASSUME NEW i \in 1 .. Ended PROVE t[i] = sections[i]
      <4>1. i \in 1 .. n - 1 /\ i \in 1 .. n
        BY <1>1, <1>4
      <4>. QED BY <2>2, <2>6, <2>7, <4>1 DEF front
    <3>. QED BY <3>1
  <2>10. ASSUME NEW i \in 2 .. m PROVE t[Ended + i] = lines[i]
    <3>1. i - 1 \in 1 .. m - 1 /\ n + (i - 1) = Ended + i /\ (i - 1) + 1 = i
      BY <1>1, <1>2, <1>4
    <3>2. t[n + (i - 1)] = more[i - 1] /\ more[i - 1] = lines[(i - 1) + 1]
      BY <2>3, <2>7, <3>1 DEF m
    <3>. QED BY <3>1, <3>2
  <2>11. Len(t) = Ended + m /\ n <= Len(t)
    BY <1>1, <1>2, <1>4, <2>7
  <2>12. GoesOn(sections, Ended, t)
    <3>1. ASSUME NEW i \in Ended + 1 .. n, sections[i].tag # Boxes!None PROVE t[i] = sections[i]
      <4>1. i = n /\ i = Ended + 1
        BY <1>1, <1>4
      <4>. QED BY <2>5, <2>8, <3>1, <4>1
    <3>. QED BY <1>1, <2>9, <2>11, <3>1 DEF GoesOn, n
  <2>13. x.tag = Boxes!None \/ HasHeading(sections, x.tag)
         \/ (x.tag = lines[1].tag /\ tail \in {Boxes!None, "text"})
    <3>1. CASE tail = "text"
      BY <2>5, <3>1
    <3>2. CASE tail # "text"
      BY <1>2, <2>4, <2>5, <3>2 DEF HasHeading
    <3>. QED BY <3>1, <3>2
  <2>14. tail \in {Boxes!None, "text"} /\ lines[1].tag # Boxes!None =>
             x.tag = lines[1].tag /\ x.number = lines[1].number
             /\ x.selection = lines[1].selection
    BY <1>4, <2>5
  <2>. QED BY <2>5, <2>7, <2>8, <2>10, <2>11, <2>12, <2>13, <2>14 DEF t, m
<1>. QED BY <1>3, <1>4

(* Lines that are the first n of a section of tag, and a piece of the next *)
(* if that is cut off.                                                     *)
SectionLines(lines, tag, m, k, n, how) ==
    /\ lines \in Seq(Rows) /\ how \in InALine \cup {Boxes!None, "heading"}
    /\ Len(lines) = IF how = Boxes!None THEN n ELSE n + 1
    /\ n > 0 \/ how = "heading" =>
           lines[1].tag = tag /\ lines[1].number = m /\ lines[1].selection = k
    /\ n = 0 /\ how \in InALine => lines[1].tag = Boxes!None
    /\ how \in InALine => lines[Len(lines)].tag = Boxes!None

(* A cut that a section of m + 1 lines allows after n of them.             *)
CutFits(section, m, n, how) ==
    how # Boxes!None => n # m + 1 /\ how \in Boxes!CutAs(section[n + 1])

(* The lines that are then in the file.                                    *)
LinesOf(section, n, how) ==
    SubSeq(section, 1, n)
      \o (IF how = Boxes!None THEN <<>> ELSE <<Boxes!Piece(section[n + 1], how)>>)

(* They are lines of a section with the items of list.                     *)
LinesOfList(lines, tag, list, k, n, how) ==
    /\ SectionLines(lines, tag, Len(list), k, n, how)
    /\ \A i \in 2 .. Len(lines) :
           lines[i].tag = Boxes!None \/ \E j \in 1 .. Len(list) : lines[i].tag = list[j].tag
    /\ \A i \in 2 .. n : lines[i] = list[i - 1]

LEMMA LinesSaved ==
    ASSUME NEW tag \in BoxTags, NEW list \in Seq(Rows), NEW k \in 1 .. Len(list),
           NEW n \in 0 .. Len(list) + 1, NEW how,
           NEW section, section = Boxes!Section(tag, list, k),
           CutFits(section, Len(list), n, how),
           NEW lines, lines = LinesOf(section, n, how)
    PROVE  LinesOfList(lines, tag, list, k, n, how)
<1>. DEFINE head == Boxes!Heading(tag, list, k)
            m == Len(list)
            whole == SubSeq(section, 1, n)
            rest == IF how = Boxes!None THEN <<>> ELSE <<Boxes!Piece(section[n + 1], how)>>
<1>1. head \in Rows /\ head.tag = tag /\ head.number = m /\ head.selection = k
  <2>1. Len(list) \in Nat /\ k \in Nat /\ tag \in BoxTags \cup {Boxes!None}
    OBVIOUS
  <2>. QED BY <2>1 DEF Boxes!Heading, Rows
<1>2. section = <<head>> \o list
  BY DEF Boxes!Section
<1>. HIDE DEF head
<1>3. /\ section \in Seq(Rows) /\ Len(section) = m + 1 /\ section[1] = head
      /\ \A i \in 1 .. m : section[i + 1] = list[i]
  BY <1>1, <1>2
<1>4. m \in Nat /\ n \in Nat /\ n <= m + 1
  OBVIOUS
<1>5. whole \in Seq(Rows) /\ Len(whole) = n /\ \A i \in 1 .. n : whole[i] = section[i]
  BY <1>3, <1>4
<1>6. ASSUME how # Boxes!None
      PROVE  LET p == Boxes!Piece(section[n + 1], how)
             IN  /\ n < m + 1 /\ how \in InALine \cup {"heading"} /\ p \in Rows
                 /\ p.tag = IF how = "heading" THEN section[n + 1].tag ELSE Boxes!None
                 /\ how = "heading" => p = section[n + 1]
  <2>1. n < m + 1 /\ how \in Boxes!CutAs(section[n + 1])
    BY <1>4, <1>6 DEF CutFits
  <2>2. n + 1 \in 1 .. m + 1
    BY <1>4, <2>1
  <2>3. section[n + 1] \in Rows
    BY <1>3, <2>2
  <2>. QED BY <2>1, <2>3, PieceIs
<1>7. how \in InALine \cup {Boxes!None, "heading"}
  BY <1>6
<1>8. rest \in Seq(Rows) /\ (how = Boxes!None => Len(rest) = 0)
      /\ (how # Boxes!None => Len(rest) = 1 /\ rest[1] = Boxes!Piece(section[n + 1], how))
  BY <1>6
<1>. HIDE DEF whole, rest, m
<1>9. /\ lines \in Seq(Rows) /\ Len(lines) = Len(whole) + Len(rest)
      /\ (\A i \in 1 .. Len(whole) : lines[i] = whole[i])
      /\ \A i \in 1 .. Len(rest) : lines[Len(whole) + i] = rest[i]
  <2>1. lines = whole \o rest
    BY DEF whole, rest, LinesOf
  <2>2. whole \in Seq(Rows) /\ rest \in Seq(Rows)
    BY <1>5, <1>8
  <2>3. /\ whole \o rest \in Seq(Rows) /\ Len(whole \o rest) = Len(whole) + Len(rest)
        /\ (\A i \in 1 .. Len(whole) : (whole \o rest)[i] = whole[i])
        /\ \A i \in 1 .. Len(rest) : (whole \o rest)[Len(whole) + i] = rest[i]
    BY <2>2, Concatenated
  <2>. QED BY <2>1, <2>3
<1>10. Len(lines) = IF how = Boxes!None THEN n ELSE n + 1
  <2>1. Len(lines) = n + Len(rest)
    BY <1>5, <1>9
  <2>2. CASE how = Boxes!None
    <3>1. Len(rest) = 0
      BY <1>8, <2>2
    <3>. QED BY <1>4, <2>1, <2>2, <3>1
  <2>3. CASE how # Boxes!None
    <3>1. Len(rest) = 1
      BY <1>8, <2>3
    <3>. QED BY <2>1, <2>3, <3>1
  <2>. QED BY <2>2, <2>3
<1>11. \A i \in 1 .. n : lines[i] = section[i]
  BY <1>5, <1>9
<1>12. how # Boxes!None => lines[n + 1] = Boxes!Piece(section[n + 1], how)
  <2>. SUFFICES ASSUME how # Boxes!None PROVE lines[n + 1] = rest[1]
    BY <1>8
  <2>1. Len(rest) = 1 /\ Len(whole) = n
    BY <1>5, <1>8
  <2>. QED BY <1>9, <2>1
<1>13. ASSUME NEW i \in 1 .. m + 1, i # 1 PROVE i - 1 \in 1 .. m /\ section[i] = list[i - 1]
  <2>1. i - 1 \in 1 .. m /\ (i - 1) + 1 = i
    BY <1>4, <1>13
  <2>2. section[(i - 1) + 1] = list[i - 1]
    BY <1>3, <2>1
  <2>. QED BY <2>1, <2>2
<1>14. n > 0 \/ how = "heading" => lines[1] = head
  <2>1. CASE n > 0
    <3>1. 1 \in 1 .. n
      BY <1>4, <2>1
    <3>. QED BY <1>3, <1>11, <3>1
  <2>2. CASE n = 0 /\ how = "heading"
    <3>1. how # Boxes!None
      BY <2>2, NoneIs DEF InALine
    <3>2. lines[n + 1] = Boxes!Piece(section[n + 1], how)
      BY <1>12, <3>1
    <3>3. Boxes!Piece(section[n + 1], how) = section[n + 1]
      BY <1>6, <2>2, <3>1
    <3>4. n + 1 = 1
      BY <2>2
    <3>5. lines[1] = section[1]
      BY <3>2, <3>3, <3>4
    <3>. QED BY <1>3, <3>5
  <2>3. n > 0 \/ n = 0
    BY <1>4
  <2>. QED BY <2>1, <2>2, <2>3, Zenon
<1>15. how \in InALine => lines[n + 1].tag = Boxes!None
  <2>1. how \in InALine => how # Boxes!None /\ how # "heading"
    BY NoneIs DEF InALine
  <2>. QED BY <1>6, <1>12, <2>1
<1>16. ASSUME NEW i \in 2 .. Len(lines)
       PROVE  lines[i].tag = Boxes!None \/ \E j \in 1 .. m : lines[i].tag = list[j].tag
  <2>1. CASE i <= n
    <3>1. i \in 1 .. n /\ i \in 1 .. m + 1 /\ i # 1
      BY <1>4, <2>1
    <3>. QED BY <1>11, <1>13, <3>1
  <2>2. CASE i > n
    <3>1. i = n + 1 /\ how # Boxes!None
      BY <1>4, <1>10, <2>2
    <3>2. i \in 1 .. m + 1 /\ i # 1
      BY <1>4, <1>6, <3>1
    <3>3. lines[i].tag = IF how = "heading" THEN section[i].tag ELSE Boxes!None
      BY <1>6, <1>12, <3>1
    <3>. QED BY <1>13, <3>2, <3>3
  <2>. QED BY <1>4, <2>1, <2>2
<1>17. ASSUME NEW i \in 2 .. n PROVE lines[i] = list[i - 1]
  <2>1. i \in 1 .. n /\ i \in 1 .. m + 1 /\ i # 1
    BY <1>4
  <2>. QED BY <1>11, <1>13, <2>1
<1>18. how \in InALine => lines[Len(lines)].tag = Boxes!None
  <2>1. how \in InALine => how # Boxes!None
    BY NoneIs
  <2>2. how # Boxes!None => Len(lines) = n + 1
    BY <1>10
  <2>. QED BY <1>15, <2>1, <2>2, Zenon
<1>19. n = 0 /\ how \in InALine => lines[1].tag = Boxes!None
  <2>. SUFFICES ASSUME n = 0, how \in InALine PROVE lines[1].tag = Boxes!None
    OBVIOUS
  <2>1. n + 1 = 1
    OBVIOUS
  <2>. QED BY <1>15, <2>1
<1>20. n > 0 \/ how = "heading" =>
           lines[1].tag = tag /\ lines[1].number = m /\ lines[1].selection = k
  BY <1>1, <1>14
<1>21. SectionLines(lines, tag, m, k, n, how)
  BY <1>7, <1>9, <1>10, <1>18, <1>19, <1>20 DEF SectionLines
<1>. QED BY <1>16, <1>17, <1>21 DEF m, LinesOfList

(* How the file goes on when lines are written that are a section of tag,  *)
(* or its beginning, or nothing.                                           *)
LEMMA FileGoesOn ==
    ASSUME SectionsTyped, NEW tag, tag # Boxes!None, NEW k, NEW m \in Nat,
           NEW n \in Nat, NEW how, NEW lines, SectionLines(lines, tag, m, k, n, how),
           \A i \in 2 .. Len(lines) :
               lines[i].tag = Boxes!None \/ HasHeading(sections, lines[i].tag),
           sections' = Boxes!Write(lines),
           tail' = (IF n = 0 /\ (how = Boxes!None \/ tail \in {"number", "heading"}) THEN tail ELSE how)
    PROVE  LET read == (n > 0 \/ how = "heading") /\ tail \in {Boxes!None, "text"}
           IN  /\ sections' \in Seq(Rows) /\ tail' \in InALine \cup {Boxes!None, "heading"}
               /\ tail' # Boxes!None => Len(sections') > 0
               /\ tail' \in InALine => sections'[Len(sections')].tag = Boxes!None
               /\ GoesOn(sections, Ended, sections') /\ Ended' \in Nat /\ Ended <= Ended'
               /\ \A u : u # Boxes!None /\ HasHeading(sections', u) =>
                      HasHeading(sections, u) \/ (read /\ u = tag)
               /\ read => /\ Ended < Len(sections') /\ sections'[Ended + 1].tag = tag
                          /\ sections'[Ended + 1].number = m
                          /\ sections'[Ended + 1].selection = k
               /\ \A i \in 2 .. Len(lines) : sections'[Ended + i] = lines[i]
               /\ how = Boxes!None /\ n > 0 => Ended' = Ended + n
<1>. DEFINE l == Len(lines)
            t == sections'
            read == (n > 0 \/ how = "heading") /\ tail \in {Boxes!None, "text"}
<1>3. /\ lines \in Seq(Rows) /\ how \in InALine \cup {Boxes!None, "heading"}
      /\ l = IF how = Boxes!None THEN n ELSE n + 1
      /\ n > 0 \/ how = "heading" =>
             lines[1].tag = tag /\ lines[1].number = m /\ lines[1].selection = k
      /\ n = 0 /\ how \in InALine => lines[1].tag = Boxes!None
      /\ how \in InALine => lines[l].tag = Boxes!None
  BY DEF SectionLines
<1>4. l \in Nat
  BY <1>3
<1>5. tail' = IF n = 0 /\ (how = Boxes!None \/ tail \in {"number", "heading"}) THEN tail ELSE how
  OBVIOUS
<1>0. l \in Nat /\ Ended \in Nat /\ Len(sections) \in Nat /\ sections \in Seq(Rows)
      /\ Ended <= Len(sections) /\ Len(sections) <= Ended + 1
      /\ tail \in InALine \cup {Boxes!None, "heading"}
      /\ (tail # Boxes!None => Len(sections) > 0)
      /\ (tail \in InALine => sections[Len(sections)].tag = Boxes!None)
  BY <1>4, EndedIs DEF SectionsTyped
<1>1. CASE l = 0
  <2>1. n = 0 /\ how = Boxes!None /\ how # "heading" /\ lines = <<>>
    BY <1>1, <1>3, NoneIs
  <2>2. t = sections /\ tail' = tail
    <3>1. Boxes!Write(lines) = sections \o <<>>
      BY <2>1 DEF Boxes!Write
    <3>. QED BY <1>0, <2>1, <3>1
  <2>3. Ended' = Ended
    BY <2>2 DEF Ended
  <2>4. GoesOn(sections, Ended, t)
    BY <1>0, <2>2 DEF GoesOn
  <2>. QED BY <1>0, <1>1, <2>1, <2>2, <2>3, <2>4
<1>2. CASE l > 0
  <2>. DEFINE x == t[Ended + 1]
  <2>1. /\ t \in Seq(Rows) /\ Len(t) = Ended + l
        /\ GoesOn(sections, Ended, t)
        /\ \A i \in 2 .. l : t[Ended + i] = lines[i]
        /\ x.tag = Boxes!None \/ HasHeading(sections, x.tag)
           \/ (x.tag = lines[1].tag /\ tail \in {Boxes!None, "text"})
        /\ tail \in {Boxes!None, "text"} /\ lines[1].tag # Boxes!None =>
               x.tag = lines[1].tag /\ x.number = lines[1].number
               /\ x.selection = lines[1].selection
        /\ tail # "heading" /\ lines[1].tag = Boxes!None => x.tag = Boxes!None
        /\ tail = "number" => x.tag = Boxes!None
    <3>1. SectionsTyped /\ lines \in Seq(Rows) /\ Len(lines) > 0
      BY <1>2, <1>3
    <3>. QED BY <3>1, LinesWritten
  <2>. HIDE DEF l, x
  <2>2. tail' \in InALine \cup {Boxes!None, "heading"} /\ Len(t) > 0
    BY <1>0, <1>2, <1>3, <1>5, <2>1
  <2>3. ASSUME tail' \in InALine PROVE t[Len(t)].tag = Boxes!None
    <3>1. CASE l = 1
      <4>1. n = 0 /\ tail' # Boxes!None /\ how # Boxes!None /\ t[Len(t)] = x
        <5>1. how = Boxes!None => n = 1 /\ tail' = Boxes!None
          BY <1>3, <1>5, <3>1
        <5>2. tail' # Boxes!None
          BY <2>3, NoneIs
        <5>3. n = 0 /\ how # Boxes!None
          BY <1>3, <3>1, <5>1, <5>2
        <5>4. Len(t) = Ended + 1
          BY <2>1, <3>1
        <5>. QED BY <5>2, <5>3, <5>4 DEF x
      <4>2. CASE tail = "number"
        BY <2>1, <4>1, <4>2
      <4>3. CASE tail # "number"
        <5>1. tail # "heading" /\ how \in InALine
          BY <1>5, <2>3, <4>1, <4>3, NoneIs DEF InALine
        <5>. QED BY <1>3, <2>1, <4>1, <5>1
      <4>. QED BY <4>2, <4>3
    <3>2. CASE l # 1
      <4>1. l \in 2 .. l
        BY <1>0, <1>2, <3>2
      <4>2. t[Len(t)] = lines[l]
        BY <2>1, <4>1
      <4>3. n > 0
        BY <1>2, <1>3, <3>2
      <4>4. how \in InALine
        BY <1>5, <2>3, <4>3
      <4>. QED BY <1>3, <4>2, <4>4
    <3>. QED BY <3>1, <3>2
  <2>4. Ended' = IF tail' = Boxes!None THEN Len(t) ELSE Len(t) - 1
    BY DEF Ended
  <2>5. Ended' \in Nat /\ Ended <= Ended'
    BY <1>0, <1>2, <2>1, <2>4
  <2>6. ASSUME NEW u, u # Boxes!None, HasHeading(t, u)
        PROVE  HasHeading(sections, u) \/ (read /\ u = tag)
    <3>1. PICK j \in 1 .. Len(t) : t[j].tag = u
      BY <2>1, <2>6 DEF HasHeading
    <3>2. CASE j <= Ended
      <4>1. j \in 1 .. Ended /\ j \in DOMAIN sections
        BY <1>0, <2>1, <3>2
      <4>2. t[j] = sections[j]
        BY <2>1, <4>1 DEF GoesOn
      <4>. QED BY <3>1, <4>1, <4>2 DEF HasHeading
    <3>3. CASE j = Ended + 1
      <4>1. x.tag = u
        BY <3>1, <3>3 DEF x
      <4>2. HasHeading(sections, u) \/ (lines[1].tag = u /\ tail \in {Boxes!None, "text"})
        BY <2>1, <2>6, <4>1
      <4>3. ASSUME lines[1].tag = u PROVE (n > 0 \/ how = "heading") /\ u = tag
        <5>1. n > 0 \/ how = "heading" \/ (n = 0 /\ how \in InALine)
          BY <1>2, <1>3
        <5>. QED BY <1>3, <2>6, <4>3, <5>1
      <4>. QED BY <4>2, <4>3
    <3>4. CASE j > Ended + 1
      <4>1. j - Ended \in 2 .. l /\ Ended + (j - Ended) = j
        BY <1>0, <2>1, <3>4
      <4>2. t[j] = lines[j - Ended]
        BY <2>1, <4>1
      <4>. QED BY <2>6, <3>1, <4>1, <4>2 DEF l
    <3>. QED BY <1>0, <2>1, <3>2, <3>3, <3>4
  <2>7. ASSUME read
        PROVE  Ended < Len(t) /\ x.tag = tag /\ x.number = m /\ x.selection = k
    BY <1>0, <1>2, <1>3, <2>1, <2>7
  <2>8. ASSUME how = Boxes!None, n > 0 PROVE Ended' = Ended + n
    BY <1>0, <1>3, <1>5, <2>1, <2>4, <2>8
  <2>. QED BY <2>1, <2>2, <2>3, <2>5, <2>6, <2>7, <2>8 DEF l, x
<1>. QED BY <1>0, <1>1, <1>2

LEMMA SaveKeeps ==
    ASSUME SectionsInv, NEW tag \in BoxTags, NEW t \in Texts, NEW n, NEW how,
           Boxes!Save_Combo_To_File(tag, t, n, how)
    PROVE  SectionsInv'
<1>. USE DEF SectionsInv
<1>. DEFINE item == Boxes!Item(t)
            list == Boxes!AddFirst(lists[tag], item)
            k == Boxes!PositionOf(item, list)
            section == Boxes!Section(tag, list, k)
            new == LinesOf(section, n, how)
            m == Len(list)
            read == (n > 0 \/ how = "heading") /\ tail \in {Boxes!None, "text"}
<1>1. /\ n \in 0 .. Len(section) /\ sections' = Boxes!Write(new)
      /\ how # Boxes!None => n # Len(section) /\ how \in Boxes!CutAs(section[n + 1])
      /\ tail' = IF n = 0 /\ (how = Boxes!None \/ tail \in {"number", "heading"}) THEN tail ELSE how
      /\ lists' = [lists EXCEPT ![tag] = list]
      /\ first' = IF first[tag] = <<>> /\ (n > 0 \/ how = "heading") /\ tail \in {Boxes!None, "text"}
                  THEN [first EXCEPT ![tag] = <<list, k, n = Len(section)>>] ELSE first
      /\ filled' = filled \ {tag} /\ selected' = selected
  BY DEF Boxes!Save_Combo_To_File, LinesOf
<1>2. item \in Rows /\ item.tag = Boxes!None
  BY DEF Boxes!Item, Rows
<1>3. /\ sections \in Seq(Rows) /\ lists \in [BoxTags -> Seq(Rows)] /\ lists[tag] \in Seq(Rows)
      /\ Distinct(lists[tag])
  BY DEF SectionsTyped, ListsKnown
<1>. HIDE DEF item
<1>4. /\ list \in Seq(Rows) /\ Distinct(list) /\ k \in 1 .. m /\ m \in Nat
      /\ \A i \in DOMAIN list : list[i] = item \/ \E j \in DOMAIN lists[tag] : list[i] = lists[tag][j]
  <2>1. /\ list \in Seq(Rows) /\ Distinct(list) /\ k \in 1 .. Len(list)
        /\ \A i \in DOMAIN list :
               list[i] = item \/ \E j \in DOMAIN lists[tag] : list[i] = lists[tag][j]
    BY <1>2, <1>3, FirstAddedLine
  <2>. HIDE DEF list, k
  <2>. QED BY <2>1
<1>. HIDE DEF list, k
<1>5. ASSUME NEW i \in DOMAIN list
      PROVE  list[i].tag = Boxes!None \/ HasHeading(sections, list[i].tag)
  <2>1. CASE list[i] = item
    BY <1>2, <2>1
  <2>2. CASE \E j \in DOMAIN lists[tag] : list[i] = lists[tag][j]
    <3>1. \A j \in DOMAIN lists[tag] :
            lists[tag][j].tag = Boxes!None \/ HasHeading(sections, lists[tag][j].tag)
      BY DEF ListsKnown
    <3>. QED BY <2>2, <3>1
  <2>. QED BY <1>4, <2>1, <2>2
<1>6. Len(section) = m + 1
  <2>1. section = <<Boxes!Heading(tag, list, k)>> \o list
    BY DEF Boxes!Section
  <2>. QED BY <1>4, <2>1
<1>7. n \in 0 .. m + 1 /\ n \in Nat /\ DOMAIN list = 1 .. m /\ tag # Boxes!None
  BY <1>1, <1>4, <1>6, PhutilsAssumption
<1>8. /\ SectionLines(new, tag, m, k, n, how)
      /\ \A i \in 2 .. Len(new) :
             new[i].tag = Boxes!None \/ \E j \in 1 .. m : new[i].tag = list[j].tag
      /\ \A i \in 2 .. n : new[i] = list[i - 1]
  <2>1. list \in Seq(Rows) /\ k \in 1 .. Len(list) /\ n \in 0 .. Len(list) + 1
    BY <1>4, <1>7
  <2>2. section = Boxes!Section(tag, list, k) /\ new = LinesOf(section, n, how)
    OBVIOUS
  <2>3. how # Boxes!None => n # Len(section) /\ how \in Boxes!CutAs(section[n + 1])
    BY <1>1
  <2>. HIDE DEF new, section
  <2>4. CutFits(section, Len(list), n, how)
    <3>1. Len(section) = Len(list) + 1
      BY <1>6
    <3>. QED BY <2>3, <3>1 DEF CutFits
  <2>5. LinesOfList(new, tag, list, k, n, how)
    <3>. HIDE DEF list, k, m
    <3>. QED BY <2>1, <2>2, <2>4, LinesSaved
  <2>. QED BY <2>5 DEF LinesOfList
<1>9. \A i \in 2 .. Len(new) : new[i].tag = Boxes!None \/ HasHeading(sections, new[i].tag)
  BY <1>5, <1>7, <1>8
<1>. HIDE DEF new, section, m
<1>10. /\ sections' \in Seq(Rows) /\ tail' \in InALine \cup {Boxes!None, "heading"}
       /\ tail' # Boxes!None => Len(sections') > 0
       /\ tail' \in InALine => sections'[Len(sections')].tag = Boxes!None
       /\ GoesOn(sections, Ended, sections') /\ Ended' \in Nat /\ Ended <= Ended'
       /\ \A u : u # Boxes!None /\ HasHeading(sections', u) =>
              HasHeading(sections, u) \/ (read /\ u = tag)
       /\ read => /\ Ended < Len(sections') /\ sections'[Ended + 1].tag = tag
                  /\ sections'[Ended + 1].number = m
                  /\ sections'[Ended + 1].selection = k
       /\ \A i \in 2 .. Len(new) : sections'[Ended + i] = new[i]
       /\ how = Boxes!None /\ n > 0 => Ended' = Ended + n
  <2>1. SectionsTyped /\ m \in Nat /\ n \in Nat /\ tag # Boxes!None
    BY <1>4, <1>7
  <2>2. /\ sections' = Boxes!Write(new)
        /\ tail' = IF n = 0 /\ (how = Boxes!None \/ tail \in {"number", "heading"})
                   THEN tail ELSE how
    BY <1>1
  <2>. QED BY <1>8, <1>9, <2>1, <2>2, FileGoesOn
<1>11. Ended \in Nat
  BY EndedIs
<1>12. \A u : u # Boxes!None /\ HasHeading(sections, u) => HasHeading(sections', u)
  BY <1>3, <1>10, <1>11, HeadingsStay
<1>13. SectionsTyped'
  BY <1>1, <1>3, <1>4, <1>10 DEF SectionsTyped
<1>14. ASSUME NEW u \in BoxTags
       PROVE  IF first'[u] = <<>> THEN ~HasHeading(sections', u)
              ELSE Known(sections', Ended', u, first'[u])
  <2>0. u # Boxes!None
    BY PhutilsAssumption
  <2>1. CASE first[u] # <<>>
    <3>1. first'[u] = first[u]
      BY <1>1, <2>1
    <3>2. Known(sections, Ended, u, first[u])
      BY <2>1 DEF SectionsKnown
    <3>3. Known(sections', Ended', u, first[u])
      BY <1>3, <1>10, <1>11, <2>0, <3>2, StillKnown
    <3>. QED BY <2>1, <3>1, <3>3
  <2>2. CASE first[u] = <<>> /\ ~(read /\ u = tag)
    <3>1. first'[u] = <<>>
      BY <1>1, <2>2
    <3>2. ~HasHeading(sections, u)
      BY <2>2 DEF SectionsKnown
    <3>. QED BY <1>10, <2>0, <2>2, <3>1, <3>2
  <2>3. CASE first[u] = <<>> /\ read /\ u = tag
    <3>. DEFINE b == (n = m + 1)
    <3>1. first'[u] = <<list, k, b>>
      BY <1>1, <1>6, <2>3 DEF SectionsTyped
    <3>2. ~HasHeading(sections, u)
      BY <2>3 DEF SectionsKnown
    <3>3. b \in BOOLEAN /\ k \in 1 .. Len(list) /\ m = Len(list)
      BY <1>4 DEF m
    <3>4. ASSUME b
          PROVE  /\ Ended + 1 + Len(list) <= Ended'
                 /\ \A i \in 1 .. Len(list) : sections'[Ended + 1 + i] = list[i]
      <4>1. n = m + 1 /\ n > 0 /\ how = Boxes!None /\ Len(new) = n
        <5>1. n = m + 1 /\ n > 0
          BY <1>4, <3>4
        <5>2. how = Boxes!None
          BY <1>1, <1>6, <5>1
        <5>. QED BY <1>8, <5>1, <5>2 DEF SectionLines
      <4>2. Ended' = Ended + n
        BY <1>10, <4>1
      <4>3. ASSUME NEW i \in 1 .. m PROVE sections'[Ended + 1 + i] = list[i]
        <5>1. i + 1 \in 2 .. n /\ (i + 1) - 1 = i /\ Ended + (i + 1) = Ended + 1 + i
          BY <1>4, <1>11, <4>1
        <5>2. sections'[Ended + (i + 1)] = new[i + 1] /\ new[i + 1] = list[(i + 1) - 1]
          BY <1>8, <1>10, <4>1, <5>1
        <5>. QED BY <5>1, <5>2
      <4>. QED BY <1>4, <1>11, <3>3, <4>1, <4>2, <4>3
    <3>. HIDE DEF b
    <3>5. /\ GoesOn(sections, Ended, sections') /\ Ended < Len(sections')
          /\ sections'[Ended + 1].tag = u /\ sections'[Ended + 1].number = Len(list)
          /\ sections'[Ended + 1].selection = k
      BY <1>10, <2>3, <3>3
    <3>6. Known(sections', Ended', u, <<list, k, b>>)
      BY <1>3, <1>4, <1>10, <1>11, <2>0, <3>2, <3>3, <3>4, <3>5, NowKnown
    <3>7. <<list, k, b>> # <<>>
      OBVIOUS
    <3>. QED BY <3>1, <3>6, <3>7
  <2>. QED BY <2>1, <2>2, <2>3
<1>15. SectionsKnown'
  BY <1>14 DEF SectionsKnown
<1>16. ListsKnown'
  <2>1. ASSUME NEW u \in BoxTags
        PROVE  /\ Distinct(lists'[u])
               /\ \A i \in DOMAIN lists'[u] :
                      lists'[u][i].tag = Boxes!None \/ HasHeading(sections', lists'[u][i].tag)
    <3>1. CASE u = tag
      <4>1. lists'[u] = list
        BY <1>1, <1>3, <3>1
      <4>. QED BY <1>4, <1>5, <1>12, <4>1
    <3>2. CASE u # tag
      <4>1. lists'[u] = lists[u]
        BY <1>1, <1>3, <3>2
      <4>. QED BY <1>12, <4>1 DEF ListsKnown
    <3>. QED BY <3>1, <3>2
  <2>. QED BY <2>1 DEF ListsKnown
<1>17. FilledKnown'
  <2>1. ASSUME NEW u \in filled'
        PROVE  /\ u \in BoxTags /\ first'[u] # <<>>
               /\ first'[u][3] => 
                      AsFirst(first'[u][1], first'[u][2], lists'[u], selected'[u])
    <3>1. u \in filled /\ u # tag /\ u \in BoxTags /\ first[u] # <<>>
          /\ (first[u][3] =>
                AsFirst(first[u][1], first[u][2], lists[u], selected[u]))
      BY <1>1, <2>1 DEF FilledKnown
    <3>2. first'[u] = first[u] /\ lists'[u] = lists[u] /\ selected'[u] = selected[u]
      BY <1>1, <1>3, <3>1 DEF SectionsTyped
    <3>. QED BY <3>1, <3>2
  <2>. QED BY <2>1 DEF FilledKnown
<1>. QED BY <1>13, <1>15, <1>16, <1>17

LEMMA LeastIs ==
    ASSUME NEW a \in Nat, NEW b \in Nat
    PROVE  /\ Boxes!Least(a, b) \in Nat /\ Boxes!Least(a, b) <= a /\ Boxes!Least(a, b) <= b
           /\ a <= b => Boxes!Least(a, b) = a
           /\ Boxes!Least(a, b) = a \/ Boxes!Least(a, b) = b
BY DEF Boxes!Least

(* The lines after the first heading of a complete section are its items.  *)
LEMMA LinesRead ==
    ASSUME NEW s \in Seq(Rows), NEW list \in Seq(Rows), NEW i \in Nat, NEW num \in Nat,
           num <= Len(list), i + Len(list) <= Len(s),
           \A j \in 1 .. Len(list) : s[i + j] = list[j]
    PROVE  SubSeq(s, i + 1, i + num) = SubSeq(list, 1, num)
<1>. DEFINE a == SubSeq(s, i + 1, i + num)
            b == SubSeq(list, 1, num)
            m == Len(list)
            n == Len(s)
<1>1. n \in Nat /\ m \in Nat /\ num <= m /\ i + m <= n /\ \A j \in 1 .. m : s[i + j] = list[j]
  OBVIOUS
<1>2. b \in Seq(Rows) /\ Len(b) = num /\ \A j \in 1 .. num : b[j] = list[j]
  OBVIOUS
<1>3. a \in Seq(Rows) /\ Len(a) = num /\ \A j \in 1 .. num : a[j] = s[i + j]
  <2>1. /\ i + 1 \in 1 .. n + 1 /\ i + num \in 0 .. n /\ i + num - (i + 1) + 1 = num
        /\ i \in Nat /\ i + 1 <= i + num + 1
    BY <1>1
  <2>2. a \in Seq(Rows)
    BY <2>1
  <2>3. Len(a) = num
    BY <2>1
  <2>4. \A j \in 1 .. num : a[j] = s[i + j]
    BY <2>1
  <2>. QED BY <2>2, <2>3, <2>4
<1>. HIDE DEF a, b, m, n
<1>4. \A j \in 1 .. num : a[j] = b[j]
  <2>1. \A j \in 1 .. num : j \in 1 .. m
    BY <1>1
  <2>. QED BY <1>1, <1>2, <1>3, <2>1
<1>5. a = b
  BY <1>2, <1>3, <1>4, SameItems
<1>. QED BY <1>5 DEF a, b

LEMMA LinesOfFile ==
    ASSUME NEW s \in Seq(Rows), NEW i \in Nat, NEW e \in Nat, i <= e, e <= Len(s)
    PROVE  SubSeq(s, i + 1, e) \in Seq(Rows) /\ ToSet(SubSeq(s, i + 1, e)) \subseteq ToSet(s)
<1>. DEFINE a == SubSeq(s, i + 1, e)
            n == Len(s)
<1>1. n \in Nat /\ i + 1 \in 1 .. n + 1 /\ e \in 0 .. n /\ DOMAIN s = 1 .. n
  OBVIOUS
<1>2. a \in Seq(Rows) /\ Len(a) = e - i /\ \A j \in 1 .. e - i : a[j] = s[i + j]
  <2>1. a \in Seq(Rows)
    BY <1>1
  <2>2. Len(a) = e - i
    BY <1>1
  <2>3. \A j \in 1 .. e - i : a[j] = s[i + j]
    BY <1>1
  <2>. QED BY <2>1, <2>2, <2>3
<1>. HIDE DEF a, n
<1>3. DOMAIN a = 1 .. e - i /\ \A j \in 1 .. e - i : i + j \in 1 .. n
  BY <1>1, <1>2
<1>4. ToSet(a) \subseteq ToSet(s)
  BY <1>1, <1>2, <1>3 DEF ToSet
<1>. QED BY <1>2, <1>4 DEF a

LEMMA FillKeeps ==
    ASSUME SectionsInv, NEW tag \in BoxTags, NEW i, FirstHeading(sections, tag, i),
           Boxes!Fill(tag, i)
    PROVE  SectionsInv'
<1>. USE DEF SectionsInv
<1>. DEFINE n == Len(sections)
            num == Boxes!Least(sections[i].number, COMBO_LIST_MAX)
            e == Boxes!Least(i + num, n)
            lines == SubSeq(sections, i + 1, e)
            list == Boxes!FoldLeft(Boxes!AddLast, lists[tag], lines)
            k == Boxes!Least(sections[i].selection, num)
<1>1. /\ lists' = [lists EXCEPT ![tag] = list]
      /\ selected' = [selected EXCEPT ![tag] = k]
      /\ filled' = IF lists[tag] = <<>> THEN filled \cup {tag} ELSE filled \ {tag}
      /\ sections' = sections /\ first' = first /\ tail' = tail /\ Ended' = Ended
  <2>1. sections' = sections /\ tail' = tail
    BY DEF Boxes!Fill
  <2>2. Ended' = Ended
    BY <2>1 DEF Ended
  <2>. QED BY <2>1, <2>2 DEF Boxes!Fill
<1>2. /\ sections \in Seq(Rows) /\ lists \in [BoxTags -> Seq(Rows)] /\ lists[tag] \in Seq(Rows)
      /\ Distinct(lists[tag]) /\ n \in Nat /\ DOMAIN sections = 1 .. n /\ i \in 1 .. n
      /\ sections[i] \in Rows /\ COMBO_LIST_MAX \in Nat
  <2>1. sections \in Seq(Rows) /\ lists \in [BoxTags -> Seq(Rows)] /\ Distinct(lists[tag])
    BY DEF SectionsTyped, ListsKnown
  <2>2. n \in Nat /\ DOMAIN sections = 1 .. n
    BY <2>1
  <2>3. i \in 1 .. n
    BY <2>2 DEF FirstHeading
  <2>4. sections[i] \in Rows /\ lists[tag] \in Seq(Rows)
    BY <2>1, <2>3
  <2>. QED BY <2>1, <2>2, <2>3, <2>4, PhutilsAssumption
<1>3. sections[i].number \in Nat /\ sections[i].selection \in Nat
  BY <1>2 DEF Rows
<1>4. num \in Nat /\ i \in Nat /\ e \in Nat /\ i <= e /\ e <= n
  <2>1. num \in Nat
    BY <1>2, <1>3, LeastIs
  <2>. HIDE DEF num, n
  <2>2. i \in Nat /\ i <= n /\ i + num \in Nat /\ i <= i + num
    BY <1>2, <2>1
  <2>3. /\ Boxes!Least(i + num, n) \in Nat /\ Boxes!Least(i + num, n) <= n
        /\ Boxes!Least(i + num, n) = i + num \/ Boxes!Least(i + num, n) = n
    BY <1>2, <2>2, LeastIs
  <2>. QED BY <2>1, <2>2, <2>3
<1>. HIDE DEF e, k, num
<1>5. lines \in Seq(Rows) /\ ToSet(lines) \subseteq ToSet(sections)
  BY <1>2, <1>4, LinesOfFile
<1>. HIDE DEF lines
<1>6. list \in Seq(Rows) /\ Distinct(list) /\ ToSet(list) \subseteq ToSet(lists[tag]) \cup ToSet(lines)
  BY <1>2, <1>5, FilledIs
<1>. HIDE DEF list
<1>7. SectionsTyped'
  BY <1>1, <1>2, <1>6 DEF SectionsTyped
<1>8. SectionsKnown'
  BY <1>1 DEF SectionsKnown
<1>9. ASSUME NEW j \in DOMAIN list
      PROVE  list[j].tag = Boxes!None \/ HasHeading(sections, list[j].tag)
  <2>1. list[j] \in ToSet(lists[tag]) \/ list[j] \in ToSet(sections)
    <3>1. list[j] \in ToSet(list)
      BY DEF ToSet
    <3>. QED BY <1>5, <1>6, <3>1
  <2>2. CASE list[j] \in ToSet(lists[tag])
    <3>1. PICK m \in DOMAIN lists[tag] : list[j] = lists[tag][m]
      BY <2>2 DEF ToSet
    <3>2. lists[tag][m].tag = Boxes!None \/ HasHeading(sections, lists[tag][m].tag)
      BY DEF ListsKnown
    <3>. QED BY <3>1, <3>2
  <2>3. CASE list[j] \in ToSet(sections)
    <3>1. PICK m \in DOMAIN sections : list[j] = sections[m]
      BY <2>3 DEF ToSet
    <3>. QED BY <3>1 DEF HasHeading
  <2>. QED BY <2>1, <2>2, <2>3
<1>10. ListsKnown'
  <2>1. ASSUME NEW u \in BoxTags
        PROVE  /\ Distinct(lists'[u])
               /\ \A j \in DOMAIN lists'[u] :
                      lists'[u][j].tag = Boxes!None \/ HasHeading(sections', lists'[u][j].tag)
    <3>1. CASE u = tag
      <4>1. lists'[u] = list
        BY <1>1, <1>2, <3>1
      <4>. QED BY <1>1, <1>6, <1>9, <4>1
    <3>2. CASE u # tag
      <4>1. lists'[u] = lists[u]
        BY <1>1, <1>2, <3>2
      <4>. QED BY <1>1, <4>1 DEF ListsKnown
    <3>. QED BY <3>1, <3>2
  <2>. QED BY <2>1 DEF ListsKnown
<1>11. first[tag] # <<>>
  <2>1. HasHeading(sections, tag)
    BY DEF FirstHeading, HasHeading
  <2>. QED BY <2>1 DEF SectionsKnown
(* An empty box gets what the first section says.                          *)
<1>12. ASSUME lists[tag] = <<>>, first[tag][3]
       PROVE  AsFirst(first[tag][1], first[tag][2], list, k)
  <2>1. PICK l \in Seq(Rows), c \in Nat, b \in BOOLEAN, h \in Nat :
               /\ first[tag] = <<l, c, b>> /\ c \in 1 .. Len(l) /\ Distinct(l)
               /\ FirstHeading(sections, tag, h)
               /\ sections[h].number = Len(l) /\ sections[h].selection = c
               /\ b => h + Len(l) <= Ended /\ \A j \in 1 .. Len(l) : sections[h + j] = l[j]
    <3>1. Known(sections, Ended, tag, first[tag])
      BY <1>11 DEF SectionsKnown
    <3>. QED BY <3>1 DEF Known
  <2>. DEFINE m == Len(l)
  <2>2. first[tag][1] = l /\ first[tag][2] = c /\ b
    BY <1>12, <2>1
  <2>3. h = i
    <3>1. h \in 1 .. n /\ i \in 1 .. n /\ sections[h].tag = tag /\ sections[i].tag = tag
      BY <1>2, <2>1 DEF FirstHeading
    <3>2. ~(h < i) /\ ~(i < h)
      <4>1. h < i => h \in 1 .. i - 1
        BY <3>1
      <4>2. i < h => i \in 1 .. h - 1
        BY <3>1
      <4>. QED BY <2>1, <3>1, <4>1, <4>2 DEF FirstHeading
    <3>. QED BY <3>1, <3>2
  <2>4. m \in Nat /\ sections[i].number = m /\ sections[i].selection = c /\ c \in 1 .. m
        /\ i + m <= n /\ \A j \in 1 .. m : sections[i + j] = l[j]
    <3>1. m \in Nat /\ Ended \in Nat /\ Ended <= n
      BY <2>1, EndedIs
    <3>. QED BY <1>4, <2>1, <2>2, <2>3, <3>1
  <2>. HIDE DEF m, n
  <2>5. num = Boxes!Least(m, COMBO_LIST_MAX) /\ num <= m
        /\ (num = m \/ num = COMBO_LIST_MAX)
    BY <1>2, <2>4, LeastIs DEF num
  <2>6. e = i + num
    <3>1. i + num \in Nat /\ i + num <= n
      BY <1>2, <1>4, <2>4, <2>5
    <3>. QED BY <1>2, <3>1, LeastIs DEF e
  <2>7. lines = SubSeq(l, 1, num)
    <3>1. num <= Len(l) /\ i + Len(l) <= Len(sections)
          /\ \A j \in 1 .. Len(l) : sections[i + j] = l[j]
      BY <2>4, <2>5 DEF m, n
    <3>2. SubSeq(sections, i + 1, i + num) = SubSeq(l, 1, num)
      BY <1>2, <1>4, <2>1, <3>1, LinesRead
    <3>. QED BY <2>6, <3>2 DEF lines
  <2>8. Distinct(lines)
    <3>1. num \in 0 .. m
      BY <1>4, <2>4, <2>5
    <3>. DEFINE a == SubSeq(l, 1, num)
    <3>2. DOMAIN a = 1 .. num /\ \A j \in 1 .. num : a[j] = l[j]
      BY <2>1, <3>1 DEF m
    <3>3. DOMAIN l = 1 .. m /\ \A j \in 1 .. num : j \in 1 .. m
      BY <2>1, <3>1 DEF m
    <3>. HIDE DEF a
    <3>4. Distinct(a)
      BY <2>1, <3>2, <3>3 DEF Distinct
    <3>. QED BY <2>7, <3>4 DEF a
  <2>9. list = lines
    BY <1>5, <1>12, <2>8, FilledWithAll DEF list
  <2>10. ASSUME c <= COMBO_LIST_MAX PROVE k = c
    <3>1. c \in Nat /\ c <= num
      BY <2>4, <2>5, <2>10
    <3>. QED BY <1>4, <2>4, <3>1, LeastIs DEF k
  <2>. QED BY <2>2, <2>5, <2>7, <2>9, <2>10 DEF AsFirst, m
<1>13. FilledKnown'
  <2>1. ASSUME NEW u \in filled'
        PROVE  /\ u \in BoxTags /\ first'[u] # <<>>
               /\ first'[u][3] =>
                      AsFirst(first'[u][1], first'[u][2], lists'[u], selected'[u])
    <3>1. CASE u = tag
      <4>1. lists'[u] = list /\ selected'[u] = k /\ first'[u] = first[tag]
        BY <1>1, <1>2, <3>1 DEF SectionsTyped
      <4>2. lists[tag] = <<>>
        BY <1>1, <2>1, <3>1
      <4>. QED BY <1>11, <1>12, <3>1, <4>1, <4>2
    <3>2. CASE u # tag
      <4>1. u \in filled /\ u \in BoxTags /\ first[u] # <<>>
            /\ (first[u][3] => AsFirst(first[u][1], first[u][2], lists[u], selected[u]))
        BY <1>1, <2>1, <3>2 DEF FilledKnown
      <4>2. lists'[u] = lists[u] /\ selected'[u] = selected[u] /\ first'[u] = first[u]
        BY <1>1, <1>2, <3>2, <4>1 DEF SectionsTyped
      <4>. QED BY <4>1, <4>2
    <3>. QED BY <3>1, <3>2
  <2>. QED BY <2>1 DEF FilledKnown
<1>. QED BY <1>7, <1>8, <1>10, <1>13

LEMMA SectionsSteps == ASSUME SectionsInv, Boxes!Next PROVE SectionsInv'
<1>1. ASSUME NEW tag \in BoxTags, NEW t \in Texts, NEW n, NEW how,
             Boxes!Save_Combo_To_File(tag, t, n, how)
      PROVE  SectionsInv'
  BY <1>1, SaveKeeps
<1>2. ASSUME NEW tag \in BoxTags, NEW strict, NEW i \in Boxes!Found(tag, strict), Boxes!Fill(tag, i)
      PROVE  SectionsInv'
  <2>1. i \in DOMAIN sections /\ sections[i].tag = tag /\ i \in Nat
        /\ \A j \in 1 .. i - 1 : j \notin Boxes!Headings(tag)
    <3>1. sections \in Seq(Rows)
      BY DEF SectionsInv, SectionsTyped
    <3>. QED BY <1>2, <3>1 DEF Boxes!Found, Boxes!Headings
  <2>2. \A j \in 1 .. i - 1 : j \in DOMAIN sections
    <3>1. sections \in Seq(Rows)
      BY DEF SectionsInv, SectionsTyped
    <3>. QED BY <2>1, <3>1
  <2>3. FirstHeading(sections, tag, i)
    BY <2>1, <2>2 DEF FirstHeading, Boxes!Headings
  <2>. QED BY <1>2, <2>3, FillKeeps
<1>3. ASSUME Boxes!Restart PROVE SectionsInv'
  <2>1. /\ lists' = [tag \in BoxTags |-> <<>>] /\ selected' = [tag \in BoxTags |-> 0]
        /\ filled' = {} /\ sections' = sections /\ first' = first /\ tail' = tail
    BY <1>3 DEF Boxes!Restart
  <2>0. Ended' = Ended
    BY <2>1 DEF Ended
  <2>2. <<>> \in Seq(Rows) /\ DOMAIN <<>> = {}
    OBVIOUS
  <2>3. SectionsTyped' /\ SectionsKnown'
    BY <2>0, <2>1, <2>2 DEF SectionsInv, SectionsTyped, SectionsKnown
  <2>4. ListsKnown'
    BY <2>1, <2>2 DEF ListsKnown, Distinct
  <2>5. FilledKnown'
    BY <2>1 DEF FilledKnown
  <2>. QED BY <2>3, <2>4, <2>5 DEF SectionsInv
<1>. QED BY <1>1, <1>2, <1>3 DEF Boxes!Next, Boxes!LoadOfTag, Boxes!LoadOfWidget

LEMMA SectionsUnchanged == ASSUME SectionsInv, UNCHANGED sectionVars PROVE SectionsInv'
<1>1. sections' = sections /\ lists' = lists /\ selected' = selected /\ first' = first
      /\ filled' = filled /\ tail' = tail
  BY DEF sectionVars
<1>0. Ended' = Ended
  BY <1>1 DEF Ended
<1>2. SectionsTyped' /\ SectionsKnown'
  BY <1>0, <1>1 DEF SectionsInv, SectionsTyped, SectionsKnown
<1>3. ListsKnown'
  BY <1>1 DEF SectionsInv, ListsKnown
<1>4. FilledKnown'
  BY <1>1 DEF SectionsInv, FilledKnown
<1>. QED BY <1>2, <1>3, <1>4 DEF SectionsInv

(* For any tags and texts and any number of saves, new programs and        *)
(* sections cut off anywhere in a line: a box that was empty is loaded     *)
(* with the list and the selection of the first section of its tag whose   *)
(* heading was not lost in such a line.  Save_Combo_To_File,               *)
(* Load_Combo_From_File in both versions.                                  *)
THEOREM FirstSaveIsLoaded == PhutilsSpec => []FirstSaveWins
<1>1. PhutilsInit => SectionsInv
  <2>. SUFFICES ASSUME Boxes!Init PROVE SectionsInv
    BY DEF PhutilsInit
  <2>1. /\ sections = <<>> /\ tail = Boxes!None /\ lists = [tag \in BoxTags |-> <<>>]
        /\ selected = [tag \in BoxTags |-> 0] /\ first = [tag \in BoxTags |-> <<>>]
        /\ filled = {}
    BY DEF Boxes!Init
  <2>2. <<>> \in Seq(Rows) /\ DOMAIN <<>> = {}
    OBVIOUS
  <2>3. SectionsTyped
    BY <2>1, <2>2, NoneIs DEF SectionsTyped
  <2>4. SectionsKnown
    BY <2>1, <2>2 DEF SectionsKnown, HasHeading
  <2>5. ListsKnown
    BY <2>1, <2>2 DEF ListsKnown, Distinct
  <2>. QED BY <2>1, <2>3, <2>4, <2>5 DEF SectionsInv, FilledKnown
<1>2. SectionsInv /\ [PhutilsNext]_phutilsVars => SectionsInv'
  <2>. SUFFICES ASSUME SectionsInv, [PhutilsNext]_phutilsVars PROVE SectionsInv'
    OBVIOUS
  <2>1. Boxes!Next \/ UNCHANGED sectionVars
    BY DEF PhutilsNext, AllBut, phutilsVars
  <2>. QED BY <2>1, SectionsSteps, SectionsUnchanged
<1>3. SectionsInv => FirstSaveWins
  BY DEF SectionsInv, FilledKnown, AsFirst, FirstSaveWins, Boxes!FirstSaveWins
<1>. QED BY <1>1, <1>2, <1>3, PTL DEF PhutilsSpec

-----------------------------------------------------------------------------
(* Menus.  For every set of menu files, well formed or not, and every      *)
(* depth: Show_Menu is registered for the complete menu and no other, the  *)
(* second reading of a file stays within the arrays the first one sized,   *)
(* and the finished menu is the tree a well formed file draws.             *)
(* How many entries there are before line p. *)
Before(f, p) == {i \in DOMAIN f : i < p /\ Entry(f, i)}

(* The handler follows the status, which is OK only between two calls. *)
HandlerInv ==
    /\ status \in {"OK", "NOT_OK"}
    /\ (pc # "idle" => status = "NOT_OK")
    /\ handlers = IF status = "OK" THEN {Main_Menu} ELSE {}

(* While a file is read the buttons made are the entries read; between two *)
(* calls there are none unless the menu is complete.                       *)
SlotInv ==
    /\ pc \in {"idle", "count", "enter", "read", "corrupt"}
    /\ file \in Seq(Lines)
    /\ (pc \in {"enter", "read", "corrupt"} =>
            /\ pos \in 1 .. Len(file) + 1
            /\ widget_buf_cnt = Get_Widget_Count(file)
            /\ ("Init" \notin failed => Widget_Count = Cardinality(Before(file, pos))))
    /\ ("Init" \notin failed /\ status = "NOT_OK" /\ pc \in {"idle", "count"} => Widget_Count = 0)

MenuInv == HandlerInv /\ SlotInv

-----------------------------------------------------------------------------
LEMMA Lengths == \A f \in Seq(Lines) : Len(f) \in Nat
OBVIOUS

(* The next line adds one entry, or none. *)
LEMMA NextEntry ==
    ASSUME NEW f \in Seq(Lines), NEW p \in 1 .. Len(f)
    PROVE  /\ Cardinality(Before(f, p)) \in Nat
           /\ Cardinality(Before(f, p + 1)) =
                  Cardinality(Before(f, p)) + (IF Entry(f, p) THEN 1 ELSE 0)
<1>1. IsFiniteSet(1 .. Len(f))
  BY FS_Interval
<1>2. IsFiniteSet(Before(f, p))
  BY <1>1, FS_Subset DEF Before
<1>3. CASE Entry(f, p)
  <2>1. Before(f, p + 1) = Before(f, p) \cup {p}
    BY <1>3 DEF Before
  <2>2. p \notin Before(f, p)
    BY DEF Before
  <2> QED  BY <1>2, <1>3, <2>1, <2>2, FS_AddElement, FS_CardinalityType
<1>4. CASE ~Entry(f, p)
  <2>1. Before(f, p + 1) = Before(f, p)
    BY <1>4 DEF Before
  <2> QED  BY <1>2, <1>4, <2>1, FS_CardinalityType
<1> QED  BY <1>3, <1>4

(* No line is before the first. *)
LEMMA FirstEntry ==
    ASSUME NEW f \in Seq(Lines)
    PROVE  Cardinality(Before(f, 1)) = 0
<1>1. Before(f, 1) = {}
  BY DEF Before
<1> QED  BY <1>1, FS_EmptySet

(* If the count sees all entries there are at least as many slots. *)
LEMMA EnoughSlots ==
    ASSUME NEW f \in Seq(Lines), NEW p \in 1 .. Len(f) + 1, CountSeesAll(f)
    PROVE  Cardinality(Before(f, p)) <= Get_Widget_Count(f)
<1> DEFINE C == {i \in DOMAIN f : Counted(f, i)}
<1>1. IsFiniteSet(1 .. Len(f))
  BY FS_Interval
<1>2. IsFiniteSet(C) /\ Before(f, p) \subseteq C
  BY <1>1, FS_Subset DEF Before, CountSeesAll
<1>3. Cardinality(Before(f, p)) <= Cardinality(C)
  BY <1>2, FS_Subset
<1> QED  BY <1>3 DEF Get_Widget_Count

-----------------------------------------------------------------------------
LEMMA InitMenuInv == Init => MenuInv
BY DEF Init, MenuInv, HandlerInv, SlotInv

(* What Destroy does to the handler and to the number of buttons. *)
LEMMA DestroyClears ==
    ASSUME HandlerInv, Destroy
    PROVE  /\ status' = "NOT_OK" /\ handlers' = {}
           /\ Widget_Count' = IF status = "OK" THEN 0 ELSE Widget_Count
BY DEF HandlerInv, Destroy

(* A return keeps the invariant, whatever it returns, once the line read   *)
(* is accounted for.                                                       *)
LEMMA ReturnMenuInv ==
    ASSUME MenuInv, NEW rest, NEW v, pc \in {"enter", "read"}, Return(rest, v),
           file' = file, UNCHANGED <<widget_buf_cnt, Widget_Count>>,
           pos' \in 1 .. Len(file) + 1,
           Cardinality(Before(file, pos')) = Cardinality(Before(file, pos))
    PROVE  MenuInv'
<1>1. HandlerInv'
  BY DEF MenuInv, HandlerInv, Return
<1>2. "Init" \in failed' \/ pc' = "read" \/ (pc' = "idle" /\ status' = "OK")
  BY DEF Return
<1>3. "Init" \notin failed' => "Init" \notin failed
  BY DEF Return
<1>4. pc' \in {"read", "idle"}
  BY DEF Return
<1>5. SlotInv'
  BY <1>2, <1>3, <1>4 DEF MenuInv, SlotInv
<1> QED  BY <1>1, <1>5 DEF MenuInv

(* Every step keeps the invariant. *)
LEMMA NextMenuInv == MenuInv /\ [Next]_vars => MenuInv'
<1> SUFFICES ASSUME MenuInv, [Next]_vars PROVE MenuInv'
  OBVIOUS
<1>1. ASSUME NEW f \in Files, InitMenu(f) PROVE MenuInv'
  <2>1. status' = "NOT_OK" /\ handlers' = {} /\ ("Init" \notin failed => Widget_Count' = 0)
    <3>1. CASE status = "OK"
      BY <1>1, <3>1, DestroyClears DEF InitMenu, MenuInv
    <3>2. CASE status # "OK"
      BY <1>1, <3>2 DEF InitMenu, MenuInv, HandlerInv, SlotInv
    <3> QED  BY <3>1, <3>2
  <2>2. pc' \in {"idle", "count"} /\ file' \in Seq(Lines) /\ failed' = failed
    BY <1>1, MenuAssumption DEF InitMenu
  <2> QED  BY <2>1, <2>2 DEF MenuInv, HandlerInv, SlotInv
<1>2. ASSUME NEW tag \in Tags, Disable_Item(tag) PROVE MenuInv'
  BY <1>2 DEF Disable_Item, reading, tree, table, MenuInv, HandlerInv, SlotInv
<1>3. CASE Detach
  <2>1. status' = "NOT_OK" /\ handlers' = {} /\ ("Init" \notin failed => Widget_Count' = 0)
    BY <1>3, DestroyClears DEF Detach, MenuInv, HandlerInv, SlotInv
  <2>2. pc' = "idle" /\ file' = file /\ failed' = failed
    BY <1>3 DEF Detach
  <2> QED  BY <2>1, <2>2 DEF MenuInv, HandlerInv, SlotInv
<1>4. CASE Count
  <2>1. file \in Seq(Lines) /\ file' = file /\ status = "NOT_OK"
    BY <1>4 DEF Count, MenuInv, HandlerInv, SlotInv
  <2>2. HandlerInv'
    BY <1>4 DEF Count, MenuInv, HandlerInv
  <2>3. CASE pc' = "idle"
    BY <1>4, <2>1, <2>2, <2>3 DEF Count, MenuInv, SlotInv
  <2>4. CASE pc' = "enter"
    <3>1. pos' = 1 /\ widget_buf_cnt' = Get_Widget_Count(file')
      BY <1>4, <2>1, <2>4 DEF Count
    <3>2. Cardinality(Before(file', pos')) = 0
      BY <2>1, <3>1, FirstEntry
    <3>3. pos' \in 1 .. Len(file') + 1
      BY <2>1, <3>1, Lengths
    <3> QED  BY <1>4, <2>1, <2>2, <2>4, <3>1, <3>2, <3>3 DEF Count, MenuInv, SlotInv
  <2> QED  BY <1>4, <2>3, <2>4 DEF Count
<1>5. CASE CountFails
  BY <1>5 DEF CountFails, reading, MenuInv, HandlerInv, SlotInv
<1>6. CASE Enter
  BY <1>6 DEF Enter, table, MenuInv, HandlerInv, SlotInv
<1>7. CASE EnterFails
  <2>1. pc = "enter" /\ Return(stack, NULL) /\ UNCHANGED <<file, pos, widget_buf_cnt, Widget_Count>>
    BY <1>7 DEF EnterFails, table
  <2>2. pos \in 1 .. Len(file) + 1
    BY <2>1 DEF MenuInv, SlotInv
  <2> QED  BY <2>1, <2>2, ReturnMenuInv
<1>8. CASE EnterBeyond
  BY <1>8 DEF EnterBeyond, reading, table, MenuInv, HandlerInv, SlotInv
<1>9. ASSUME NEW marks, NextLine(marks)
      PROVE  /\ pc = "read" /\ file \in Seq(Lines) /\ pos \in 1 .. Len(file)
             /\ pos' = pos + 1 /\ file[pos].mark \in marks
             /\ Cardinality(Before(file, pos)) \in Nat
             /\ Cardinality(Before(file, pos + 1)) =
                    Cardinality(Before(file, pos)) + (IF Entry(file, pos) THEN 1 ELSE 0)
  <2>1. pc = "read" /\ pos <= Len(file) /\ pos' = pos + 1 /\ file[pos].mark \in marks
    BY <1>9 DEF NextLine
  <2>2. file \in Seq(Lines) /\ pos \in 1 .. Len(file)
    BY <2>1 DEF MenuInv, SlotInv
  <2> QED  BY <2>1, <2>2, NextEntry
<1>10. ASSUME NEW marks, NextLine(marks), marks \subseteq {"item", "sub"},
              NewButton, file' = file, pc' \in {"read", "enter"},
              UNCHANGED <<status, widget_buf_cnt, Main_Menu, handlers, failed>>
       PROVE  MenuInv'
  <2>1. Entry(file, pos)
    BY <1>9, <1>10 DEF Entry
  <2>2. Widget_Count' = Widget_Count + 1
    BY <1>10 DEF NewButton
  <2>3. HandlerInv'
    BY <1>9, <1>10 DEF MenuInv, HandlerInv
  <2> QED  BY <1>9, <1>10, <2>1, <2>2, <2>3 DEF MenuInv, SlotInv
<1>11. CASE ReadItem
  BY <1>9, <1>10, <1>11 DEF ReadItem
<1>12. CASE ReadSub
  BY <1>9, <1>10, <1>12 DEF ReadSub
<1>13. CASE ReadOther
  <2>1. NextLine({"blank", "other"})
    BY <1>13 DEF ReadOther
  <2>2. ~Entry(file, pos)
    BY <1>9, <2>1 DEF Entry
  <2>3. pc' = "read" /\ UNCHANGED <<status, file, table, Main_Menu, handlers, failed>>
    BY <1>9, <1>13, <2>1 DEF ReadOther
  <2> QED  BY <1>9, <2>1, <2>2, <2>3 DEF table, MenuInv, HandlerInv, SlotInv
<1>14. ASSUME NEW m \in {"back", "end", "bad"}, NEW v, NextLine({m}), Return(Front(stack), v),
              UNCHANGED <<file, table>>
       PROVE  MenuInv'
  <2>1. ~Entry(file, pos)
    BY <1>9, <1>14 DEF Entry
  <2>2. pos' \in 1 .. Len(file) + 1
    BY <1>9, <1>14
  <2>3. Cardinality(Before(file, pos')) = Cardinality(Before(file, pos))
    BY <1>9, <1>14, <2>1
  <2> QED  BY <1>9, <1>14, <2>2, <2>3, ReturnMenuInv DEF table
<1>15. CASE GoBack
  BY <1>14, <1>15 DEF GoBack
<1>16. CASE FileEnd
  BY <1>14, <1>16 DEF FileEnd
<1>17. CASE ReadBad
  BY <1>14, <1>17 DEF ReadBad
<1>18. CASE LinesOver
  <2>1. PICK v : Return(Front(stack), v)
    BY <1>18 DEF LinesOver
  <2>2. pc = "read" /\ UNCHANGED <<file, pos, widget_buf_cnt, Widget_Count>>
    BY <1>18 DEF LinesOver, table
  <2>3. pos \in 1 .. Len(file) + 1
    BY <2>2 DEF MenuInv, SlotInv
  <2> QED  BY <2>1, <2>2, <2>3, ReturnMenuInv
<1>19. CASE UNCHANGED vars
  BY <1>19 DEF vars, reading, tree, table, MenuInv, HandlerInv, SlotInv
<1> QED
  BY <1>1, <1>2, <1>3, <1>4, <1>5, <1>6, <1>7, <1>8, <1>11, <1>12, <1>13, <1>15, <1>16, <1>17,
     <1>18, <1>19 DEF Next

LEMMA MenuInvariant == Spec => []MenuInv
BY InitMenuInv, NextMenuInv, PTL DEF Spec

(* The parent's button shows the complete menu of this object, or nothing, *)
(* after any sequence of Init, Detach and failures.  Init, Destroy.        *)
THEOREM HandlerCorrect == Spec => []HandlerOfMenu
<1>1. MenuInv => HandlerOfMenu
  BY DEF MenuInv, HandlerInv, HandlerOfMenu
<1> QED  BY <1>1, MenuInvariant, PTL

(* Generate_Menu_Items writes only slots that Get_Widget_Count provided,   *)
(* for every file whose entries the count sees, whatever else is wrong     *)
(* with the file, until an Init has failed halfway.                        *)
THEOREM SlotsCorrect == Spec => []SlotsInBounds
<1>1. MenuInv => SlotsInBounds
  <2> SUFFICES ASSUME MenuInv, pc # "idle", pc # "count", "Init" \notin failed, CountSeesAll(file),
                      pc \in {"enter", "read", "corrupt"}
               PROVE  Widget_Count <= widget_buf_cnt
    BY DEF SlotsInBounds, MenuInv, SlotInv
  <2>1. file \in Seq(Lines) /\ pos \in 1 .. Len(file) + 1
    BY DEF MenuInv, SlotInv
  <2> QED  BY <2>1, EnoughSlots DEF MenuInv, SlotInv
<1> QED  BY <1>1, MenuInvariant, PTL

-----------------------------------------------------------------------------
(* MenuIsTheFile.  d is how many submenus line p of f is in, x the line    *)
(* that opened the innermost of those d deep or less.                      *)
Opener(f, p, d, x) ==
    IF d = 0 THEN x = 0
    ELSE /\ x \in 1 .. p - 1 /\ f[x].mark = "sub" /\ Depth(f, x) = d - 1
         /\ \A k \in 1 .. p - 1 : f[k].mark = "sub" /\ Depth(f, k) = d - 1 => k <= x
(* The last line among those the widgets in W were made for. *)
LastLine(ws, W, x) == (\E b \in W : ws[b].line = x) /\ \A b \in W : ws[b].line <= x

(* What is there to be destroyed. *)
Grown ==
    /\ widgets \in Seq([line : Nat, above : SUBSET Nat])
    /\ \A w \in 1 .. Len(widgets) : widgets[w].above \subseteq 1 .. w - 1
    /\ dead \subseteq 1 .. Len(widgets)
    /\ Menu_Widget \in [0 .. MAX_MENU_LEVEL - 1 -> 1 .. Len(widgets) \cup {NULL}]

(* The calls of Generate_Menu_Items work on menus that are there. *)
Calls ==
    /\ stack \in Seq(1 .. Len(widgets))
    /\ \A k \in 1 .. Len(stack) : Alive(stack[k])
    /\ entering \in 0 .. Len(widgets)
    /\ (pc = "enter" => Alive(entering))
    /\ (pc = "read" => stack # <<>>)
    /\ (pc \in {"idle", "count"} => stack = <<>>)
    /\ menu_level \in Int
    /\ (pc \in {"idle", "count"} /\ status = "NOT_OK" => menu_level = 0)

(* The table holds the buttons that are there. *)
Kept ==
    /\ Widget_Count \in Nat
    /\ 1 .. Widget_Count \subseteq DOMAIN Widget_Buffer
    /\ Buttons = {Widget_Buffer[i] : i \in 1 .. Widget_Count}
    /\ Cardinality(Buttons) = Widget_Count

(* The part of a well formed file before line p is drawn. *)
Drawn(p) ==
    /\ \A w \in Buttons :
          LET l == widgets[w].line IN
          /\ l \in 1 .. p - 1 /\ Entry(file, l)
          /\ \E x \in 0 .. Len(file) : Opener(file, l, Depth(file, l), x) /\ LastLine(widgets, widgets[w].above, x)
    /\ \A l \in 1 .. p - 1 : Entry(file, l) => \E w \in Buttons : widgets[w].line = l
    /\ 1 .. Widget_Count \subseteq DOMAIN Tag /\ DOMAIN Tag = 1 .. widget_buf_cnt
    /\ \A i \in 1 .. Widget_Count : Tag[i] = file[widgets[Widget_Buffer[i]].line].tag
    /\ \A i \in 1 .. widget_buf_cnt : i > Widget_Count => Tag[i] = ""
    /\ off = {w \in Buttons : LET l == file[widgets[w].line] IN ~l.enabled \/ l.tag \in asked}

(* While it is drawn, the menus that are open are those of the submenus    *)
(* around the next line.                                                   *)
Drawing ==
    /\ menu_level = Depth(file, pos)
    /\ Len(stack) = menu_level + (IF pc = "read" THEN 1 ELSE 0)
    /\ \A k \in 1 .. Len(stack) :
          /\ Menu_Widget[k - 1] = stack[k] /\ widgets[stack[k]].line = 0
          /\ \E x \in 0 .. Len(file) : Opener(file, pos, k - 1, x) /\ LastLine(widgets, Ancestors(stack[k]), x)
    /\ (stack # <<>> => widgets[stack[1]].above = {})
    /\ (pc = "enter" =>
          IF menu_level = 0 THEN entering = Root
          ELSE \E x \in 0 .. Len(file) : Opener(file, pos, menu_level, x) /\ LastLine(widgets, Ancestors(entering), x))
    /\ asked = {}
    /\ Drawn(pos)

TreeInv ==
    failed = {} =>
        /\ Grown /\ Calls /\ Kept
        /\ (WellFormed(file) /\ pc \in {"enter", "read"} => Drawing)
        /\ (WellFormed(file) /\ status = "OK" =>
               /\ Drawn(Len(file) + 1)
               /\ Main_Menu \in 1 .. Len(widgets) /\ Alive(Main_Menu)
               /\ widgets[Main_Menu] = [line |-> 0, above |-> {}])

-----------------------------------------------------------------------------
(* What is said of a file. *)
Marked(f, p, m) == {j \in 1 .. p - 1 : f[j].mark = m}

LEMMA MarkedNext ==
    ASSUME NEW f \in Seq(Lines), NEW p \in 1 .. Len(f), NEW m
    PROVE  /\ IsFiniteSet(Marked(f, p, m)) /\ Cardinality(Marked(f, p, m)) \in Nat
           /\ Cardinality(Marked(f, p + 1, m)) =
                  Cardinality(Marked(f, p, m)) + (IF f[p].mark = m THEN 1 ELSE 0)
<1>1. p \in Nat /\ p + 1 - 1 = p
  OBVIOUS
<1>2. IsFiniteSet(1 .. p - 1)
  BY <1>1, FS_Interval
<1>3. IsFiniteSet(Marked(f, p, m))
  BY <1>2, FS_Subset DEF Marked
<1>4. Marked(f, p + 1, m) = IF f[p].mark = m THEN Marked(f, p, m) \cup {p} ELSE Marked(f, p, m)
  BY <1>1 DEF Marked
<1>5. p \notin Marked(f, p, m)
  BY DEF Marked
<1>. QED BY <1>3, <1>4, <1>5, FS_AddElement, FS_CardinalityType

LEMMA DepthNext ==
    ASSUME NEW f \in Seq(Lines), NEW p \in 1 .. Len(f)
    PROVE  /\ Depth(f, p) \in Int
           /\ Depth(f, p + 1) = Depth(f, p) + (IF f[p].mark = "sub" THEN 1
                                               ELSE IF f[p].mark = "back" THEN -1 ELSE 0)
<1>1. \A q : Depth(f, q) = Cardinality(Marked(f, q, "sub")) - Cardinality(Marked(f, q, "back"))
  BY DEF Depth, Marked
<1>2. "sub" # "back"
  OBVIOUS
<1>. QED BY <1>1, <1>2, MarkedNext

LEMMA DepthFirst ==
    ASSUME NEW f PROVE Depth(f, 1) = 0
<1>1. \A m : {j \in 1 .. 1 - 1 : f[j].mark = m} = {}
  OBVIOUS
<1>2. Cardinality({}) = 0
  BY FS_EmptySet
<1>. QED BY <1>1, <1>2 DEF Depth

LEMMA OpenerNext ==
    ASSUME NEW f \in Seq(Lines), NEW p \in 1 .. Len(f), NEW d \in Nat, NEW x, Opener(f, p, d, x),
           ~(f[p].mark = "sub" /\ Depth(f, p) = d - 1)
    PROVE  Opener(f, p + 1, d, x)
<1>1. \A k \in 1 .. p + 1 - 1 : k \in 1 .. p - 1 \/ k = p
  OBVIOUS
<1>2. 1 .. p - 1 \subseteq 1 .. p + 1 - 1
  OBVIOUS
<1>. QED BY <1>1, <1>2 DEF Opener

LEMMA OpenerNew ==
    ASSUME NEW f \in Seq(Lines), NEW p \in 1 .. Len(f), f[p].mark = "sub", Depth(f, p) \in Nat
    PROVE  Opener(f, p + 1, Depth(f, p) + 1, p)
<1>1. Depth(f, p) + 1 # 0 /\ Depth(f, p) + 1 - 1 = Depth(f, p)
  OBVIOUS
<1>2. \A k \in 1 .. p + 1 - 1 : k <= p
  OBVIOUS
<1>3. p \in 1 .. p + 1 - 1
  OBVIOUS
<1>. QED BY <1>1, <1>2, <1>3 DEF Opener

LEMMA OpenerIs ==
    ASSUME NEW f, NEW i \in Nat, NEW x, Opener(f, i, Depth(f, i), x)
    PROVE  Enclosing(f, i) = x
<1>. DEFINE d == Depth(f, i)
            open == {j \in 1 .. i - 1 : f[j].mark = "sub" /\ Depth(f, j) = d - 1}
<1>1. Enclosing(f, i) = IF d = 0 THEN 0 ELSE CHOOSE j \in open : \A k \in open : k <= j
  BY DEF Enclosing
<1>2. CASE d = 0
  BY <1>1, <1>2 DEF Opener
<1>3. CASE d # 0
  <2>1. x \in open /\ \A k \in open : k <= x
    BY <1>3 DEF Opener
  <2>2. open \subseteq Nat
    OBVIOUS
  <2>. HIDE DEF open
  <2>3. \A y \in open : (\A k \in open : k <= y) => y = x
    BY <2>1, <2>2
  <2>. QED BY <1>1, <1>3, <2>1, <2>3
<1>. QED BY <1>2, <1>3

(* The count sees every entry of a well formed file. *)
LEMMA WellFormedCounts ==
    ASSUME NEW f \in Seq(Lines), WellFormed(f) PROVE CountSeesAll(f)
<1>. SUFFICES ASSUME NEW i \in DOMAIN f, Entry(f, i) PROVE Counted(f, i)
  BY DEF CountSeesAll
<1>1. DOMAIN f = 1 .. Len(f) /\ Len(f) \in Nat
  OBVIOUS
<1>2. \A j \in DOMAIN f : f[j].comment = "" /\ (f[j].mark = "end" => j = Len(f))
  BY DEF WellFormed
<1>3. f[i].mark # "end" /\ ~Skipped(f[i])
  BY <1>2 DEF Entry, Skipped
<1>4. ASSUME NEW j \in 1 .. i PROVE ~Stops(f[j])
  <2>. DEFINE n == Len(f)
  <2>1. n \in Nat /\ i \in 1 .. n
    BY <1>1
  <2>. HIDE DEF n
  <2>2. j \in 1 .. n /\ (j = n => j = i)
    BY <2>1
  <2>3. j \in DOMAIN f /\ (j = Len(f) => j = i)
    BY <1>1, <2>2 DEF n
  <2>. QED BY <1>2, <1>3, <2>3 DEF Stops
<1>. QED BY <1>3, <1>4 DEF Counted

-----------------------------------------------------------------------------
(* What is said of the widgets. *)
LEMMA LastLineKept ==
    ASSUME NEW ws, NEW vs, NEW W, NEW x, \A b \in W : vs[b] = ws[b], LastLine(ws, W, x)
    PROVE  LastLine(vs, W, x)
BY DEF LastLine

LEMMA LineAboveIs ==
    ASSUME Grown, NEW w \in 1 .. Len(widgets), NEW x, LastLine(widgets, widgets[w].above, x)
    PROVE  LineAbove(w) = x
<1>. DEFINE W == widgets[w].above
            above == {widgets[b].line : b \in W}
<1>1. W \subseteq 1 .. Len(widgets) /\ \A b \in 1 .. Len(widgets) : widgets[b].line \in Nat
  <2>1. Len(widgets) \in Nat /\ W \subseteq 1 .. w - 1
    BY DEF Grown
  <2>. DEFINE R == [line : Nat, above : SUBSET Nat]
  <2>2. widgets \in Seq(R)
    BY DEF Grown
  <2>3. \A b \in 1 .. Len(widgets) : widgets[b] \in R
    <3>. HIDE DEF R
    <3>. QED BY <2>2
  <2>. QED BY <2>1, <2>3
<1>2. above \subseteq Nat /\ x \in above /\ \A k \in above : k <= x
  BY <1>1 DEF LastLine
<1>3. LineAbove(w) = CHOOSE l \in above : \A k \in above : k <= l
  BY DEF LineAbove
<1>. HIDE DEF above
<1>4. \A l \in above : (\A k \in above : k <= l) => l = x
  BY <1>2
<1>. QED BY <1>2, <1>3, <1>4

(* One more widget. *)
LEMMA NewOne ==
    ASSUME Grown, NEW l \in Nat, NEW p \in 0 .. Len(widgets), NewWidget(l, p), dead' = dead,
           NEW n, n = Len(widgets) + 1
    PROVE  /\ n \in Nat \ {0} /\ Len(widgets) \in Nat /\ Len(widgets') = n
           /\ widgets' \in Seq([line : Nat, above : SUBSET Nat])
           /\ \A w \in 1 .. n - 1 : widgets'[w] = widgets[w]
           /\ widgets'[n] = [line |-> l, above |-> Ancestors(p)]
           /\ \A w \in 1 .. n : widgets'[w].above \subseteq 1 .. w - 1
           /\ \A w \in 0 .. n - 1 : /\ Ancestors(w)' = Ancestors(w) /\ Ancestors(w) \subseteq 1 .. n - 1
                                   /\ (Alive(w)' <=> Alive(w))
           /\ Ancestors(n)' = Ancestors(p) \cup {n}
           /\ (Alive(p) => Alive(n)')
           /\ (Alive(p) => Buttons' = Buttons \cup (IF l # 0 THEN {n} ELSE {}))
<1>1. Len(widgets) \in Nat /\ n - 1 = Len(widgets) /\ n \in Nat \ {0}
  BY DEF Grown
<1>2. \A w \in 0 .. n - 1 : Ancestors(w) \subseteq 1 .. w
  BY <1>1 DEF Ancestors, Grown, Root
<1>3. Ancestors(p) \subseteq 1 .. n - 1 /\ Ancestors(p) \in SUBSET Nat
  <2>1. Ancestors(p) \subseteq 1 .. p
    BY <1>1, <1>2
  <2>. QED BY <1>1, <2>1
<1>4. widgets' = Append(widgets, [line |-> l, above |-> Ancestors(p)])
  BY DEF NewWidget
<1>. DEFINE R == [line : Nat, above : SUBSET Nat]
            r == [line |-> l, above |-> Ancestors(p)]
<1>5. r \in R /\ widgets \in Seq(R) /\ r.line = l /\ r.above = Ancestors(p)
  BY <1>3 DEF Grown
<1>6. Len(widgets') = n /\ widgets' \in Seq(R) /\ (\A w \in 1 .. n - 1 : widgets'[w] = widgets[w])
      /\ widgets'[n] = r
  <2>. HIDE DEF R, r
  <2>. QED BY <1>1, <1>4, <1>5 DEF r
<1>7. \A w \in 1 .. n : widgets'[w].above \subseteq 1 .. w - 1
  <2>. SUFFICES ASSUME NEW w \in 1 .. n PROVE widgets'[w].above \subseteq 1 .. w - 1
    OBVIOUS
  <2>1. CASE w = n
    BY <1>3, <1>5, <1>6, <2>1
  <2>2. CASE w \in 1 .. n - 1
    BY <1>1, <1>6, <2>2 DEF Grown
  <2>. QED BY <1>1, <2>1, <2>2
<1>8. \A w \in 0 .. n - 1 : Ancestors(w)' = Ancestors(w)
  <2>. SUFFICES ASSUME NEW w \in 0 .. n - 1 PROVE Ancestors(w)' = Ancestors(w)
    OBVIOUS
  <2>1. w = 0 \/ w \in 1 .. n - 1
    BY <1>1
  <2>2. w # 0 => widgets'[w] = widgets[w]
    BY <1>6, <2>1
  <2>. QED BY <2>2 DEF Ancestors, Root
<1>9. \A w \in 0 .. n - 1 : Alive(w)' <=> Alive(w)
  BY <1>8 DEF Alive
<1>10. Ancestors(n)' = Ancestors(p) \cup {n}
  BY <1>1, <1>5, <1>6 DEF Ancestors, Root
<1>11. n \notin dead
  BY <1>1 DEF Grown
<1>12. Alive(p) => Alive(n)'
  BY <1>10, <1>11 DEF Alive
<1>13. ASSUME Alive(p) PROVE Buttons' = Buttons \cup (IF l # 0 THEN {n} ELSE {})
  <2>1. \A w : w \in 1 .. Len(widgets') <=> w \in 1 .. n - 1 \/ w = n
    BY <1>1, <1>6
  <2>2. \A w \in 1 .. n - 1 : w \in 0 .. n - 1 /\ w # n
    BY <1>1
  <2>3. \A w \in 1 .. n - 1 : widgets'[w].line # 0 /\ Alive(w)' <=> widgets[w].line # 0 /\ Alive(w)
    BY <1>6, <1>9, <2>2
  <2>4. widgets'[n].line # 0 /\ Alive(n)' <=> l # 0
    BY <1>5, <1>6, <1>12, <1>13
  <2>5. \A w : w \in Buttons' <=> w \in 1 .. Len(widgets') /\ widgets'[w].line # 0 /\ Alive(w)'
    BY DEF Buttons
  <2>6. \A w : w \in Buttons <=> w \in 1 .. n - 1 /\ widgets[w].line # 0 /\ Alive(w)
    BY <1>1 DEF Buttons
  <2>. QED BY <2>1, <2>2, <2>3, <2>4, <2>5, <2>6
<1>14. \A w \in 0 .. n - 1 : Ancestors(w) \subseteq 1 .. n - 1
  BY <1>1, <1>2
<1>. QED BY <1>1, <1>6, <1>7, <1>8, <1>9, <1>10, <1>12, <1>13, <1>14

-----------------------------------------------------------------------------
(* The steps.  Those between two calls leave no button. *)
LEMMA TypesOfMenu == MenuInv =>
    /\ pc \in {"idle", "count", "enter", "read", "corrupt"} /\ status \in {"OK", "NOT_OK"}
    /\ (pc # "idle" => status = "NOT_OK")
    /\ file \in Seq(Lines) /\ Len(file) \in Nat /\ DOMAIN file = 1 .. Len(file)
    /\ ("Init" \notin failed /\ status = "NOT_OK" /\ pc \in {"idle", "count"} => Widget_Count = 0)
    /\ (pc \in {"enter", "read", "corrupt"} => pos \in 1 .. Len(file) + 1)
BY DEF MenuInv, HandlerInv, SlotInv

LEMMA NoButtons ==
    ASSUME MenuInv, TreeInv, failed = {}, status = "NOT_OK", pc \in {"idle", "count"}
    PROVE  Buttons = {} /\ Widget_Count = 0
<1>1. Widget_Count = 0
  BY TypesOfMenu
<1>. QED BY <1>1 DEF TreeInv, Kept

LEMMA KeptEmpty ==
    ASSUME Widget_Count = 0, Buttons = {} PROVE Kept
<1>1. Cardinality({}) = 0
  BY FS_EmptySet
<1>. QED BY <1>1 DEF Kept

LEMMA KeptEmptyNext ==
    ASSUME Widget_Count' = 0, Buttons' = {} PROVE Kept'
<1>1. Cardinality({}) = 0
  BY FS_EmptySet
<1>. QED BY <1>1 DEF Kept

LEMMA DestroyTree ==
    ASSUME MenuInv, TreeInv, failed = {}, pc = "idle", Destroy,
           UNCHANGED <<widgets, Menu_Widget, stack, entering, failed>>,
           pc' \in {"idle", "count"}
    PROVE  TreeInv'
<1>1. Grown /\ Calls /\ Kept
  BY DEF TreeInv
<1>2. status' = "NOT_OK" /\ Widget_Count' = 0 /\ menu_level' = 0 /\ dead' = dead \cup Destroyed
  <2>1. status # "OK" => Widget_Count = 0
    BY TypesOfMenu
  <2>. QED BY <2>1 DEF Destroy
<1>3. Destroyed \subseteq 1 .. Len(widgets)
  <2>1. {Menu_Widget[i] : i \in {j \in DOMAIN Menu_Widget : j < menu_level}} \ {NULL}
          \subseteq 1 .. Len(widgets)
    BY <1>1 DEF Grown
  <2>2. {Widget_Buffer[i] : i \in DOMAIN Widget_Buffer \cap 1 .. Widget_Count}
          \subseteq 1 .. Len(widgets)
    BY <1>1 DEF Kept, Buttons
  <2>. QED BY <2>1, <2>2 DEF Destroyed
<1>4. Grown'
  BY <1>1, <1>2, <1>3 DEF Grown
<1>5. Calls'
  BY <1>1, <1>2 DEF Calls
<1>6. Buttons' = {}
  <2>. SUFFICES ASSUME NEW w \in 1 .. Len(widgets), widgets[w].line # 0, Alive(w)' PROVE FALSE
    BY DEF Buttons
  <2>1. w \in Ancestors(w) /\ Ancestors(w)' = Ancestors(w)
    BY DEF Ancestors, Root
  <2>2. Alive(w) /\ w \notin Destroyed
    BY <1>2, <2>1 DEF Alive
  <2>3. w \in Buttons
    BY <2>2 DEF Buttons
  <2>4. status = "OK"
    BY <2>3, NoButtons, TypesOfMenu
  <2>5. PICK i \in 1 .. Widget_Count : w = Widget_Buffer[i]
    BY <1>1, <2>3 DEF Kept
  <2>6. i \in DOMAIN Widget_Buffer \cap 1 .. Widget_Count
    BY <1>1 DEF Kept
  <2>. QED BY <2>2, <2>4, <2>5, <2>6 DEF Destroyed
<1>7. Kept'
  BY <1>2, <1>6, KeptEmptyNext
<1>. QED BY <1>2, <1>4, <1>5, <1>7 DEF TreeInv

(* Nothing the tree depends on has changed. *)
LEMMA SameTree ==
    ASSUME MenuInv, TreeInv, failed = {}, status = "NOT_OK", pc \in {"idle", "count"},
           UNCHANGED <<tree, stack, entering, menu_level, Widget_Count, status, failed>>,
           pc' \in {"idle", "count"}
    PROVE  TreeInv'
<1>1. Buttons = {} /\ Widget_Count = 0
  BY NoButtons
<1>2. Buttons' = {}
  BY <1>1 DEF Buttons, Alive, Ancestors, tree
<1>3. Grown' /\ Calls'
  BY DEF TreeInv, Grown, Calls, tree
<1>. QED BY <1>1, <1>2, <1>3, KeptEmptyNext DEF TreeInv

LEMMA CountTree ==
    ASSUME MenuInv, TreeInv, failed = {}, Count, pc' = "enter"
    PROVE  TreeInv'
<1>1. pc = "count" /\ UNCHANGED <<status, file, stack, menu_level, tree, Widget_Count, failed>>
      /\ pos' = 1 /\ entering' = Root /\ asked' = {} /\ off' = {}
      /\ Tag' = [i \in 1 .. widget_buf_cnt' |-> ""]
  BY DEF Count
<1>2. Buttons = {} /\ Widget_Count = 0 /\ stack = <<>> /\ menu_level = 0 /\ status = "NOT_OK"
  BY <1>1, NoButtons, TypesOfMenu DEF TreeInv, Calls
<1>3. Buttons' = {}
  BY <1>1, <1>2 DEF Buttons, Alive, Ancestors, tree
<1>4. Grown'
  BY <1>1 DEF TreeInv, Grown, tree
<1>5. Calls'
  <2>1. Len(widgets) \in Nat /\ 0 \in 0 .. Len(widgets)
    BY DEF TreeInv, Grown
  <2>. QED BY <1>1, <1>2, <2>1 DEF TreeInv, Calls, tree, Alive, Ancestors, Root
<1>6. Kept'
  BY <1>1, <1>2, <1>3, KeptEmptyNext
<1>7. Depth(file, 1) = 0
  BY DepthFirst
<1>8. Drawn(pos)'
  <2>1. 1 .. pos' - 1 = {} /\ 1 .. Widget_Count' = {}
    <3>1. pos' = 1 /\ Widget_Count' = 0
      BY <1>1, <1>2
    <3>. QED BY <3>1
  <2>2. DOMAIN Tag' = 1 .. widget_buf_cnt'
    BY <1>1
  <2>3. \A i \in 1 .. widget_buf_cnt' : i > Widget_Count' => Tag'[i] = ""
    BY <1>1
  <2>. QED BY <1>1, <1>3, <2>1, <2>2, <2>3 DEF Drawn
<1>9. Drawing'
  <2>1. menu_level' = 0 /\ Len(stack') = 0 /\ stack' = <<>> /\ pc' = "enter"
    BY <1>1, <1>2
  <2>2. menu_level' = Depth(file', pos')
    BY <1>1, <1>7, <2>1
  <2>3. Len(stack') = menu_level' + (IF pc' = "read" THEN 1 ELSE 0)
    BY <2>1
  <2>4. 1 .. Len(stack') = {}
    BY <2>1
  <2>5. asked' = {} /\ entering' = Root
    BY <1>1
  <2>. QED BY <1>8, <2>1, <2>2, <2>3, <2>4, <2>5 DEF Drawing
<1>. QED BY <1>1, <1>2, <1>4, <1>5, <1>6, <1>9 DEF TreeInv

(* What is drawn stays drawn when a menu is made, which has no line. *)
LEMMA DrawnKept ==
    ASSUME Grown, NEW p, Drawn(p),
           \A w \in 1 .. Len(widgets) : widgets'[w] = widgets[w], Buttons' = Buttons,
           UNCHANGED <<file, Tag, Widget_Buffer, Widget_Count, widget_buf_cnt, off, asked>>,
           Kept
    PROVE  Drawn(p)'
<1>1. \A w \in Buttons : w \in 1 .. Len(widgets) /\ widgets[w].above \subseteq 1 .. Len(widgets)
  <2>. SUFFICES ASSUME NEW w \in Buttons
                PROVE  w \in 1 .. Len(widgets) /\ widgets[w].above \subseteq 1 .. Len(widgets)
    OBVIOUS
  <2>1. w \in 1 .. Len(widgets) /\ Len(widgets) \in Nat
    BY DEF Buttons, Grown
  <2>2. widgets[w].above \subseteq 1 .. w - 1
    BY <2>1 DEF Grown
  <2>. QED BY <2>1, <2>2
<1>2. \A w \in Buttons : widgets'[w] = widgets[w]
  BY <1>1
<1>3. ASSUME NEW w \in Buttons, NEW x, LastLine(widgets, widgets[w].above, x)
      PROVE  LastLine(widgets', widgets'[w].above, x)
  <2>1. \A b \in widgets[w].above : widgets'[b] = widgets[b]
    BY <1>1
  <2>2. LastLine(widgets', widgets[w].above, x)
    BY <1>3, <2>1, LastLineKept
  <2>. QED BY <1>2, <2>2
<1>4. \A w \in Buttons :
          LET l == widgets'[w].line IN
          /\ l \in 1 .. p - 1 /\ Entry(file', l)
          /\ \E x \in 0 .. Len(file') : Opener(file', l, Depth(file', l), x)
                                       /\ LastLine(widgets', widgets'[w].above, x)
  BY <1>2, <1>3 DEF Drawn
<1>5. \A l \in 1 .. p - 1 : Entry(file', l) => \E w \in Buttons : widgets'[w].line = l
  BY <1>2 DEF Drawn
<1>6. \A i \in 1 .. Widget_Count : Widget_Buffer[i] \in Buttons
  BY DEF Kept
<1>7. \A i \in 1 .. Widget_Count : Tag'[i] = file'[widgets'[Widget_Buffer'[i]].line].tag
  BY <1>2, <1>6 DEF Drawn
<1>8. off' = {w \in Buttons : LET l == file'[widgets'[w].line] IN ~l.enabled \/ l.tag \in asked'}
  BY <1>2 DEF Drawn
<1>9. /\ 1 .. Widget_Count' \subseteq DOMAIN Tag'
      /\ DOMAIN Tag' = 1 .. widget_buf_cnt'
      /\ \A i \in 1 .. widget_buf_cnt' : i > Widget_Count' => Tag'[i] = ""
  BY DEF Drawn
<1>. QED BY <1>4, <1>5, <1>7, <1>8, <1>9 DEF Drawn

LEMMA EnterTree ==
    ASSUME MenuInv, TreeInv, failed = {}, Enter
    PROVE  TreeInv'
<1>1. /\ pc = "enter" /\ pc' = "read" /\ menu_level \in DOMAIN Menu_Widget
      /\ NewWidget(0, entering) /\ stack' = Append(stack, Len(widgets'))
      /\ Menu_Widget' = [Menu_Widget EXCEPT ![menu_level] = Len(widgets')]
      /\ UNCHANGED <<status, file, pos, entering, menu_level, dead, off, Widget_Buffer,
                     Widget_Count, widget_buf_cnt, Tag, failed, asked>>
  BY DEF Enter, table
<1>2. Grown /\ Calls /\ Kept /\ status = "NOT_OK" /\ entering \in 0 .. Len(widgets)
      /\ Alive(entering)
  BY <1>1, TypesOfMenu DEF TreeInv, Calls
<1>3. PICK n : n = Len(widgets) + 1
  OBVIOUS
<1>4. /\ n \in Nat \ {0} /\ Len(widgets) \in Nat /\ Len(widgets') = n
      /\ widgets' \in Seq([line : Nat, above : SUBSET Nat])
      /\ \A w \in 1 .. n - 1 : widgets'[w] = widgets[w]
      /\ widgets'[n] = [line |-> 0, above |-> Ancestors(entering)]
      /\ \A w \in 1 .. n : widgets'[w].above \subseteq 1 .. w - 1
      /\ \A w \in 0 .. n - 1 : /\ Ancestors(w)' = Ancestors(w) /\ Ancestors(w) \subseteq 1 .. n - 1
                              /\ (Alive(w)' <=> Alive(w))
      /\ Ancestors(n)' = Ancestors(entering) \cup {n}
      /\ Alive(n)' /\ Buttons' = Buttons
  <2>1. 0 \in Nat
    OBVIOUS
  <2>. QED BY <1>1, <1>2, <1>3, <2>1, NewOne
<1>5. Grown'
  <2>1. dead' \subseteq 1 .. Len(widgets')
    BY <1>1, <1>2, <1>3, <1>4 DEF Grown
  <2>2. Menu_Widget' \in [0 .. MAX_MENU_LEVEL - 1 -> 1 .. Len(widgets') \cup {NULL}]
    BY <1>1, <1>2, <1>3, <1>4 DEF Grown
  <2>. QED BY <1>4, <2>1, <2>2 DEF Grown
<1>6. /\ stack \in Seq(1 .. n - 1) /\ Len(stack) \in Nat /\ Len(stack') = Len(stack) + 1
      /\ \A k \in 1 .. Len(stack) : stack'[k] = stack[k] /\ stack[k] \in 1 .. n - 1
      /\ stack'[Len(stack) + 1] = n /\ stack' \in Seq(1 .. n) /\ stack' # <<>>
  <2>1. stack \in Seq(1 .. n - 1)
    BY <1>2, <1>3, <1>4 DEF Calls
  <2>2. stack \in Seq(1 .. n) /\ n \in 1 .. n
    BY <1>4, <2>1
  <2>. QED BY <1>1, <1>4, <2>1, <2>2
<1>7. Calls'
  <2>1. ASSUME NEW k \in 1 .. Len(stack') PROVE Alive(stack[k])'
    <3>1. CASE k = Len(stack) + 1
      <4>1. stack'[k] = n
        BY <1>6, <3>1
      <4>. QED BY <1>4, <4>1 DEF Alive, Ancestors
    <3>2. CASE k \in 1 .. Len(stack)
      <4>1. PICK w \in 1 .. n - 1 : w = stack[k] /\ w = stack'[k]
        BY <1>6, <3>2
      <4>2. Alive(w) /\ w \in 0 .. n - 1
        <5>1. Alive(stack[k])
          BY <1>2, <3>2 DEF Calls
        <5>2. w \in 0 .. n - 1
          BY <1>4
        <5>. QED BY <4>1, <5>1, <5>2
      <4>3. Alive(w)'
        BY <1>4, <4>2
      <4>. QED BY <4>1, <4>3 DEF Alive, Ancestors
    <3>. QED BY <1>6, <3>1, <3>2
  <2>2. entering' \in 0 .. Len(widgets') /\ menu_level' \in Int
    BY <1>1, <1>2, <1>3, <1>4 DEF Calls
  <2>. QED BY <1>1, <1>4, <1>6, <2>1, <2>2 DEF Calls
<1>8. Kept'
  BY <1>1, <1>2, <1>4 DEF Kept
<1>9. ASSUME WellFormed(file) PROVE Drawing'
  <2>1. Drawing
    BY <1>1, <1>9 DEF TreeInv
  <2>2. Len(stack) = menu_level /\ menu_level = Depth(file, pos) /\ asked = {}
    BY <1>1, <1>6, <2>1 DEF Drawing, Calls
  <2>3. Len(stack') = menu_level' + 1 /\ menu_level' = Depth(file', pos')
    BY <1>1, <1>6, <2>2
  <2>4. Drawn(pos)'
    <3>1. \A w \in 1 .. Len(widgets) : widgets'[w] = widgets[w]
      BY <1>3, <1>4
    <3>2. PICK p : p = pos
      OBVIOUS
    <3>3. Drawn(p)
      BY <2>1, <3>2 DEF Drawing
    <3>4. Drawn(p)'
      BY <1>1, <1>2, <1>4, <3>1, <3>3, DrawnKept
    <3>. QED BY <1>1, <3>2, <3>4 DEF Drawn
  <2>5. ASSUME NEW k \in 1 .. Len(stack')
        PROVE  /\ Menu_Widget'[k - 1] = stack'[k] /\ widgets'[stack'[k]].line = 0
               /\ \E x \in 0 .. Len(file) : /\ Opener(file, pos, k - 1, x)
                                            /\ LastLine(widgets', Ancestors(stack[k])', x)
    <3>1. CASE k = Len(stack) + 1
      <4>1. stack'[k] = n /\ k - 1 = menu_level
        BY <1>6, <2>2, <3>1
      <4>2. Menu_Widget'[k - 1] = n /\ widgets'[n].line = 0
        BY <1>1, <1>2, <1>4, <4>1 DEF Grown
      <4>3. Ancestors(stack[k])' = Ancestors(entering) \cup {n}
        BY <1>4, <4>1 DEF Ancestors
      <4>4. CASE menu_level = 0
        <5>1. Ancestors(entering) = {}
          BY <1>1, <2>1, <4>4 DEF Drawing, Ancestors
        <5>2. LastLine(widgets', {n}, 0)
          BY <4>2 DEF LastLine
        <5>3. Opener(file, pos, 0, 0) /\ 0 \in 0 .. Len(file)
          BY TypesOfMenu DEF Opener
        <5>. QED BY <4>1, <4>2, <4>3, <4>4, <5>1, <5>2, <5>3
      <4>5. CASE menu_level # 0
        <5>1. PICK x \in 0 .. Len(file) : Opener(file, pos, menu_level, x)
                                          /\ LastLine(widgets, Ancestors(entering), x)
          BY <1>1, <2>1, <4>5 DEF Drawing
        <5>2. LastLine(widgets', Ancestors(entering), x)
          BY <1>2, <1>3, <1>4, <5>1, LastLineKept
        <5>3. LastLine(widgets', Ancestors(entering) \cup {n}, x)
          BY <4>2, <5>1, <5>2, TypesOfMenu DEF LastLine
        <5>. QED BY <4>1, <4>2, <4>3, <5>1, <5>3
      <4>. QED BY <4>4, <4>5
    <3>2. CASE k \in 1 .. Len(stack)
      <4>1. PICK w \in 1 .. n - 1 : w = stack[k] /\ w = stack'[k]
        BY <1>6, <3>2
      <4>2. w \in 0 .. n - 1 /\ k - 1 # menu_level
        BY <1>4, <1>6, <2>2, <3>2
      <4>3. Menu_Widget[k - 1] = w /\ widgets[w].line = 0
        BY <2>1, <3>2, <4>1 DEF Drawing
      <4>4. PICK x \in 0 .. Len(file) : Opener(file, pos, k - 1, x)
                                        /\ LastLine(widgets, Ancestors(w), x)
        BY <2>1, <3>2, <4>1 DEF Drawing
      <4>5. Menu_Widget'[k - 1] = w /\ widgets'[w].line = 0
        <5>1. Menu_Widget'[k - 1] = Menu_Widget[k - 1]
          BY <1>1, <1>2, <4>2 DEF Grown
        <5>. QED BY <1>4, <4>1, <4>3, <5>1
      <4>6. LastLine(widgets', Ancestors(w), x)
        BY <1>4, <4>2, <4>4, LastLineKept
      <4>7. Ancestors(stack[k])' = Ancestors(w)
        <5>1. Ancestors(w)' = Ancestors(w)
          BY <1>4, <4>2
        <5>. QED BY <4>1, <5>1 DEF Ancestors
      <4>. QED BY <4>1, <4>4, <4>5, <4>6, <4>7
    <3>. QED BY <1>6, <3>1, <3>2
  <2>6. widgets'[stack'[1]].above = {}
    <3>1. CASE Len(stack) = 0
      <4>1. Ancestors(entering) = {} /\ stack'[1] = n
        BY <1>1, <1>6, <2>1, <2>2, <3>1 DEF Drawing, Ancestors
      <4>. QED BY <1>4, <4>1
    <3>2. CASE Len(stack) # 0
      <4>1. 1 \in 1 .. Len(stack) /\ stack # <<>>
        BY <1>6, <3>2
      <4>2. stack'[1] = stack[1] /\ stack[1] \in 1 .. n - 1
        BY <1>6, <4>1
      <4>. QED BY <1>4, <2>1, <4>1, <4>2 DEF Drawing
    <3>. QED BY <3>1, <3>2
  <2>. QED BY <1>1, <2>2, <2>3, <2>4, <2>5, <2>6 DEF Drawing
<1>. QED BY <1>1, <1>2, <1>5, <1>7, <1>8, <1>9 DEF TreeInv

(* An entry read: one button more. *)
ReadEntry ==
    /\ pc = "read" /\ pos \in 1 .. Len(file) /\ Entry(file, pos) /\ pos' = pos + 1
    /\ NewButton
    /\ UNCHANGED <<status, file, stack, dead, Menu_Widget, widget_buf_cnt, failed, asked>>

LEMMA ButtonMade ==
    ASSUME MenuInv, TreeInv, failed = {}, ReadEntry, NEW n, n = Len(widgets) + 1,
           NEW p, p = Last(stack)
    PROVE  /\ n \in Nat \ {0} /\ Len(widgets) \in Nat /\ Len(widgets') = n
           /\ widgets' \in Seq([line : Nat, above : SUBSET Nat])
           /\ \A w \in 1 .. n - 1 : widgets'[w] = widgets[w]
           /\ widgets'[n] = [line |-> pos, above |-> Ancestors(p)]
           /\ \A w \in 1 .. n : widgets'[w].above \subseteq 1 .. w - 1
           /\ \A w \in 0 .. n - 1 : /\ Ancestors(w)' = Ancestors(w) /\ Ancestors(w) \subseteq 1 .. n - 1
                                   /\ (Alive(w)' <=> Alive(w))
           /\ Ancestors(n)' = Ancestors(p) \cup {n}
           /\ Alive(n)' /\ Buttons' = Buttons \cup {n}
           /\ Len(stack) \in Nat \ {0} /\ p = stack[Len(stack)] /\ p \in 1 .. n - 1
<1>1. Grown /\ Calls /\ NewWidget(pos, p) /\ dead' = dead
  BY DEF TreeInv, ReadEntry, NewButton
<1>2. stack \in Seq(1 .. Len(widgets)) /\ stack # <<>>
  BY <1>1 DEF Calls, ReadEntry
<1>3. Len(stack) \in Nat \ {0} /\ p = stack[Len(stack)] /\ p \in 1 .. Len(widgets)
  BY <1>2 DEF Last
<1>4. Len(widgets) \in Nat
  BY <1>1 DEF Grown
<1>5. p \in 0 .. Len(widgets) /\ pos \in Nat /\ pos # 0
  BY <1>3, <1>4, TypesOfMenu DEF ReadEntry
<1>6. Alive(p)
  <2>1. Len(stack) \in 1 .. Len(stack)
    BY <1>3
  <2>. QED BY <1>1, <1>3, <2>1 DEF Calls
<1>7. n - 1 = Len(widgets)
  BY <1>4
<1>. QED BY <1>1, <1>3, <1>5, <1>6, <1>7, NewOne

LEMMA ButtonKept ==
    ASSUME MenuInv, TreeInv, failed = {}, ReadEntry
    PROVE  /\ Grown' /\ Kept'
           /\ \A k \in 1 .. Len(stack) : Alive(stack[k])'
           /\ stack' \in Seq(1 .. Len(widgets')) /\ stack' # <<>>
<1>1. PICK n : n = Len(widgets) + 1
  OBVIOUS
<1>2. PICK p : p = Last(stack)
  OBVIOUS
<1>3. /\ n \in Nat \ {0} /\ Len(widgets) \in Nat /\ Len(widgets') = n
      /\ widgets' \in Seq([line : Nat, above : SUBSET Nat])
      /\ \A w \in 1 .. n : widgets'[w].above \subseteq 1 .. w - 1
      /\ \A w \in 0 .. n - 1 : Alive(w)' <=> Alive(w)
      /\ Buttons' = Buttons \cup {n}
  BY <1>1, <1>2, ButtonMade
<1>4. Grown /\ Calls /\ Kept /\ n - 1 = Len(widgets)
  BY <1>1, <1>3 DEF TreeInv
<1>5. Grown'
  <2>1. dead' \subseteq 1 .. Len(widgets')
    BY <1>3, <1>4 DEF Grown, ReadEntry
  <2>2. Menu_Widget' \in [0 .. MAX_MENU_LEVEL - 1 -> 1 .. Len(widgets') \cup {NULL}]
    BY <1>3, <1>4 DEF Grown, ReadEntry
  <2>. QED BY <1>3, <2>1, <2>2 DEF Grown
<1>6. Kept'
  <2>1. Widget_Count \in Nat /\ Widget_Count' = Widget_Count + 1
        /\ Widget_Buffer' = Store(Widget_Count + 1, n, Widget_Buffer)
    BY <1>3, <1>4 DEF Kept, ReadEntry, NewButton
  <2>2. 1 .. Widget_Count' \subseteq DOMAIN Widget_Buffer'
    BY <1>4, <2>1 DEF Kept, Store
  <2>3. \A i \in 1 .. Widget_Count : Widget_Buffer'[i] = Widget_Buffer[i]
    BY <1>4, <2>1 DEF Kept, Store
  <2>4. Widget_Buffer'[Widget_Count + 1] = n
    BY <2>1 DEF Store
  <2>5. \A i : i \in 1 .. Widget_Count' <=> i \in 1 .. Widget_Count \/ i = Widget_Count + 1
    BY <2>1
  <2>6. Buttons' = {Widget_Buffer'[i] : i \in 1 .. Widget_Count'}
    <3>. DEFINE S == {Widget_Buffer'[i] : i \in 1 .. Widget_Count'}
    <3>1. \A w : w \in Buttons <=> \E i \in 1 .. Widget_Count : w = Widget_Buffer[i]
      BY <1>4 DEF Kept
    <3>2. \A w : w \in S <=> \E i \in 1 .. Widget_Count' : w = Widget_Buffer'[i]
      OBVIOUS
    <3>. HIDE DEF S
    <3>3. \A w : w \in S <=> w \in Buttons \/ w = n
      BY <2>3, <2>4, <2>5, <3>1, <3>2
    <3>. QED BY <1>3, <3>3 DEF S
  <2>7. Cardinality(Buttons') = Widget_Count'
    <3>1. Buttons \subseteq 1 .. n - 1
      BY <1>4 DEF Buttons
    <3>2. IsFiniteSet(Buttons)
      <4>1. 1 \in Int /\ n - 1 \in Int
        BY <1>3
      <4>2. IsFiniteSet(1 .. n - 1)
        BY <4>1, FS_Interval
      <4>. QED BY <3>1, <4>2, FS_Subset
    <3>3. n \notin Buttons
      BY <1>3, <3>1
    <3>4. Cardinality(Buttons) = Widget_Count
      BY <1>4 DEF Kept
    <3>. QED BY <1>3, <2>1, <3>2, <3>3, <3>4, FS_AddElement
  <2>. QED BY <2>1, <2>2, <2>6, <2>7 DEF Kept
<1>7. stack' \in Seq(1 .. Len(widgets')) /\ stack' # <<>> /\ Len(stack) \in Nat
  <2>1. stack' = stack /\ stack # <<>> /\ stack \in Seq(1 .. n - 1)
    BY <1>4 DEF Calls, ReadEntry
  <2>2. stack \in Seq(1 .. n)
    BY <1>3, <2>1
  <2>. QED BY <1>3, <2>1, <2>2
<1>8. ASSUME NEW k \in 1 .. Len(stack) PROVE Alive(stack[k])'
  <2>1. PICK w \in 1 .. n - 1 : w = stack[k] /\ w = stack'[k]
    BY <1>3, <1>4 DEF Calls, ReadEntry
  <2>2. Alive(stack[k]) /\ w \in 0 .. n - 1
    BY <1>3, <1>4 DEF Calls
  <2>3. Alive(w)'
    BY <1>3, <2>1, <2>2
  <2>. QED BY <2>1, <2>3 DEF Alive, Ancestors
<1>. QED BY <1>5, <1>6, <1>7, <1>8

LEMMA EntryDrawn ==
    ASSUME MenuInv, TreeInv, failed = {}, ReadEntry, WellFormed(file)
    PROVE  Drawn(pos)'
<1>1. PICK n : n = Len(widgets) + 1
  OBVIOUS
<1>2. PICK p : p = Last(stack)
  OBVIOUS
<1>3. /\ n \in Nat \ {0} /\ Len(widgets) \in Nat /\ n - 1 = Len(widgets)
      /\ \A w \in 1 .. n - 1 : widgets'[w] = widgets[w]
      /\ widgets'[n] = [line |-> pos, above |-> Ancestors(p)]
      /\ Ancestors(p) \subseteq 1 .. n - 1
      /\ Buttons' = Buttons \cup {n}
      /\ Len(stack) \in Nat \ {0} /\ p = stack[Len(stack)]
  <2>1. \A w \in 0 .. n - 1 : Ancestors(w) \subseteq 1 .. n - 1
    BY <1>1, <1>2, ButtonMade
  <2>2. p \in 1 .. n - 1 /\ n \in Nat \ {0} /\ Len(widgets) \in Nat
    BY <1>1, <1>2, ButtonMade
  <2>3. p \in 0 .. n - 1 /\ n - 1 = Len(widgets)
    BY <1>1, <2>2
  <2>4. Ancestors(p) \subseteq 1 .. n - 1
    BY <2>1, <2>3
  <2>5. /\ \A w \in 1 .. n - 1 : widgets'[w] = widgets[w]
        /\ widgets'[n] = [line |-> pos, above |-> Ancestors(p)]
        /\ Buttons' = Buttons \cup {n}
        /\ Len(stack) \in Nat \ {0} /\ p = stack[Len(stack)]
    BY <1>1, <1>2, ButtonMade
  <2>. QED BY <2>2, <2>3, <2>4, <2>5
<1>4. Grown /\ Calls /\ Kept /\ Drawing /\ pc = "read" /\ pos \in 1 .. Len(file) /\ Entry(file, pos)
      /\ pos' = pos + 1 /\ UNCHANGED <<file, widget_buf_cnt, asked>> /\ file \in Seq(Lines)
      /\ Len(file) \in Nat
  BY TypesOfMenu DEF TreeInv, ReadEntry
<1>5. Drawn(pos) /\ asked = {} /\ menu_level = Depth(file, pos) /\ Len(stack) = menu_level + 1
      /\ menu_level \in Int
  BY <1>4 DEF Drawing, Calls
<1>6. Widget_Count \in Nat /\ Widget_Count' = Widget_Count + 1
      /\ Widget_Buffer' = Store(Widget_Count + 1, n, Widget_Buffer)
      /\ Tag' = Store(Widget_Count + 1, file[pos].tag, Tag)
      /\ off' = (IF file[pos].enabled THEN off ELSE off \cup {n})
  <2>1. Len(widgets') = n
    BY <1>1, <1>2, ButtonMade
  <2>. QED BY <1>4, <2>1 DEF Kept, ReadEntry, NewButton
<1>7. \A w \in Buttons : /\ w \in 1 .. n - 1 /\ w # n /\ widgets'[w] = widgets[w]
                         /\ widgets[w].above \subseteq 1 .. n - 1
  <2>. SUFFICES ASSUME NEW w \in Buttons
                PROVE  w \in 1 .. n - 1 /\ widgets[w].above \subseteq 1 .. n - 1
    BY <1>3
  <2>1. w \in 1 .. n - 1
    BY <1>3 DEF Buttons
  <2>2. widgets[w].above \subseteq 1 .. w - 1
    BY <1>3, <1>4, <2>1 DEF Grown
  <2>. QED BY <1>3, <2>1, <2>2
<1>8. ASSUME NEW w \in Buttons'
      PROVE  LET l == widgets'[w].line IN
             /\ l \in 1 .. pos' - 1 /\ Entry(file, l)
             /\ \E x \in 0 .. Len(file) : /\ Opener(file, l, Depth(file, l), x)
                                          /\ LastLine(widgets', widgets'[w].above, x)
  <2>1. CASE w \in Buttons
    <3>1. widgets[w].line \in 1 .. pos - 1 /\ Entry(file, widgets[w].line)
      BY <1>5, <2>1 DEF Drawn
    <3>2. PICK x \in 0 .. Len(file) : /\ Opener(file, widgets[w].line, Depth(file, widgets[w].line), x)
                                      /\ LastLine(widgets, widgets[w].above, x)
      BY <1>5, <2>1 DEF Drawn
    <3>3. LastLine(widgets', widgets[w].above, x)
      BY <1>3, <1>7, <2>1, <3>2, LastLineKept
    <3>4. widgets'[w] = widgets[w] /\ widgets[w].line \in 1 .. pos' - 1
      BY <1>4, <1>7, <2>1, <3>1
    <3>. QED BY <3>1, <3>2, <3>3, <3>4
  <2>2. CASE w = n
    <3>1. Len(stack) \in 1 .. Len(stack) /\ Len(stack) - 1 = menu_level
      BY <1>3, <1>5
    <3>2. PICK x \in 0 .. Len(file) : Opener(file, pos, menu_level, x)
                                      /\ LastLine(widgets, Ancestors(p), x)
      BY <1>3, <1>4, <3>1 DEF Drawing
    <3>3. LastLine(widgets', Ancestors(p), x)
      BY <1>3, <3>2, LastLineKept
    <3>4. pos \in 1 .. pos' - 1 /\ widgets'[w].line = pos /\ widgets'[w].above = Ancestors(p)
      BY <1>3, <1>4, <2>2
    <3>. QED BY <1>4, <1>5, <3>2, <3>3, <3>4
  <2>. QED BY <1>3, <2>1, <2>2
<1>9. \A l \in 1 .. pos' - 1 : Entry(file, l) => \E w \in Buttons' : widgets'[w].line = l
  <2>. SUFFICES ASSUME NEW l \in 1 .. pos' - 1, Entry(file, l)
                PROVE  \E w \in Buttons' : widgets'[w].line = l
    OBVIOUS
  <2>1. CASE l = pos
    BY <1>3, <2>1
  <2>2. CASE l \in 1 .. pos - 1
    BY <1>3, <1>5, <1>7, <2>2 DEF Drawn
  <2>. QED BY <1>4, <2>1, <2>2
<1>10. Widget_Count + 1 \in 1 .. widget_buf_cnt
  <2>1. Widget_Count = Cardinality(Before(file, pos)) /\ widget_buf_cnt = Get_Widget_Count(file)
    BY <1>4 DEF MenuInv, SlotInv
  <2>2. Cardinality(Before(file, pos + 1)) = Widget_Count + 1
    BY <1>4, <2>1, NextEntry
  <2>3. pos + 1 \in 1 .. Len(file) + 1
    BY <1>4
  <2>4. Cardinality(Before(file, pos + 1)) <= Get_Widget_Count(file)
    BY <1>4, <2>3, WellFormedCounts, EnoughSlots
  <2>5. Get_Widget_Count(file) \in Nat
    <3>1. IsFiniteSet(1 .. Len(file)) /\ DOMAIN file = 1 .. Len(file)
      BY <1>4, FS_Interval
    <3>2. IsFiniteSet({i \in DOMAIN file : Counted(file, i)})
      BY <3>1, FS_Subset
    <3>. QED BY <3>2, FS_CardinalityType DEF Get_Widget_Count
  <2>. QED BY <1>6, <2>1, <2>2, <2>4, <2>5
<1>11. /\ 1 .. Widget_Count' \subseteq DOMAIN Tag' /\ DOMAIN Tag' = 1 .. widget_buf_cnt'
       /\ \A i \in 1 .. widget_buf_cnt' : i > Widget_Count' => Tag'[i] = ""
  <2>1. DOMAIN Tag' = DOMAIN Tag \cup {Widget_Count + 1}
        /\ \A i \in DOMAIN Tag : i # Widget_Count + 1 => Tag'[i] = Tag[i]
    BY <1>6 DEF Store
  <2>2. DOMAIN Tag = 1 .. widget_buf_cnt /\ 1 .. Widget_Count \subseteq DOMAIN Tag
    BY <1>5 DEF Drawn
  <2>3. DOMAIN Tag' = 1 .. widget_buf_cnt'
    BY <1>4, <1>10, <2>1, <2>2
  <2>4. 1 .. Widget_Count' \subseteq DOMAIN Tag'
    BY <1>6, <2>1, <2>2
  <2>5. ASSUME NEW i \in 1 .. widget_buf_cnt', i > Widget_Count' PROVE Tag'[i] = ""
    <3>1. i \in 1 .. widget_buf_cnt /\ i > Widget_Count /\ i # Widget_Count + 1
      BY <1>4, <1>6, <2>5
    <3>2. Tag[i] = ""
      BY <1>5, <3>1 DEF Drawn
    <3>. QED BY <2>1, <2>2, <3>1, <3>2
  <2>. QED BY <2>3, <2>4, <2>5
<1>12. ASSUME NEW i \in 1 .. Widget_Count'
       PROVE  Tag'[i] = file[widgets'[Widget_Buffer'[i]].line].tag
  <2>1. CASE i = Widget_Count + 1
    BY <1>3, <1>6, <2>1 DEF Store
  <2>2. CASE i \in 1 .. Widget_Count
    <3>1. i # Widget_Count + 1 /\ i \in DOMAIN Tag /\ i \in DOMAIN Widget_Buffer
      <4>1. 1 .. Widget_Count \subseteq DOMAIN Tag
        BY <1>5 DEF Drawn
      <4>2. 1 .. Widget_Count \subseteq DOMAIN Widget_Buffer
        BY <1>4 DEF Kept
      <4>. QED BY <1>6, <2>2, <4>1, <4>2
    <3>2. Tag'[i] = Tag[i] /\ Widget_Buffer'[i] = Widget_Buffer[i]
      BY <1>6, <3>1 DEF Store
    <3>3. Widget_Buffer[i] \in Buttons
      BY <1>4, <2>2 DEF Kept
    <3>4. Tag[i] = file[widgets[Widget_Buffer[i]].line].tag
      BY <1>5, <2>2 DEF Drawn
    <3>. QED BY <1>7, <3>2, <3>3, <3>4
  <2>. QED BY <1>6, <2>1, <2>2
<1>13. off' = {w \in Buttons' : LET l == file[widgets'[w].line] IN ~l.enabled \/ l.tag \in asked'}
  <2>. DEFINE S == {w \in Buttons' : LET l == file[widgets'[w].line] IN ~l.enabled \/ l.tag \in asked'}
  <2>1. \A w : w \in S <=> w \in Buttons' /\ ~file[widgets'[w].line].enabled
    BY <1>4, <1>5
  <2>2. \A w : w \in off <=> w \in Buttons /\ ~file[widgets[w].line].enabled
    BY <1>5 DEF Drawn
  <2>3. \A w : w \in off' <=> w \in off \/ (w = n /\ ~file[pos].enabled)
    BY <1>6
  <2>4. \A w : w \in Buttons' <=> w \in Buttons \/ w = n
    BY <1>3
  <2>5. widgets'[n].line = pos
    BY <1>3
  <2>. HIDE DEF S
  <2>6. \A w : w \in S <=> w \in off'
    BY <1>7, <2>1, <2>2, <2>3, <2>4, <2>5
  <2>. QED BY <2>6 DEF S
<1>. QED BY <1>4, <1>8, <1>9, <1>11, <1>12, <1>13 DEF Drawn

LEMMA ReadItemTree ==
    ASSUME MenuInv, TreeInv, failed = {}, ReadItem
    PROVE  TreeInv'
<1>1. ReadEntry /\ file[pos].mark = "item" /\ pc' = pc /\ UNCHANGED <<entering, menu_level>>
  <2>1. pos \in 1 .. Len(file)
    BY TypesOfMenu DEF ReadItem, NextLine
  <2>. QED BY <2>1 DEF ReadItem, NextLine, ReadEntry, Entry
<1>2. /\ Grown' /\ Kept' /\ \A k \in 1 .. Len(stack) : Alive(stack[k])'
      /\ stack' \in Seq(1 .. Len(widgets')) /\ stack' # <<>>
  BY <1>1, ButtonKept
<1>3. PICK n : n = Len(widgets) + 1
  OBVIOUS
<1>4. PICK p : p = Last(stack)
  OBVIOUS
<1>5. /\ n \in Nat \ {0} /\ Len(widgets) \in Nat /\ Len(widgets') = n
      /\ \A w \in 1 .. n - 1 : widgets'[w] = widgets[w]
      /\ \A w \in 0 .. n - 1 : Ancestors(w)' = Ancestors(w) /\ Ancestors(w) \subseteq 1 .. n - 1
  BY <1>1, <1>3, <1>4, ButtonMade
<1>6. pc = "read" /\ pc' = "read" /\ stack' = stack /\ status = "NOT_OK" /\ status' = "NOT_OK"
      /\ Calls /\ file \in Seq(Lines) /\ pos \in 1 .. Len(file) /\ pos' = pos + 1 /\ file' = file
  BY <1>1, TypesOfMenu DEF ReadEntry, TreeInv
<1>7. Calls'
  <2>1. entering' \in 0 .. Len(widgets') /\ menu_level' \in Int
    BY <1>1, <1>3, <1>5, <1>6 DEF Calls
  <2>. QED BY <1>2, <1>6, <2>1 DEF Calls
<1>8. ASSUME WellFormed(file) PROVE Drawing'
  <2>1. Drawing
    BY <1>6, <1>8 DEF TreeInv
  <2>2. Drawn(pos)'
    BY <1>1, <1>8, EntryDrawn
  <2>3. Depth(file, pos + 1) = Depth(file, pos)
    <3>1. Depth(file, pos) \in Int
          /\ Depth(file, pos + 1) = Depth(file, pos) + (IF file[pos].mark = "sub" THEN 1
                                                        ELSE IF file[pos].mark = "back" THEN -1 ELSE 0)
      BY <1>6, DepthNext
    <3>2. file[pos].mark # "sub" /\ file[pos].mark # "back"
      BY <1>1
    <3>. QED BY <3>1, <3>2
  <2>4. menu_level' = Depth(file', pos') /\ Len(stack') = menu_level' + 1 /\ asked' = {}
    BY <1>1, <1>6, <2>1, <2>3 DEF Drawing, ReadEntry
  <2>5. ASSUME NEW k \in 1 .. Len(stack)
        PROVE  /\ Menu_Widget'[k - 1] = stack[k] /\ widgets'[stack[k]].line = 0
               /\ \E x \in 0 .. Len(file) : /\ Opener(file, pos', k - 1, x)
                                            /\ LastLine(widgets', Ancestors(stack[k])', x)
    <3>1. PICK w \in 1 .. n - 1 : w = stack[k] /\ w = stack'[k]
      BY <1>3, <1>5, <1>6 DEF Calls
    <3>2. Menu_Widget'[k - 1] = w /\ widgets'[w].line = 0
      BY <1>1, <1>5, <2>1, <3>1 DEF Drawing, ReadEntry
    <3>3. PICK x \in 0 .. Len(file) : Opener(file, pos, k - 1, x)
                                      /\ LastLine(widgets, Ancestors(w), x)
      BY <2>1, <3>1 DEF Drawing
    <3>4. w \in 0 .. n - 1
      BY <1>5
    <3>5. LastLine(widgets', Ancestors(w), x)
      BY <1>5, <3>3, <3>4, LastLineKept
    <3>6. Ancestors(stack[k])' = Ancestors(w)
      <4>1. Ancestors(w)' = Ancestors(w)
        BY <1>5, <3>4
      <4>. QED BY <3>1, <4>1 DEF Ancestors
    <3>7. Opener(file, pos', k - 1, x)
      <4>1. k - 1 \in Nat
        OBVIOUS
      <4>. QED BY <1>1, <1>6, <3>3, <4>1, OpenerNext
    <3>. QED BY <3>1, <3>2, <3>5, <3>6, <3>7
  <2>6. widgets'[stack[1]].above = {}
    <3>1. Len(stack) \in Nat /\ 1 \in 1 .. Len(stack) /\ stack[1] \in 1 .. n - 1
      BY <1>2, <1>3, <1>5, <1>6 DEF Calls
    <3>. QED BY <1>2, <1>5, <1>6, <2>1, <3>1 DEF Drawing
  <2>. QED BY <1>6, <2>2, <2>4, <2>5, <2>6 DEF Drawing
<1>. QED BY <1>2, <1>6, <1>7, <1>8 DEF TreeInv

LEMMA ReadSubTree ==
    ASSUME MenuInv, TreeInv, failed = {}, ReadSub
    PROVE  TreeInv'
<1>1. ReadEntry /\ file[pos].mark = "sub" /\ pc' = "enter" /\ menu_level' = menu_level + 1
      /\ entering' = Len(widgets')
  <2>1. pos \in 1 .. Len(file)
    BY TypesOfMenu DEF ReadSub, NextLine
  <2>. QED BY <2>1 DEF ReadSub, NextLine, ReadEntry, Entry
<1>2. /\ Grown' /\ Kept' /\ \A k \in 1 .. Len(stack) : Alive(stack[k])'
      /\ stack' \in Seq(1 .. Len(widgets')) /\ stack' # <<>>
  BY <1>1, ButtonKept
<1>3. PICK n : n = Len(widgets) + 1
  OBVIOUS
<1>4. PICK p : p = Last(stack)
  OBVIOUS
<1>5. /\ n \in Nat \ {0} /\ Len(widgets) \in Nat /\ Len(widgets') = n
      /\ \A w \in 1 .. n - 1 : widgets'[w] = widgets[w]
      /\ widgets'[n] = [line |-> pos, above |-> Ancestors(p)]
      /\ \A w \in 0 .. n - 1 : Ancestors(w)' = Ancestors(w) /\ Ancestors(w) \subseteq 1 .. n - 1
      /\ Ancestors(n)' = Ancestors(p) \cup {n} /\ Alive(n)'
      /\ Len(stack) \in Nat \ {0} /\ p = stack[Len(stack)] /\ p \in 1 .. n - 1
  BY <1>1, <1>3, <1>4, ButtonMade
<1>6. pc = "read" /\ stack' = stack /\ status = "NOT_OK" /\ status' = "NOT_OK"
      /\ Calls /\ file \in Seq(Lines) /\ pos \in 1 .. Len(file) /\ pos' = pos + 1 /\ file' = file
  BY <1>1, TypesOfMenu DEF ReadEntry, TreeInv
<1>7. Calls'
  <2>1. entering' \in 0 .. Len(widgets') /\ menu_level' \in Int
    BY <1>1, <1>5, <1>6 DEF Calls
  <2>2. Alive(entering)'
    BY <1>1, <1>5 DEF Alive, Ancestors
  <2>. QED BY <1>1, <1>2, <1>6, <2>1, <2>2 DEF Calls
<1>8. ASSUME WellFormed(file) PROVE Drawing'
  <2>1. Drawing
    BY <1>6, <1>8 DEF TreeInv
  <2>2. Drawn(pos)'
    BY <1>1, <1>8, EntryDrawn
  <2>3. Depth(file, pos) \in Int /\ Depth(file, pos + 1) = Depth(file, pos) + 1
    BY <1>1, <1>6, DepthNext
  <2>4. menu_level = Depth(file, pos) /\ Len(stack) = menu_level + 1
    BY <1>6, <2>1 DEF Drawing
  <2>5. menu_level' = Depth(file', pos') /\ Len(stack') = menu_level' /\ asked' = {}
        /\ menu_level \in Nat /\ menu_level' # 0
    BY <1>1, <1>5, <1>6, <2>1, <2>3, <2>4 DEF Drawing, ReadEntry
  <2>6. ASSUME NEW k \in 1 .. Len(stack)
        PROVE  /\ Menu_Widget'[k - 1] = stack[k] /\ widgets'[stack[k]].line = 0
               /\ \E x \in 0 .. Len(file) : /\ Opener(file, pos', k - 1, x)
                                            /\ LastLine(widgets', Ancestors(stack[k])', x)
    <3>1. PICK w \in 1 .. n - 1 : w = stack[k] /\ w = stack'[k]
      BY <1>3, <1>5, <1>6 DEF Calls
    <3>2. Menu_Widget'[k - 1] = w /\ widgets'[w].line = 0
      BY <1>1, <1>5, <2>1, <3>1 DEF Drawing, ReadEntry
    <3>3. PICK x \in 0 .. Len(file) : Opener(file, pos, k - 1, x)
                                      /\ LastLine(widgets, Ancestors(w), x)
      BY <2>1, <3>1 DEF Drawing
    <3>4. w \in 0 .. n - 1
      BY <1>5
    <3>5. LastLine(widgets', Ancestors(w), x)
      BY <1>5, <3>3, <3>4, LastLineKept
    <3>6. Ancestors(stack[k])' = Ancestors(w)
      <4>1. Ancestors(w)' = Ancestors(w)
        BY <1>5, <3>4
      <4>. QED BY <3>1, <4>1 DEF Ancestors
    <3>7. Opener(file, pos', k - 1, x)
      <4>1. k - 1 \in Nat /\ Depth(file, pos) # k - 1 - 1
        BY <1>5, <2>3, <2>4
      <4>. QED BY <1>6, <3>3, <4>1, OpenerNext
    <3>. QED BY <3>1, <3>2, <3>5, <3>6, <3>7
  <2>7. widgets'[stack[1]].above = {}
    <3>1. 1 \in 1 .. Len(stack) /\ stack[1] \in 1 .. n - 1
      BY <1>3, <1>5, <1>6 DEF Calls
    <3>. QED BY <1>2, <1>5, <1>6, <2>1, <3>1 DEF Drawing
  <2>8. pos \in 0 .. Len(file) /\ Opener(file, pos', menu_level', pos)
    <3>1. Depth(file, pos) \in Nat
      BY <2>4, <2>5
    <3>. QED BY <1>1, <1>6, <2>4, <3>1, OpenerNew
  <2>9. LastLine(widgets', Ancestors(entering)', pos)
    <3>0. p \in 0 .. n - 1
      BY <1>5
    <3>1. Len(stack) \in 1 .. Len(stack) /\ Len(stack) - 1 = menu_level
      BY <1>5, <2>4, <2>5
    <3>2. PICK x \in 0 .. Len(file) : Opener(file, pos, menu_level, x)
                                      /\ LastLine(widgets, Ancestors(p), x)
      BY <1>5, <2>1, <3>1 DEF Drawing
    <3>3. x <= pos
      BY <1>6, <3>2 DEF Opener
    <3>4. \A b \in Ancestors(p) : widgets'[b] = widgets[b] /\ widgets[b].line <= x
      BY <1>5, <3>0, <3>2 DEF LastLine
    <3>5. \A b \in Ancestors(p) : widgets[b].line \in Nat
      <4>. DEFINE R == [line : Nat, above : SUBSET Nat]
      <4>1. widgets \in Seq(R)
        BY DEF TreeInv, Grown
      <4>2. \A b \in 1 .. n - 1 : widgets[b] \in R
        <5>. HIDE DEF R
        <5>. QED BY <1>3, <1>5, <4>1
      <4>. QED BY <1>5, <3>0, <4>2
    <3>6. \A b \in Ancestors(p) : widgets'[b].line <= pos
      BY <1>6, <3>3, <3>4, <3>5
    <3>7. LastLine(widgets', Ancestors(p) \cup {n}, pos)
      BY <1>5, <1>6, <3>6 DEF LastLine
    <3>8. Ancestors(entering)' = Ancestors(n)'
      BY <1>1, <1>5 DEF Ancestors
    <3>. QED BY <1>5, <3>7, <3>8
  <2>. QED BY <1>1, <1>6, <2>2, <2>5, <2>6, <2>7, <2>8, <2>9 DEF Drawing
<1>. QED BY <1>1, <1>2, <1>6, <1>7, <1>8 DEF TreeInv

(* A line that makes no button, and the end of a call of                   *)
(* Generate_Menu_Items that has returned a menu.                           *)
Still ==
    UNCHANGED <<file, entering, tree, off, table, asked>>

LEMMA StillKept ==
    ASSUME Grown, Kept, Still
    PROVE  /\ Grown' /\ Kept' /\ Buttons' = Buttons
           /\ \A w : (Alive(w)' <=> Alive(w)) /\ Ancestors(w)' = Ancestors(w)
<1>1. \A w : Ancestors(w)' = Ancestors(w)
  BY DEF Ancestors, Still, tree
<1>2. \A w : Alive(w)' <=> Alive(w)
  BY <1>1 DEF Alive, Still, tree
<1>3. Buttons' = Buttons
  BY <1>2 DEF Buttons, Still, tree
<1>4. Grown' /\ Kept'
  BY <1>3 DEF Grown, Kept, Still, tree, table
<1>. QED BY <1>1, <1>2, <1>3, <1>4

LEMMA StillDrawn ==
    ASSUME Still, Grown, Kept, file \in Seq(Lines), NEW p \in 1 .. Len(file), Drawn(p),
           ~Entry(file, p)
    PROVE  Drawn(p + 1)'
<1>1. \A l : l \in 1 .. p + 1 - 1 <=> l \in 1 .. p - 1 \/ l = p
  OBVIOUS
<1>2. Drawn(p + 1)
  <2>1. \A w \in Buttons : widgets[w].line \in 1 .. p + 1 - 1
    BY <1>1 DEF Drawn
  <2>2. \A l \in 1 .. p + 1 - 1 : Entry(file, l) => \E w \in Buttons : widgets[w].line = l
    BY <1>1 DEF Drawn
  <2>3. \A w \in Buttons :
           /\ Entry(file, widgets[w].line)
           /\ \E x \in 0 .. Len(file) :
                 /\ Opener(file, widgets[w].line, Depth(file, widgets[w].line), x)
                 /\ LastLine(widgets, widgets[w].above, x)
    BY DEF Drawn
  <2>. DEFINE q == p + 1
  <2>4. /\ \A w \in Buttons : widgets[w].line \in 1 .. q - 1
        /\ \A l \in 1 .. q - 1 : Entry(file, l) => \E w \in Buttons : widgets[w].line = l
    BY <2>1, <2>2
  <2>. HIDE DEF q
  <2>5. Drawn(q)
    BY <2>3, <2>4 DEF Drawn
  <2>. QED BY <2>5 DEF q
<1>3. Buttons' = Buttons
  BY StillKept
<1>. QED BY <1>2, <1>3 DEF Drawn, Still, tree, table

(* The calls that go on. *)
LEMMA StillDrawing ==
    ASSUME MenuInv, TreeInv, failed = {}, pc = "read", pc' = "read", WellFormed(file), Still,
           pos \in 1 .. Len(file), ~Entry(file, pos), pos' = pos + 1,
           stack' \in Seq(1 .. Len(widgets)), Len(stack') = menu_level' + 1,
           menu_level' = Depth(file, pos + 1),
           \A k \in 1 .. Len(stack') : k \in 1 .. Len(stack) /\ stack'[k] = stack[k],
           stack' # <<>>
    PROVE  Drawing'
<1>1. Grown /\ Calls /\ Kept /\ Drawing /\ file \in Seq(Lines)
  BY TypesOfMenu DEF TreeInv
<1>2. file' = file /\ asked' = {} /\ widgets' = widgets /\ Menu_Widget' = Menu_Widget
  BY <1>1 DEF Still, Drawing, tree
<1>3. Drawn(pos)'
  <2>1. PICK p : p = pos
    OBVIOUS
  <2>2. Drawn(p)
    BY <1>1, <2>1 DEF Drawing
  <2>3. Drawn(p + 1)'
    BY <1>1, <2>1, <2>2, StillDrawn
  <2>. QED BY <2>1, <2>3 DEF Drawn
<1>4. ASSUME NEW k \in 1 .. Len(stack')
      PROVE  /\ Menu_Widget'[k - 1] = stack'[k] /\ widgets'[stack'[k]].line = 0
             /\ \E x \in 0 .. Len(file) : /\ Opener(file, pos', k - 1, x)
                                          /\ LastLine(widgets', Ancestors(stack[k])', x)
  <2>1. PICK w : w = stack[k] /\ w = stack'[k]
    BY <1>4
  <2>2. Menu_Widget[k - 1] = w /\ widgets[w].line = 0
    BY <1>1, <2>1 DEF Drawing
  <2>3. PICK x \in 0 .. Len(file) : Opener(file, pos, k - 1, x)
                                    /\ LastLine(widgets, Ancestors(w), x)
    BY <1>1, <2>1 DEF Drawing
  <2>4. k - 1 \in Nat
    OBVIOUS
  <2>5. file[pos].mark # "sub"
    BY DEF Entry
  <2>6. Opener(file, pos', k - 1, x)
    BY <1>1, <2>3, <2>4, <2>5, OpenerNext
  <2>7. Ancestors(stack[k])' = Ancestors(w)
    BY <1>2, <2>1 DEF Ancestors
  <2>. QED BY <1>2, <2>1, <2>2, <2>3, <2>6, <2>7
<1>5. widgets'[stack'[1]].above = {}
  <2>1. Len(stack') \in Nat /\ Len(stack') # 0
    OBVIOUS
  <2>2. 1 \in 1 .. Len(stack') /\ stack # <<>>
    BY <1>1, <2>1 DEF Calls
  <2>. QED BY <1>1, <1>2, <2>2 DEF Drawing
<1>. QED BY <1>2, <1>3, <1>4, <1>5 DEF Drawing

LEMMA ReadOtherTree ==
    ASSUME MenuInv, TreeInv, failed = {}, ReadOther
    PROVE  TreeInv'
<1>1. /\ pc = "read" /\ pc' = "read" /\ pos' = pos + 1 /\ file[pos].mark \in {"blank", "other"}
      /\ Still /\ UNCHANGED <<status, stack, menu_level, failed>> /\ pos \in 1 .. Len(file)
  BY TypesOfMenu DEF ReadOther, NextLine, Still
<1>2. Grown /\ Calls /\ Kept /\ file \in Seq(Lines) /\ status = "NOT_OK" /\ file' = file
  BY <1>1, TypesOfMenu DEF TreeInv, Still
<1>3. Grown' /\ Kept' /\ \A w : (Alive(w)' <=> Alive(w))
  BY <1>1, <1>2, StillKept
<1>4. Calls'
  <2>1. \A k \in 1 .. Len(stack) : Alive(stack[k])'
    BY <1>1, <1>2 DEF Calls, Alive, Ancestors, Still, tree
  <2>. QED BY <1>1, <1>2, <2>1 DEF Calls, Still, tree
<1>5. ASSUME WellFormed(file) PROVE Drawing'
  <2>1. ~Entry(file, pos) /\ file[pos].mark # "sub" /\ file[pos].mark # "back"
    BY <1>1 DEF Entry
  <2>2. Depth(file, pos) \in Int /\ Depth(file, pos + 1) = Depth(file, pos)
    <3>1. Depth(file, pos) \in Int
          /\ Depth(file, pos + 1) = Depth(file, pos) + (IF file[pos].mark = "sub" THEN 1
                                                        ELSE IF file[pos].mark = "back" THEN -1 ELSE 0)
      BY <1>1, <1>2, DepthNext
    <3>. QED BY <2>1, <3>1
  <2>3. menu_level = Depth(file, pos) /\ Len(stack) = menu_level + 1
    BY <1>1, <1>5 DEF TreeInv, Drawing
  <2>4. stack \in Seq(1 .. Len(widgets)) /\ stack # <<>>
    BY <1>1, <1>2 DEF Calls
  <2>. QED BY <1>1, <1>5, <2>1, <2>2, <2>3, <2>4, StillDrawing
<1>. QED BY <1>1, <1>2, <1>3, <1>4, <1>5 DEF TreeInv

LEMMA FrontOf ==
    ASSUME NEW S, NEW s \in Seq(S), s # <<>>
    PROVE  /\ Front(s) \in Seq(S) /\ Len(s) \in Nat \ {0} /\ Len(Front(s)) = Len(s) - 1
           /\ \A k \in 1 .. Len(s) - 1 : Front(s)[k] = s[k]
<1>1. Len(s) \in Nat \ {0}
  OBVIOUS
<1>2. PICK n \in Nat : n = Len(s) - 1
  BY <1>1
<1>3. Front(s) = SubSeq(s, 1, n)
  BY <1>2 DEF Front
<1>4. SubSeq(s, 1, n) \in Seq(S) /\ Len(SubSeq(s, 1, n)) = n
      /\ \A k \in 1 .. n : SubSeq(s, 1, n)[k] = s[k]
  BY <1>1, <1>2
<1>. QED BY <1>1, <1>2, <1>3, <1>4

(* A call returns and none has failed. *)
LEMMA ReturnKept ==
    ASSUME MenuInv, TreeInv, failed = {}, failed' = {}, pc = "read", Still, NEW v,
           Return(Front(stack), v), menu_level' \in Int
    PROVE  /\ Grown' /\ Calls' /\ Kept'
           /\ Len(stack) \in Nat \ {0} /\ stack' = Front(stack) /\ Len(stack') = Len(stack) - 1
           /\ \A k \in 1 .. Len(stack') : k \in 1 .. Len(stack) /\ stack'[k] = stack[k]
           /\ stack' \in Seq(1 .. Len(widgets))
           /\ IF Len(stack) = 1
              THEN pc' = "idle" /\ status' = "OK" /\ Main_Menu' = v
              ELSE pc' = "read" /\ status' = "NOT_OK" /\ stack' # <<>>
<1>1. Grown /\ Calls /\ Kept /\ status = "NOT_OK"
  BY TypesOfMenu DEF TreeInv
<1>2. stack \in Seq(1 .. Len(widgets)) /\ stack # <<>> /\ Len(stack) \in Nat \ {0}
  BY <1>1 DEF Calls
<1>3. /\ stack' = Front(stack) /\ stack' \in Seq(1 .. Len(widgets))
      /\ Len(stack') = Len(stack) - 1
      /\ \A k \in 1 .. Len(stack') : k \in 1 .. Len(stack) /\ stack'[k] = stack[k]
      /\ (stack' = <<>> <=> Len(stack) = 1)
  <2>1. stack' = Front(stack)
    BY DEF Return
  <2>2. /\ Front(stack) \in Seq(1 .. Len(widgets)) /\ Len(Front(stack)) = Len(stack) - 1
        /\ \A k \in 1 .. Len(stack) - 1 : Front(stack)[k] = stack[k]
    BY <1>2, FrontOf
  <2>3. stack' \in Seq(1 .. Len(widgets)) /\ Len(stack') = Len(stack) - 1
    BY <2>1, <2>2
  <2>4. stack' = <<>> <=> Len(stack) = 1
    <3>1. ASSUME NEW S, NEW s \in Seq(S) PROVE s = <<>> <=> Len(s) = 0
      OBVIOUS
    <3>2. stack' = <<>> <=> Len(stack') = 0
      BY <2>3, <3>1
    <3>. QED BY <1>2, <2>3, <3>2
  <2>5. \A k \in 1 .. Len(stack') : k \in 1 .. Len(stack)
    BY <1>2, <2>3
  <2>. QED BY <2>1, <2>2, <2>3, <2>4, <2>5
<1>4. v # NULL
  BY DEF Return
<1>5. IF Len(stack) = 1
      THEN pc' = "idle" /\ status' = "OK" /\ Main_Menu' = v
      ELSE pc' = "read" /\ status' = "NOT_OK" /\ stack' # <<>>
  BY <1>1, <1>3, <1>4 DEF Return
<1>6. Grown' /\ Kept'
  BY <1>1, StillKept
<1>7. Calls'
  <2>1. ASSUME NEW k \in 1 .. Len(stack') PROVE Alive(stack[k])'
    <3>1. Alive(stack[k]) /\ stack'[k] = stack[k]
      BY <1>1, <1>3, <2>1 DEF Calls
    <3>. QED BY <3>1 DEF Alive, Ancestors, Still, tree
  <2>2. widgets' = widgets /\ entering' = entering
    BY DEF Still, tree
  <2>3. pc' \in {"idle", "read"} /\ (pc' = "idle" => stack' = <<>> /\ status' = "OK")
        /\ (pc' = "read" => stack' # <<>>)
    BY <1>3, <1>5
  <2>4. entering' \in 0 .. Len(widgets') /\ stack' \in Seq(1 .. Len(widgets'))
    BY <1>1, <1>3, <2>2 DEF Calls
  <2>. QED BY <2>1, <2>3, <2>4 DEF Calls
<1>. QED BY <1>2, <1>3, <1>5, <1>6, <1>7

LEMMA GoBackTree ==
    ASSUME MenuInv, TreeInv, failed = {}, failed' = {}, GoBack
    PROVE  TreeInv'
<1>1. /\ pc = "read" /\ pos' = pos + 1 /\ file[pos].mark = "back" /\ Still
      /\ pos \in 1 .. Len(file) /\ menu_level' = menu_level - 1 /\ file' = file
      /\ Return(Front(stack), Last(stack)) /\ file \in Seq(Lines)
  BY TypesOfMenu DEF GoBack, NextLine, Still
<1>2. menu_level \in Int /\ menu_level' \in Int
  BY <1>1 DEF TreeInv, Calls
<1>. DEFINE v == Last(stack)
<1>. HIDE DEF v
<1>3. /\ Grown' /\ Calls' /\ Kept'
      /\ Len(stack) \in Nat \ {0} /\ stack' = Front(stack) /\ Len(stack') = Len(stack) - 1
      /\ \A k \in 1 .. Len(stack') : k \in 1 .. Len(stack) /\ stack'[k] = stack[k]
      /\ stack' \in Seq(1 .. Len(widgets))
      /\ IF Len(stack) = 1
         THEN pc' = "idle" /\ status' = "OK" /\ Main_Menu' = v
         ELSE pc' = "read" /\ status' = "NOT_OK" /\ stack' # <<>>
  BY <1>1, <1>2, ReturnKept DEF v
<1>4. ASSUME WellFormed(file) PROVE pc' = "read" /\ status' = "NOT_OK" /\ Drawing'
  <2>1. Depth(file, pos) \in Int /\ Depth(file, pos + 1) = Depth(file, pos) - 1
    <3>1. Depth(file, pos) \in Int
          /\ Depth(file, pos + 1) = Depth(file, pos) + (IF file[pos].mark = "sub" THEN 1
                                                        ELSE IF file[pos].mark = "back" THEN -1 ELSE 0)
      BY <1>1, DepthNext
    <3>2. file[pos].mark # "sub"
      BY <1>1
    <3>. QED BY <1>1, <3>1, <3>2
  <2>2. menu_level = Depth(file, pos) /\ Len(stack) = menu_level + 1
    BY <1>1, <1>4 DEF TreeInv, Drawing
  <2>3. Depth(file, pos + 1) >= 0
    <3>1. pos + 1 \in 1 .. Len(file) + 1
      BY <1>1
    <3>2. Depth(file, pos + 1) \in 0 .. MAX_MENU_LEVEL - 1
      BY <1>4, <3>1 DEF WellFormed
    <3>. QED BY <3>2
  <2>4. Len(stack) # 1
    BY <2>1, <2>2, <2>3
  <2>5. menu_level' = Depth(file, pos + 1) /\ Len(stack') = menu_level' + 1
    BY <1>1, <1>2, <1>3, <2>1, <2>2
  <2>6. ~Entry(file, pos)
    BY <1>1 DEF Entry
  <2>. QED BY <1>1, <1>3, <1>4, <2>4, <2>5, <2>6, StillDrawing
<1>. QED BY <1>1, <1>3, <1>4 DEF TreeInv

(* The outermost call returns its menu: the tree is complete. *)
LEMMA Complete ==
    ASSUME MenuInv, TreeInv, failed = {}, failed' = {}, pc = "read", WellFormed(file), Still, NEW v,
           Return(Front(stack), v), menu_level' = menu_level, menu_level = 0,
           v = stack[1], Drawn(Len(file) + 1)'
    PROVE  TreeInv'
<1>1. Grown /\ Calls /\ Kept /\ Drawing
  BY DEF TreeInv
<1>2. Len(stack) = 1 /\ menu_level' \in Int
  BY <1>1 DEF Drawing
<1>3. Grown' /\ Calls' /\ Kept' /\ pc' = "idle" /\ status' = "OK" /\ Main_Menu' = v
  BY <1>2, ReturnKept
<1>4. 1 \in 1 .. Len(stack) /\ stack # <<>>
  BY <1>1, <1>2 DEF Calls
<1>5. v \in 1 .. Len(widgets) /\ Alive(v) /\ widgets[v].line = 0 /\ widgets[v].above = {}
  BY <1>1, <1>4 DEF Calls, Drawing
<1>6. widgets[v] = [line |-> 0, above |-> {}]
  <2>. DEFINE R == [line : Nat, above : SUBSET Nat]
  <2>1. widgets \in Seq(R)
    BY <1>1 DEF Grown
  <2>2. widgets[v] \in R
    <3>. HIDE DEF R
    <3>. QED BY <1>5, <2>1
  <2>. QED BY <1>5, <2>2
<1>7. /\ Main_Menu' \in 1 .. Len(widgets') /\ Alive(Main_Menu)'
      /\ widgets'[Main_Menu'] = [line |-> 0, above |-> {}]
  BY <1>3, <1>5, <1>6 DEF Still, tree, Alive, Ancestors
<1>. QED BY <1>3, <1>7 DEF TreeInv, Still

LEMMA FileEndTree ==
    ASSUME MenuInv, TreeInv, failed = {}, failed' = {}, FileEnd
    PROVE  TreeInv'
<1>1. /\ pc = "read" /\ pos' = pos + 1 /\ file[pos].mark = "end" /\ Still
      /\ pos \in 1 .. Len(file) /\ menu_level' = menu_level /\ file' = file
      /\ Return(Front(stack), Last(stack)) /\ file \in Seq(Lines)
  BY TypesOfMenu DEF FileEnd, NextLine, Still
<1>2. menu_level \in Int /\ menu_level' \in Int /\ Grown /\ Calls /\ Kept
  BY <1>1 DEF TreeInv, Calls
<1>. DEFINE v == Last(stack)
<1>. HIDE DEF v
<1>3. /\ Grown' /\ Calls' /\ Kept'
      /\ IF Len(stack) = 1
         THEN pc' = "idle" /\ status' = "OK" /\ Main_Menu' = v
         ELSE pc' = "read" /\ status' = "NOT_OK" /\ stack' # <<>>
  BY <1>1, <1>2, ReturnKept DEF v
<1>4. CASE WellFormed(file)
  <2>1. Drawing /\ pos = Len(file)
    <3>1. pos \in DOMAIN file
      BY <1>1, TypesOfMenu
    <3>2. pos = Len(file)
      BY <1>1, <1>4, <3>1 DEF WellFormed
    <3>. QED BY <1>1, <1>4, <3>2 DEF TreeInv
  <2>2. Depth(file, pos) = 0
    <3>1. Depth(file, pos) \in Int
          /\ Depth(file, pos + 1) = Depth(file, pos) + (IF file[pos].mark = "sub" THEN 1
                                                        ELSE IF file[pos].mark = "back" THEN -1 ELSE 0)
      BY <1>1, DepthNext
    <3>2. file[pos].mark # "sub" /\ file[pos].mark # "back"
      BY <1>1
    <3>3. Depth(file, pos + 1) = 0
      BY <1>4, <2>1 DEF WellFormed
    <3>. QED BY <3>1, <3>2, <3>3
  <2>3. menu_level = 0 /\ Len(stack) = 1
    BY <1>1, <2>1, <2>2 DEF Drawing
  <2>4. v = stack[1]
    BY <2>3 DEF v, Last
  <2>5. Drawn(Len(file) + 1)'
    <3>1. PICK p : p = pos
      OBVIOUS
    <3>2. Drawn(p) /\ ~Entry(file, p)
      BY <1>1, <2>1, <3>1 DEF Drawing, Entry
    <3>3. Drawn(p + 1)'
      BY <1>1, <1>2, <3>1, <3>2, StillDrawn
    <3>. QED BY <1>1, <2>1, <3>1, <3>3 DEF Drawn
  <2>. QED BY <1>1, <1>4, <2>3, <2>4, <2>5, Complete DEF v
<1>5. CASE ~WellFormed(file)
  BY <1>1, <1>3, <1>5 DEF TreeInv
<1>. QED BY <1>4, <1>5

LEMMA LinesOverTree ==
    ASSUME MenuInv, TreeInv, failed = {}, failed' = {}, LinesOver
    PROVE  TreeInv'
<1>1. /\ pc = "read" /\ pos' = pos /\ pos > Len(file) /\ Still
      /\ menu_level' = menu_level /\ file' = file /\ file \in Seq(Lines) /\ Len(file) \in Nat
      /\ pos \in 1 .. Len(file) + 1
  BY TypesOfMenu DEF LinesOver, Still
<1>2. menu_level \in Int /\ menu_level' \in Int /\ Grown /\ Calls /\ Kept
  BY <1>1 DEF TreeInv, Calls
<1>3. PICK v \in (IF menu_level \in DOMAIN Menu_Widget THEN {Menu_Widget[menu_level]} ELSE {Root}) :
          Return(Front(stack), v)
  BY DEF LinesOver
<1>4. /\ Grown' /\ Calls' /\ Kept'
      /\ IF Len(stack) = 1
         THEN pc' = "idle" /\ status' = "OK" /\ Main_Menu' = v
         ELSE pc' = "read" /\ status' = "NOT_OK" /\ stack' # <<>>
  BY <1>1, <1>2, <1>3, ReturnKept
<1>5. CASE WellFormed(file)
  <2>1. Drawing /\ pos = Len(file) + 1
    BY <1>1, <1>5 DEF TreeInv
  <2>2. menu_level = 0 /\ Len(stack) = 1
    <3>1. Depth(file, Len(file) + 1) = 0
      BY <1>5 DEF WellFormed
    <3>. QED BY <1>1, <2>1, <3>1 DEF Drawing
  <2>3. v = stack[1]
    <3>1. 0 \in DOMAIN Menu_Widget
      <4>1. DOMAIN Menu_Widget = 0 .. MAX_MENU_LEVEL - 1
        BY <1>2 DEF Grown
      <4>2. MAX_MENU_LEVEL \in Nat \ {0}
        BY MenuAssumption
      <4>. QED BY <4>1, <4>2
    <3>2. 1 \in 1 .. Len(stack) /\ 1 - 1 = 0
      BY <2>2
    <3>3. Menu_Widget[1 - 1] = stack[1]
      BY <2>1, <3>2 DEF Drawing
    <3>. QED BY <1>3, <2>2, <3>1, <3>2, <3>3
  <2>4. Drawn(Len(file) + 1)'
    <3>1. PICK p : p = pos
      OBVIOUS
    <3>2. Drawn(p)
      BY <2>1, <3>1 DEF Drawing
    <3>3. Buttons' = Buttons
      BY <1>1, <1>2, StillKept
    <3>4. Drawn(p)'
      BY <1>1, <3>2, <3>3 DEF Drawn, Still, tree, table
    <3>. QED BY <1>1, <2>1, <3>1, <3>4 DEF Drawn
  <2>. QED BY <1>1, <1>3, <1>5, <2>2, <2>3, <2>4, Complete
<1>6. CASE ~WellFormed(file)
  BY <1>1, <1>4, <1>6 DEF TreeInv
<1>. QED BY <1>5, <1>6

(* A tag that is asked for: all the buttons that have it, and no other.    *)
LEMMA DisableTree ==
    ASSUME MenuInv, TreeInv, failed = {}, NEW tag \in Tags, Disable_Item(tag)
    PROVE  TreeInv'
<1>1. /\ pc = "idle" /\ pc' = pc /\ asked' = asked \cup {tag}
      /\ UNCHANGED <<status, file, pos, stack, entering, menu_level, tree, table, Main_Menu, failed>>
      /\ off' = off \cup {Widget_Buffer[i] : i \in {j \in 1 .. widget_buf_cnt : Tag[j] = tag}}
  BY DEF Disable_Item, reading
<1>2. Grown /\ Calls /\ Kept
  BY DEF TreeInv
<1>3. Buttons' = Buttons
  BY <1>1 DEF Buttons, Alive, Ancestors, tree
<1>4. Grown' /\ Calls' /\ Kept'
  BY <1>1, <1>2, <1>3 DEF Grown, Calls, Kept, Alive, Ancestors, tree, table
<1>5. ASSUME WellFormed(file), status = "OK"
      PROVE  /\ Drawn(Len(file) + 1)'
             /\ Main_Menu' \in 1 .. Len(widgets') /\ Alive(Main_Menu)'
             /\ widgets'[Main_Menu'] = [line |-> 0, above |-> {}]
  <2>1. Drawn(Len(file) + 1) /\ Main_Menu \in 1 .. Len(widgets) /\ Alive(Main_Menu)
        /\ widgets[Main_Menu] = [line |-> 0, above |-> {}]
    BY <1>5 DEF TreeInv
  <2>2. off' = {w \in Buttons : LET l == file[widgets[w].line] IN
                                   ~l.enabled \/ l.tag \in asked \cup {tag}}
    <3>. DEFINE S == {w \in Buttons : LET l == file[widgets[w].line] IN
                                         ~l.enabled \/ l.tag \in asked \cup {tag}}
    <3>1. \A w : w \in S <=> w \in Buttons /\ (~file[widgets[w].line].enabled
                                \/ file[widgets[w].line].tag \in asked
                                \/ file[widgets[w].line].tag = tag)
      OBVIOUS
    <3>2. \A w : w \in off <=> w \in Buttons /\ (~file[widgets[w].line].enabled
                                  \/ file[widgets[w].line].tag \in asked)
      BY <2>1 DEF Drawn
    <3>3. \A w : w \in off' <=> w \in off \/ \E i \in 1 .. widget_buf_cnt :
                                               Tag[i] = tag /\ w = Widget_Buffer[i]
      BY <1>1
    <3>. HIDE DEF S
    <3>4. ASSUME NEW w \in Buttons, file[widgets[w].line].tag = tag PROVE w \in off'
      <4>1. PICK i \in 1 .. Widget_Count : w = Widget_Buffer[i]
        BY <1>2 DEF Kept
      <4>2. Tag[i] = tag /\ i \in 1 .. widget_buf_cnt
        <5>1. Tag[i] = file[widgets[Widget_Buffer[i]].line].tag
          BY <2>1 DEF Drawn
        <5>2. 1 .. Widget_Count \subseteq 1 .. widget_buf_cnt
          BY <2>1 DEF Drawn
        <5>. QED BY <3>4, <4>1, <5>1, <5>2
      <4>. QED BY <3>3, <4>1, <4>2
    <3>5. ASSUME NEW i \in 1 .. widget_buf_cnt, Tag[i] = tag
          PROVE  Widget_Buffer[i] \in Buttons /\ file[widgets[Widget_Buffer[i]].line].tag = tag
      <4>1. i \in 1 .. Widget_Count
        <5>1. i > Widget_Count => Tag[i] = ""
          BY <2>1 DEF Drawn
        <5>2. ~(i > Widget_Count)
          BY <3>5, <5>1, MenuAssumption
        <5>3. Widget_Count \in Nat
          BY <1>2 DEF Kept
        <5>. QED BY <5>2, <5>3
      <4>2. Tag[i] = file[widgets[Widget_Buffer[i]].line].tag
        BY <2>1, <4>1 DEF Drawn
      <4>3. Widget_Buffer[i] \in Buttons
        BY <1>2, <4>1 DEF Kept
      <4>. QED BY <3>5, <4>2, <4>3
    <3>6. \A w : w \in S => w \in off'
      BY <3>1, <3>2, <3>3, <3>4
    <3>7. \A w : w \in off' => w \in S
      BY <3>1, <3>2, <3>3, <3>5
    <3>8. off' = S
      BY <3>6, <3>7
    <3>. QED BY <3>8 DEF S
  <2>3. Drawn(Len(file) + 1)'
    <3>. DEFINE p == Len(file) + 1
    <3>1. PICK q : q = p
      OBVIOUS
    <3>2. Drawn(q)
      BY <2>1, <3>1
    <3>. HIDE DEF p
    <3>3. /\ \A w \in Buttons' :
              LET l == widgets'[w].line IN
              /\ l \in 1 .. q - 1 /\ Entry(file', l)
              /\ \E x \in 0 .. Len(file') : Opener(file', l, Depth(file', l), x)
                                           /\ LastLine(widgets', widgets'[w].above, x)
          /\ \A l \in 1 .. q - 1 : Entry(file', l) => \E w \in Buttons' : widgets'[w].line = l
          /\ 1 .. Widget_Count' \subseteq DOMAIN Tag' /\ DOMAIN Tag' = 1 .. widget_buf_cnt'
          /\ \A i \in 1 .. Widget_Count' : Tag'[i] = file'[widgets'[Widget_Buffer'[i]].line].tag
          /\ \A i \in 1 .. widget_buf_cnt' : i > Widget_Count' => Tag'[i] = ""
      BY <1>1, <1>3, <3>2 DEF Drawn, tree, table
    <3>4. off' = {w \in Buttons' : LET l == file'[widgets'[w].line] IN ~l.enabled \/ l.tag \in asked'}
      BY <1>1, <1>3, <2>2 DEF tree
    <3>5. Drawn(q)'
      BY <3>3, <3>4 DEF Drawn
    <3>6. q = (Len(file) + 1)'
      BY <1>1, <3>1 DEF p
    <3>. QED BY <3>5, <3>6 DEF Drawn
  <2>4. Main_Menu' = Main_Menu /\ widgets' = widgets
    BY <1>1 DEF tree
  <2>. QED BY <1>1, <2>1, <2>3, <2>4 DEF Alive, Ancestors, tree
<1>. QED BY <1>1, <1>4, <1>5, TypesOfMenu DEF TreeInv

(* A step that leaves everything, or that ends the object. *)
LEMMA StutterTree == MenuInv /\ TreeInv /\ UNCHANGED vars => TreeInv'
<1>. SUFFICES ASSUME TreeInv, UNCHANGED vars, failed = {} PROVE TreeInv'
  BY DEF TreeInv, vars
<1>1. Grown /\ Calls /\ Kept
  BY DEF TreeInv
<1>2. UNCHANGED <<pc, status, file, pos, stack, entering, menu_level, widgets, dead, Menu_Widget,
                  off, Widget_Buffer, Widget_Count, widget_buf_cnt, Tag, Main_Menu, failed, asked>>
  BY DEF vars, reading, tree, table
<1>3. \A w : Ancestors(w)' = Ancestors(w) /\ (Alive(w)' <=> Alive(w))
  BY <1>2 DEF Alive, Ancestors
<1>4. Buttons' = Buttons
  BY <1>2, <1>3 DEF Buttons
<1>5. Grown' /\ Kept'
  BY <1>1, <1>2, <1>4 DEF Grown, Kept
<1>6. Calls'
  BY <1>1, <1>2 DEF Calls, Alive, Ancestors
<1>7. Drawn(pos) => Drawn(pos)'
  BY <1>2, <1>4 DEF Drawn
<1>8. Drawn(Len(file) + 1) => Drawn(Len(file) + 1)'
  BY <1>2, <1>4 DEF Drawn
<1>9. Drawing => Drawing'
  BY <1>2, <1>7 DEF Drawing, Ancestors
<1>10. Alive(Main_Menu) => Alive(Main_Menu)'
  BY <1>2 DEF Alive, Ancestors
<1>. QED BY <1>2, <1>5, <1>6, <1>8, <1>9, <1>10 DEF TreeInv
LEMMA CorruptTree ==
    ASSUME MenuInv, TreeInv, failed = {}, EnterBeyond
    PROVE  TreeInv'
<1>1. /\ pc = "enter" /\ pc' = "corrupt" /\ UNCHANGED <<status, stack, entering, menu_level, tree, failed>>
      /\ UNCHANGED table /\ status = "NOT_OK"
  BY TypesOfMenu DEF EnterBeyond, reading
<1>2. Buttons' = Buttons
  BY <1>1 DEF Buttons, Alive, Ancestors, tree
<1>3. Grown' /\ Calls' /\ Kept'
  BY <1>1, <1>2 DEF TreeInv, Grown, Calls, Kept, Alive, Ancestors, tree, table
<1>. QED BY <1>1, <1>3 DEF TreeInv

LEMMA InitTree == Init => TreeInv
<1>. SUFFICES ASSUME Init PROVE TreeInv
  OBVIOUS
<1>1. widgets = <<>> /\ Len(widgets) = 0 /\ Widget_Count = 0 /\ stack = <<>> /\ Len(stack) = 0
  BY DEF Init
<1>2. Buttons = {}
  BY <1>1 DEF Buttons
<1>3. Kept
  BY <1>1, <1>2, KeptEmpty
<1>4. Grown
  <2>1. widgets \in Seq([line : Nat, above : SUBSET Nat])
    BY <1>1
  <2>2. 1 .. Len(widgets) = {}
    BY <1>1
  <2>. QED BY <2>1, <2>2 DEF Init, Grown
<1>5. Calls
  <2>1. 1 .. Len(stack) = {} /\ 0 \in 0 .. Len(widgets) /\ stack \in Seq(1 .. Len(widgets))
    BY <1>1
  <2>. QED BY <2>1 DEF Init, Calls, Root
<1>. QED BY <1>3, <1>4, <1>5 DEF Init, TreeInv

LEMMA NextTree == MenuInv /\ TreeInv /\ [Next]_vars => TreeInv'
<1>. SUFFICES ASSUME MenuInv, TreeInv, [Next]_vars, failed' = {} PROVE TreeInv'
  BY DEF TreeInv
<1>1. CASE UNCHANGED vars
  BY <1>1, StutterTree
<1>2. ASSUME Next PROVE failed = {}
  BY <1>2 DEF Next, InitMenu, Disable_Item, Detach, Count, CountFails, Enter, EnterFails,
          EnterBeyond, ReadItem, ReadSub, ReadOther, GoBack, FileEnd, ReadBad, LinesOver, Return
<1>3. ASSUME NEW f \in Files, InitMenu(f), failed = {} PROVE TreeInv'
  <2>1. /\ pc = "idle" /\ pc' \in {"idle", "count"}
        /\ UNCHANGED <<stack, entering, widgets, Menu_Widget, failed>>
    BY <1>3 DEF InitMenu
  <2>2. CASE status = "OK"
    <3>1. Destroy
      BY <1>3, <2>2 DEF InitMenu
    <3>. QED BY <1>3, <2>1, <3>1, DestroyTree
  <2>3. CASE status # "OK"
    <3>1. UNCHANGED <<tree, stack, entering, menu_level, Widget_Count, status, failed>>
      BY <1>3, <2>1, <2>3 DEF InitMenu, tree
    <3>2. status = "NOT_OK"
      BY <2>3, TypesOfMenu
    <3>. QED BY <1>3, <2>1, <3>1, <3>2, SameTree
  <2>. QED BY <2>2, <2>3
<1>4. ASSUME Detach, failed = {} PROVE TreeInv'
  <2>1. /\ pc = "idle" /\ pc' = "idle" /\ Destroy
        /\ UNCHANGED <<stack, entering, widgets, Menu_Widget, failed>>
    BY <1>4 DEF Detach
  <2>. QED BY <1>4, <2>1, DestroyTree
<1>5. ASSUME Count, failed = {} PROVE TreeInv'
  <2>1. CASE pc' = "idle"
    <3>1. pc = "count" /\ status = "NOT_OK"
          /\ UNCHANGED <<tree, stack, entering, menu_level, Widget_Count, status, failed>>
      BY <1>5, <2>1, TypesOfMenu DEF Count
    <3>. QED BY <1>5, <2>1, <3>1, SameTree
  <2>2. CASE pc' = "enter"
    BY <1>5, <2>2, CountTree
  <2>. QED BY <1>5, <2>1, <2>2 DEF Count
<1>6. ASSUME CountFails, failed = {} PROVE TreeInv'
  <2>1. pc = "count" /\ pc' = "idle" /\ status = "NOT_OK"
        /\ UNCHANGED <<tree, stack, entering, menu_level, Widget_Count, status, failed>>
    BY <1>6, TypesOfMenu DEF CountFails, reading
  <2>. QED BY <1>6, <2>1, SameTree
<1>7. ~EnterFails /\ ~ReadBad
  BY DEF EnterFails, ReadBad, Return
<1>8. CASE Next
  BY <1>2, <1>3, <1>4, <1>5, <1>6, <1>7, <1>8, DisableTree, EnterTree, CorruptTree, ReadItemTree,
     ReadSubTree, ReadOtherTree, GoBackTree, FileEndTree, LinesOverTree DEF Next
<1>. QED BY <1>1, <1>8

(* The complete tree is the file's. *)
LEMMA TreeOfFile == MenuInv /\ TreeInv => MenuIsTheFile
<1>. SUFFICES ASSUME MenuInv, TreeInv, status = "OK", failed = {}, WellFormed(file)
              PROVE  /\ {<<widgets[w].line, LineAbove(w)>> : w \in Buttons} =
                        {<<i, Enclosing(file, i)>> : i \in {j \in DOMAIN file : Entry(file, j)}}
                     /\ Cardinality(Buttons) = Widget_Count
                     /\ widgets[Main_Menu] = [line |-> 0, above |-> {}] /\ Alive(Main_Menu)
                     /\ off = {w \in Buttons : LET l == file[widgets[w].line] IN
                                                  ~l.enabled \/ l.tag \in asked}
  BY DEF MenuIsTheFile
<1>1. /\ Grown /\ Kept /\ Drawn(Len(file) + 1) /\ Alive(Main_Menu)
      /\ widgets[Main_Menu] = [line |-> 0, above |-> {}]
      /\ Len(file) \in Nat /\ DOMAIN file = 1 .. Len(file)
  BY TypesOfMenu DEF TreeInv
<1>2. /\ \A w \in Buttons :
            /\ widgets[w].line \in 1 .. Len(file) /\ Entry(file, widgets[w].line)
            /\ \E x \in 0 .. Len(file) :
                  /\ Opener(file, widgets[w].line, Depth(file, widgets[w].line), x)
                  /\ LastLine(widgets, widgets[w].above, x)
      /\ \A l \in 1 .. Len(file) : Entry(file, l) => \E w \in Buttons : widgets[w].line = l
  <2>1. PICK p : p = Len(file) + 1
    OBVIOUS
  <2>2. 1 .. p - 1 = 1 .. Len(file)
    BY <1>1, <2>1
  <2>3. Drawn(p)
    BY <1>1, <2>1
  <2>4. /\ \A w \in Buttons :
            /\ widgets[w].line \in 1 .. p - 1 /\ Entry(file, widgets[w].line)
            /\ \E x \in 0 .. Len(file) :
                  /\ Opener(file, widgets[w].line, Depth(file, widgets[w].line), x)
                  /\ LastLine(widgets, widgets[w].above, x)
        /\ \A l \in 1 .. p - 1 : Entry(file, l) => \E w \in Buttons : widgets[w].line = l
    BY <2>3 DEF Drawn
  <2>. QED BY <2>2, <2>4
<1>3. ASSUME NEW w \in Buttons
      PROVE  /\ widgets[w].line \in DOMAIN file /\ Entry(file, widgets[w].line)
             /\ LineAbove(w) = Enclosing(file, widgets[w].line)
  <2>1. widgets[w].line \in 1 .. Len(file) /\ Entry(file, widgets[w].line)
    BY <1>2
  <2>2. PICK x \in 0 .. Len(file) : /\ Opener(file, widgets[w].line, Depth(file, widgets[w].line), x)
                                    /\ LastLine(widgets, widgets[w].above, x)
    BY <1>2
  <2>3. w \in 1 .. Len(widgets)
    BY DEF Buttons
  <2>4. LineAbove(w) = x
    BY <1>1, <2>2, <2>3, LineAboveIs
  <2>5. Enclosing(file, widgets[w].line) = x
    <3>1. PICK i \in Nat : i = widgets[w].line
      BY <2>1
    <3>. QED BY <2>2, <3>1, OpenerIs
  <2>. QED BY <1>1, <2>1, <2>4, <2>5
<1>4. \A l \in DOMAIN file : Entry(file, l) => \E w \in Buttons : widgets[w].line = l
  BY <1>1, <1>2
<1>5. {<<widgets[w].line, LineAbove(w)>> : w \in Buttons} =
      {<<i, Enclosing(file, i)>> : i \in {j \in DOMAIN file : Entry(file, j)}}
  BY <1>3, <1>4
<1>6. off = {w \in Buttons : LET l == file[widgets[w].line] IN ~l.enabled \/ l.tag \in asked}
  BY <1>1 DEF Drawn
<1>. QED BY <1>1, <1>5, <1>6 DEF Kept

(* A finished menu is the tree its well formed file draws, for every file, *)
(* however deep the submenus may go, after any number of earlier menus,    *)
(* well formed or not, and whatever was disabled since: two passes, calls  *)
(* that ignore what the inner ones return, and Destroy leave no button too *)
(* many, none out of place and none unselectable that nobody asked for.    *)
(* Init, Generate_Menu_Items, Destroy, Disable_Item.                       *)
THEOREM TreeIsTheFile == Spec => []MenuIsTheFile
<1>1. Init => MenuInv /\ TreeInv
  BY InitMenuInv, InitTree
<1>2. MenuInv /\ TreeInv /\ [Next]_vars => (MenuInv /\ TreeInv)'
  BY NextMenuInv, NextTree
<1>3. MenuInv /\ TreeInv => MenuIsTheFile
  BY TreeOfFile
<1>. QED BY <1>1, <1>2, <1>3, PTL DEF Spec

-----------------------------------------------------------------------------
(* Panel: the flat text of the widget is MAX_ROWS rows of MAX_COLUMN       *)
(* characters and their line feeds, and what Clear leaves behind them.     *)
(* First the arithmetic of its indices.                                    *)
(* A product with a positive number is no smaller. *)
LEMMA LineLonger == \A w \in Nat \ {0}, d \in Nat \ {0} : d * w >= w
BY Z3

(* The row and the column of an index are unique. *)
LEMMA RowOfIndex ==
    ASSUME NEW w \in Nat \ {0}, NEW a \in Nat, NEW b \in 0 .. w - 1
    PROVE  (a * w + b) \div w = a /\ (a * w + b) % w = b
<1>. DEFINE q == (a * w + b) \div w
            m == (a * w + b) % w
<1>1. a * w + b \in Nat
  OBVIOUS
<1>2. q \in Int /\ m \in 0 .. w - 1 /\ a * w + b = w * q + m
  BY <1>1
<1>. HIDE DEF q, m
<1>3. (a - q) * w = m - b
  BY <1>2
<1>4. CASE a - q >= 1
  <2>1. (a - q) * w >= w
    BY <1>2, <1>4, LineLonger
  <2>. QED BY <1>2, <1>3, <2>1
<1>5. CASE q - a >= 1
  <2>1. (q - a) * w >= w
    BY <1>2, <1>5, LineLonger
  <2>2. (q - a) * w = b - m
    BY <1>2
  <2>. QED BY <1>2, <2>1, <2>2
<1>6. CASE a = q
  BY <1>2, <1>6 DEF q, m
<1>. QED BY <1>2, <1>4, <1>5, <1>6

-----------------------------------------------------------------------------
Attr == {Display!Plain} \cup {Display!Set_Font_Attr(m) : m \in Messages}
Character == STRING \cup {"\n", " "}
Glyph == Character \X Attr
Ink == (STRING \ {"\n"}) \X Attr
Space == <<" ", Display!Plain>>
Feed == <<"\n", Display!Plain>>
PanelWidth == MAX_COLUMN + 1
PanelSize == MAX_ROWS * PanelWidth
PanelTexts == {s \in Seq(Glyph) : Len(s) >= PanelSize}
RowStart(r) == (r - 1) * PanelWidth

(* What is printed is no line feed. *)
LEMMA InkIs ==
    /\ Seq(Ink) \subseteq Seq(Glyph)
    /\ \A g \in Ink : g # Feed
<1>1. Ink \subseteq Glyph
  BY DEF Ink, Glyph, Character
<1>2. \A g \in Ink : g # Feed
  BY DEF Ink, Feed
<1>. HIDE DEF Ink, Glyph
<1>3. Seq(Ink) \subseteq Seq(Glyph)
  BY <1>1
<1>. QED BY <1>2, <1>3

(* Rows do not overlap and all are in the text. *)
LEMMA Sizes ==
    /\ MAX_ROWS \in Nat \ {0} /\ MAX_COLUMN \in Nat \ {0}
    /\ PanelWidth \in Nat \ {0} /\ PanelSize \in Nat
    /\ Display!Width = PanelWidth
    /\ \A r \in 1 .. MAX_ROWS : RowStart(r) \in Nat /\ RowStart(r) + PanelWidth <= PanelSize
    /\ \A i, r \in 1 .. MAX_ROWS : i < r => RowStart(i) + PanelWidth <= RowStart(r)
<1>1. /\ MAX_ROWS \in Nat \ {0} /\ MAX_COLUMN \in Nat \ {0}
      /\ PanelWidth \in Nat \ {0}
      /\ Display!Width = PanelWidth
  <2>1. MAX_ROWS \in Nat \ {0} /\ MAX_COLUMN \in Nat \ {0}
    BY PhutilsAssumption, Zenon
  <2>2. Display!Width = PanelWidth
    BY DEF PanelWidth, Display!Width
  <2>. QED BY <2>1, <2>2 DEF PanelWidth
<1>. HIDE DEF PanelWidth
<1>2. ASSUME NEW a \in Nat, NEW b \in Nat, a < b
      PROVE  a * PanelWidth \in Nat /\ a * PanelWidth + PanelWidth <= b * PanelWidth
  <2>1. (b - a) * PanelWidth >= PanelWidth
    BY <1>1, <1>2, LineLonger
  <2>. QED BY <1>1, <1>2, <2>1
<1>3. ASSUME NEW r \in 1 .. MAX_ROWS
      PROVE  RowStart(r) \in Nat /\ RowStart(r) + PanelWidth <= PanelSize
  <2>1. r - 1 \in Nat /\ r - 1 < MAX_ROWS /\ MAX_ROWS \in Nat
    BY <1>1
  <2>. QED BY <1>2, <2>1 DEF RowStart, PanelSize
<1>4. ASSUME NEW i \in 1 .. MAX_ROWS, NEW r \in 1 .. MAX_ROWS, i < r
      PROVE  RowStart(i) + PanelWidth <= RowStart(r)
  <2>1. i - 1 \in Nat /\ r - 1 \in Nat /\ i - 1 < r - 1
    BY <1>4
  <2>. QED BY <1>2, <2>1 DEF RowStart
<1>5. PanelSize \in Nat
  BY <1>1 DEF PanelSize
<1>. QED BY <1>1, <1>3, <1>4, <1>5

(* Update_Index cuts a line that would end behind the line feed of its row. *)
LEMMA WhereItLands ==
    ASSUME NEW line \in Seq(Glyph), line # <<>>,
           NEW r \in 1 .. MAX_ROWS, NEW c \in 1 .. MAX_COLUMN
    PROVE  LET at == Display!Update_Index(line, r, c)
           IN  /\ at.start = RowStart(r) + c - 1
               /\ at.length = IF c + Len(line) <= MAX_COLUMN + 2
                              THEN Len(line) ELSE MAX_COLUMN - c + 1
<1>. DEFINE w == PanelWidth
            a == r - 1
            b == c - 1
            e == c + Len(line) - 2
            q == (a * w + e) \div w
<1>1. /\ w \in Nat \ {0} /\ a \in Nat /\ b \in 0 .. w - 1 /\ Len(line) \in Nat \ {0}
      /\ e \in Nat /\ MAX_COLUMN \in Nat /\ w = MAX_COLUMN + 1
  BY Sizes DEF PanelWidth
<1>2. /\ Display!Width = w
      /\ (r - 1) * w + c - 1 = a * w + b
      /\ a * w + b + Len(line) - 1 = a * w + e
  BY <1>1, Sizes
<1>. HIDE DEF w, a, b, e
<1>3. (a * w + b) \div w = a /\ (a * w + b) % w = b
  BY <1>1, RowOfIndex
<1>4. CASE e <= MAX_COLUMN
  <2>1. e \in 0 .. w - 1
    BY <1>1, <1>4
  <2>2. (a * w + e) \div w = a
    BY <1>1, <2>1, RowOfIndex
  <2>3. Display!Update_Index(line, r, c) = [start |-> a * w + b, length |-> Len(line)]
    BY <1>2, <1>3, <2>2 DEF Display!Update_Index, Display!Row_Of
  <2>. QED BY <1>1, <1>2, <1>4, <2>3 DEF RowStart, e, w
<1>5. CASE e > MAX_COLUMN
  <2>1. (a * w + e) \div w # a
    <3>1. a * w + e \in Nat
      BY <1>1
    <3>2. a * w + e = w * q + ((a * w + e) % w) /\ (a * w + e) % w \in 0 .. w - 1
      BY <1>1, <3>1
    <3>3. SUFFICES ASSUME q = a PROVE FALSE
      OBVIOUS
    <3>4. w * q = a * w
      BY <1>1, <3>3
    <3>. HIDE DEF q
    <3>. QED BY <1>1, <1>5, <3>2, <3>4
  <2>2. Display!Update_Index(line, r, c) = [start |-> a * w + b, length |-> MAX_COLUMN - b]
    BY <1>2, <1>3, <2>1 DEF Display!Update_Index, Display!Row_Of
  <2>. QED BY <1>1, <1>2, <1>5, <2>2 DEF RowStart, e, w, b
<1>. QED BY <1>1, <1>4, <1>5

(* PtMultiTextModifyText replaces as many characters as it inserts. *)
LEMMA ModifyIs ==
    ASSUME NEW s \in Seq(Glyph), NEW line \in Seq(Glyph), NEW at,
           at.start \in Nat, at.length \in 0 .. Len(line), at.start + at.length <= Len(s)
    PROVE  LET t == Display!Modify(s, at, line)
           IN  /\ t \in Seq(Glyph) /\ Len(t) = Len(s)
               /\ \A k \in 1 .. Len(s) :
                     t[k] = IF k \in at.start + 1 .. at.start + at.length
                            THEN line[k - at.start] ELSE s[k]
<1>. DEFINE a == at.start
            l == at.length
            n == Len(s)
            x == SubSeq(s, 1, a)
            y == SubSeq(line, 1, l)
            z == SubSeq(s, a + l + 1, n)
<1>1. a \in Nat /\ l \in 0 .. Len(line) /\ n \in Nat /\ a + l <= n /\ Len(line) \in Nat
  OBVIOUS
<1>. HIDE DEF a, l, n
<1>2. x \in Seq(Glyph) /\ Len(x) = a /\ \A k \in 1 .. a : x[k] = s[k]
  BY <1>1 DEF n
<1>3. y \in Seq(Glyph) /\ Len(y) = l /\ \A k \in 1 .. l : y[k] = line[k]
  BY <1>1
<1>4. z \in Seq(Glyph) /\ Len(z) = n - (a + l) /\ \A k \in 1 .. n - (a + l) : z[k] = s[a + l + k]
  BY <1>1 DEF n
<1>. HIDE DEF x, y, z
<1>5. x \o y \in Seq(Glyph) /\ Len(x \o y) = a + l
      /\ \A k \in 1 .. a + l : (x \o y)[k] = IF k <= a THEN x[k] ELSE y[k - a]
  <2>1. /\ x \o y \in Seq(Glyph) /\ Len(x \o y) = Len(x) + Len(y)
        /\ \A k \in 1 .. Len(x) + Len(y) :
              (x \o y)[k] = IF k <= Len(x) THEN x[k] ELSE y[k - Len(x)]
    BY <1>2, <1>3, ConcatProperties
  <2>. QED BY <1>2, <1>3, <2>1
<1>6. (x \o y) \o z \in Seq(Glyph) /\ Len((x \o y) \o z) = n
      /\ \A k \in 1 .. n : ((x \o y) \o z)[k] = IF k <= a + l THEN (x \o y)[k] ELSE z[k - (a + l)]
  <2>. DEFINE v == x \o y
  <2>1. v \in Seq(Glyph) /\ Len(v) = a + l
    BY <1>5
  <2>. HIDE DEF v
  <2>2. /\ v \o z \in Seq(Glyph) /\ Len(v \o z) = Len(v) + Len(z)
        /\ \A k \in 1 .. Len(v) + Len(z) :
              (v \o z)[k] = IF k <= Len(v) THEN v[k] ELSE z[k - Len(v)]
    BY <1>4, <2>1, ConcatProperties
  <2>3. Len(v) + Len(z) = n
    BY <1>1, <1>4, <2>1
  <2>. QED BY <2>1, <2>2, <2>3 DEF v
<1>7. Display!Modify(s, at, line) = (x \o y) \o z
  BY DEF Display!Modify, x, y, z, a, l, n
<1>8. ASSUME NEW k \in 1 .. n
      PROVE  ((x \o y) \o z)[k] = IF k \in a + 1 .. a + l THEN line[k - a] ELSE s[k]
  <2>1. CASE k <= a
    <3>1. k \in 1 .. a /\ k \in 1 .. a + l /\ k <= a + l /\ k \notin a + 1 .. a + l
      BY <1>1, <2>1
    <3>. QED BY <1>2, <1>5, <1>6, <2>1, <3>1
  <2>2. CASE k > a /\ k <= a + l
    <3>1. k \in 1 .. a + l /\ ~(k <= a) /\ k - a \in 1 .. l /\ k \in a + 1 .. a + l
      BY <1>1, <2>2
    <3>. QED BY <1>3, <1>5, <1>6, <2>2, <3>1
  <2>3. CASE k > a + l
    <3>1. ~(k <= a + l) /\ k - (a + l) \in 1 .. n - (a + l) /\ k \notin a + 1 .. a + l
          /\ a + l + (k - (a + l)) = k
      BY <1>1, <2>3
    <3>2. z[k - (a + l)] = s[k]
      BY <1>4, <3>1
    <3>. QED BY <1>6, <3>1, <3>2
  <2>4. k <= a \/ (k > a /\ k <= a + l) \/ k > a + l
    BY <1>1
  <2>. QED BY <2>1, <2>2, <2>3, <2>4, Zenon
<1>. QED BY <1>6, <1>7, <1>8 DEF a, l, n


(* Column k of a row that shows line from column c on: behind the row, at  *)
(* its line feed, only a line that ends there.                             *)
Covers(line, c, k) ==
    k - c + 1 \in DOMAIN line /\ (k = PanelWidth => c + Len(line) - 1 = PanelWidth)

(* A line shows in its row, from its column on, and nowhere else. *)
LEMMA LinePrinted ==
    ASSUME NEW s \in PanelTexts, NEW line \in Seq(Glyph), line # <<>>,
           NEW r \in 1 .. MAX_ROWS, NEW c \in 1 .. MAX_COLUMN
    PROVE  LET t == Display!Modify(s, Display!Update_Index(line, r, c), line)
           IN  /\ t \in PanelTexts
               /\ \A i \in 1 .. MAX_ROWS, k \in 1 .. PanelWidth :
                     t[RowStart(i) + k] = IF i = r /\ Covers(line, c, k)
                                          THEN line[k - c + 1] ELSE s[RowStart(i) + k]
<1>. DEFINE at == Display!Update_Index(line, r, c)
            t == Display!Modify(s, at, line)
            a == RowStart(r)
            n == Len(line)
            C == MAX_COLUMN
            N == Len(s)
            st == at.start
            le == at.length
<1>1. st = a + c - 1 /\ le = IF c + n <= C + 2 THEN n ELSE C - c + 1
  BY WhereItLands
<1>2. /\ n \in Nat \ {0} /\ C \in Nat /\ a \in Nat /\ a + (C + 1) <= PanelSize
      /\ PanelSize \in Nat /\ c \in 1 .. C /\ DOMAIN line = 1 .. n /\ PanelWidth = C + 1
  BY Sizes DEF PanelWidth
<1>3. s \in Seq(Glyph) /\ N \in Nat /\ N >= PanelSize
  BY DEF PanelTexts
<1>. HIDE DEF a, n, C, N, st, le
<1>4. st \in Nat /\ le \in 0 .. n /\ st + le <= a + C + 1 /\ st + le <= N
  BY <1>1, <1>2, <1>3
<1>5. /\ t \in Seq(Glyph) /\ Len(t) = N
      /\ \A j \in 1 .. N :
            t[j] = IF j \in st + 1 .. st + le THEN line[j - st] ELSE s[j]
  BY <1>3, <1>4, ModifyIs DEF st, le, n, N
<1>. HIDE DEF t, at
<1>6. ASSUME NEW i \in 1 .. MAX_ROWS, NEW k \in 1 .. C + 1
      PROVE  t[RowStart(i) + k] = IF i = r /\ Covers(line, c, k)
                                  THEN line[k - c + 1] ELSE s[RowStart(i) + k]
  <2>. DEFINE b == RowStart(i)
              j == b + k
  <2>1. b \in Nat /\ b + (C + 1) <= PanelSize
    BY Sizes DEF PanelWidth, C
  <2>2. /\ i < r => b + (C + 1) <= a
        /\ i > r => a + (C + 1) <= b
        /\ i = r => b = a
    BY Sizes DEF PanelWidth, C, a
  <2>. HIDE DEF b
  <2>3. j \in 1 .. N
    BY <1>2, <1>3, <2>1
  <2>4. CASE i < r
    <3>1. j \notin st + 1 .. st + le
      BY <1>1, <1>2, <1>4, <2>1, <2>2, <2>4
    <3>2. i # r
      BY <2>4
    <3>. QED BY <1>5, <2>3, <3>1, <3>2 DEF b
  <2>5. CASE i > r
    <3>1. j \notin st + 1 .. st + le
      BY <1>1, <1>2, <1>4, <2>1, <2>2, <2>5
    <3>2. i # r
      BY <2>5
    <3>. QED BY <1>5, <2>3, <3>1, <3>2 DEF b
  <2>6. CASE i = r
    <3>1. b = a
      BY <2>2, <2>6
    <3>2. j \in st + 1 .. st + le <=> k - c + 1 \in 1 .. n /\ (k = C + 1 => c + n - 1 = C + 1)
      BY <1>1, <1>2, <2>1, <3>1
    <3>3. j \in st + 1 .. st + le <=> Covers(line, c, k)
      BY <1>2, <3>2 DEF Covers, n
    <3>4. j - st = k - c + 1
      BY <1>1, <1>2, <2>1, <3>1
    <3>. QED BY <1>5, <2>3, <2>6, <3>3, <3>4 DEF b
  <2>. QED BY <2>4, <2>5, <2>6
<1>7. t \in PanelTexts
  BY <1>3, <1>5 DEF PanelTexts
<1>. QED BY <1>2, <1>6, <1>7 DEF t, at

-----------------------------------------------------------------------------
(* What the loop of Dis works on. *)
Printing == [text : PanelTexts, curr_row : Nat \ {0}, row : Nat \ {0}, col : 1 .. MAX_COLUMN]
Written == Seq(Ink) \ {<<>>}

(* The same of a turn of the loop, which prints nothing below the last row. *)
LEMMA DisLineIs ==
    ASSUME NEW p \in Printing, NEW line \in Written
    PROVE  LET q == Display!DisLine(p, line)
           IN  /\ q \in Printing /\ q.row = p.row + 1 /\ q.col = 1
               /\ \A i \in 1 .. MAX_ROWS, k \in 1 .. PanelWidth :
                     q.text[RowStart(i) + k] =
                        IF i = p.row /\ Covers(line, p.col, k)
                        THEN line[k - p.col + 1] ELSE p.text[RowStart(i) + k]
<1>. DEFINE t == Display!Modify(p.text, Display!Update_Index(line, p.row, p.col), line)
            q == Display!DisLine(p, line)
<1>1. /\ p.text \in PanelTexts /\ p.curr_row \in Nat \ {0} /\ p.row \in Nat \ {0}
      /\ p.col \in 1 .. MAX_COLUMN /\ line \in Seq(Glyph) /\ line # <<>>
      /\ MAX_ROWS \in Nat \ {0} /\ MAX_COLUMN \in Nat \ {0}
      /\ p = [text |-> p.text, curr_row |-> p.curr_row, row |-> p.row, col |-> p.col]
  BY Sizes, InkIs DEF Printing, Written
<1>2. CASE p.row <= MAX_ROWS
  <2>1. p.row \in 1 .. MAX_ROWS /\ Display!Placed(p.row, p.col)
    BY <1>1, <1>2 DEF Display!Placed
  <2>2. q = [text |-> t, curr_row |-> p.curr_row + 1, row |-> p.row + 1, col |-> 1]
    BY <2>1 DEF Display!DisLine
  <2>. HIDE DEF t, q
  <2>3. /\ t \in PanelTexts
        /\ \A i \in 1 .. MAX_ROWS, k \in 1 .. PanelWidth :
              t[RowStart(i) + k] =
                 IF i = p.row /\ Covers(line, p.col, k)
                 THEN line[k - p.col + 1] ELSE p.text[RowStart(i) + k]
    BY <1>1, <2>1, LinePrinted DEF t
  <2>4. q \in Printing /\ q.row = p.row + 1 /\ q.col = 1 /\ q.text = t
    BY <1>1, <2>2, <2>3 DEF Printing
  <2>. QED BY <2>3, <2>4 DEF q
<1>3. CASE p.row > MAX_ROWS
  <2>1. ~Display!Placed(p.row, p.col)
    BY <1>1, <1>3 DEF Display!Placed
  <2>2. q = [text |-> p.text, curr_row |-> p.curr_row, row |-> p.row + 1, col |-> 1]
    BY <1>1, <2>1 DEF Display!DisLine
  <2>. HIDE DEF q
  <2>3. q \in Printing /\ q.row = p.row + 1 /\ q.col = 1 /\ q.text = p.text
    BY <1>1, <2>2 DEF Printing
  <2>4. \A i \in 1 .. MAX_ROWS : i # p.row
    BY <1>1, <1>3
  <2>. QED BY <2>3, <2>4 DEF q
<1>. QED BY <1>1, <1>2, <1>3


(* The tokens of a message are lines with something in them.               *)
TokensWith(tokens, line) == IF line = <<>> THEN tokens ELSE Append(tokens, line)
LEMMA TokensAre ==
    ASSUME NEW message \in Seq(Seq(Ink)) PROVE Display!Tokens(message) \in Seq(Written)
<1>. DEFINE n == Len(message)
            G == [u \in Seq(Written) \X Seq(Ink) |-> TokensWith(u[1], u[2])]
<1>1. /\ n \in Nat /\ DOMAIN message = 1 .. n /\ \A i \in 1 .. n : message[i] \in Seq(Ink)
      /\ <<>> \in Seq(Written)
  OBVIOUS
<1>2. \A q \in Seq(Written), x \in Seq(Ink) : TokensWith(q, x) \in Seq(Written)
  BY DEF TokensWith, Written
<1>3. /\ G \in [Seq(Written) \X Seq(Ink) -> Seq(Written)]
      /\ \A q \in Seq(Written), x \in Seq(Ink) : G[<<q, x>>] = TokensWith(q, x)
  BY <1>2
<1>. HIDE DEF G, n
<1>4. PICK h : Folding(h, G, <<>>, message) /\ \A T \in SUBSET DOMAIN message : h[T] \in Seq(Written)
  BY <1>1, <1>3, FoldExists
<1>5. \A T \in SUBSET DOMAIN message : T # {} =>
          G[<<h[T \ {Max(T)}], message[Max(T)]>>] = TokensWith(h[T \ {Max(T)}], message[Max(T)])
  <2>1. ASSUME NEW T \in SUBSET DOMAIN message, T # {}
        PROVE  h[T \ {Max(T)}] \in Seq(Written) /\ message[Max(T)] \in Seq(Ink)
    <3>1. Max(T) \in 1 .. n
      BY <1>1, <2>1, GreatestOf
    <3>2. T \ {Max(T)} \in SUBSET DOMAIN message
      OBVIOUS
    <3>. QED BY <1>1, <1>4, <3>1, <3>2
  <2>. QED BY <1>3, <2>1
<1>6. h = [T \in SUBSET DOMAIN message |->
              IF T = {} THEN <<>> ELSE TokensWith(h[T \ {Max(T)}], message[Max(T)])]
  BY <1>4, <1>5 DEF Folding
<1>7. PICK g : /\ g = [T \in SUBSET DOMAIN message |->
                          IF T = {} THEN <<>> ELSE TokensWith(g[T \ {Max(T)}], message[Max(T)])]
               /\ Display!Tokens(message) = g[DOMAIN message]
  BY <1>6, Zenon DEF Display!Tokens, TokensWith, Display!FoldLeft, Display!MapThenFoldSet,
                     Max, Display!Max
<1>. DEFINE F == [k \in 0 .. n |-> g[1 .. k]]
            Good == {k \in 0 .. n : F[k] \in Seq(Written)}
<1>8. F[0] = <<>>
  <2>1. 1 .. 0 = {} /\ {} \in SUBSET DOMAIN message
    OBVIOUS
  <2>. QED BY <1>1, <1>7, <2>1
<1>9. ASSUME NEW k \in 0 .. n - 1 PROVE F[k + 1] = TokensWith(F[k], message[k + 1])
  <2>. DEFINE T == 1 .. k + 1
  <2>1. /\ k \in 0 .. n /\ k + 1 \in 0 .. n /\ T \in SUBSET DOMAIN message /\ T # {}
        /\ Max(T) = k + 1 /\ T \ {k + 1} = 1 .. k
    BY <1>1, Prefix
  <2>2. g[T] = TokensWith(g[T \ {Max(T)}], message[Max(T)])
    BY <1>7, <2>1
  <2>3. g[T] = TokensWith(g[1 .. k], message[k + 1])
    BY <2>1, <2>2
  <2>. QED BY <2>1, <2>3
<1>. HIDE DEF F
<1>10. 0 .. n \subseteq Good
  <2>1. 0 \in Good
    <3>1. F[0] \in Seq(Written)
      BY <1>1, <1>8, Zenon
    <3>2. 0 \in 0 .. n
      BY <1>1
    <3>. QED BY <3>1, <3>2
  <2>2. ASSUME NEW k \in 0 .. n - 1, k \in Good PROVE k + 1 \in Good
    <3>1. k + 1 \in 0 .. n /\ message[k + 1] \in Seq(Ink)
      BY <1>1
    <3>. QED BY <1>2, <1>9, <2>2, <3>1
  <2>. HIDE DEF Good
  <2>. QED BY <1>1, <2>1, <2>2, Induct
<1>11. F[n] = g[DOMAIN message]
  BY <1>1 DEF F
<1>12. F \in [0 .. n -> Seq(Written)]
  BY <1>10 DEF F
<1>. QED BY <1>1, <1>7, <1>11, <1>12

(* Printing the lines one after the other. *)
LEMMA PrintingSteps ==
    ASSUME NEW p \in Printing, NEW lines \in Seq(Written)
    PROVE  \E F \in [0 .. Len(lines) -> Printing] :
               /\ F[0] = p
               /\ \A k \in 0 .. Len(lines) - 1 : F[k + 1] = Display!DisLine(F[k], lines[k + 1])
               /\ F[Len(lines)] = Display!FoldLeft(Display!DisLine, p, lines)
<1>. DEFINE n == Len(lines)
            G == [u \in Printing \X Written |-> Display!DisLine(u[1], u[2])]
<1>1. n \in Nat /\ DOMAIN lines = 1 .. n /\ \A i \in 1 .. n : lines[i] \in Written
  OBVIOUS
<1>2. \A q \in Printing, x \in Written : Display!DisLine(q, x) \in Printing
  BY DisLineIs
<1>3. /\ G \in [Printing \X Written -> Printing]
      /\ \A q \in Printing, x \in Written : G[<<q, x>>] = Display!DisLine(q, x)
  BY <1>2
<1>. HIDE DEF G, n
<1>4. PICK h : Folding(h, G, p, lines) /\ \A T \in SUBSET DOMAIN lines : h[T] \in Printing
  BY <1>3, FoldExists
<1>5. \A T \in SUBSET DOMAIN lines : T # {} =>
          G[<<h[T \ {Max(T)}], lines[Max(T)]>>] = Display!DisLine(h[T \ {Max(T)}], lines[Max(T)])
  <2>1. ASSUME NEW T \in SUBSET DOMAIN lines, T # {}
        PROVE  h[T \ {Max(T)}] \in Printing /\ lines[Max(T)] \in Written
    <3>1. Max(T) \in 1 .. n
      BY <1>1, <2>1, GreatestOf
    <3>2. T \ {Max(T)} \in SUBSET DOMAIN lines
      OBVIOUS
    <3>. QED BY <1>1, <1>4, <3>1, <3>2
  <2>. QED BY <1>3, <2>1
<1>6. h = [T \in SUBSET DOMAIN lines |->
              IF T = {} THEN p ELSE Display!DisLine(h[T \ {Max(T)}], lines[Max(T)])]
  BY <1>4, <1>5 DEF Folding
<1>7. PICK g : /\ g = [T \in SUBSET DOMAIN lines |->
                          IF T = {} THEN p ELSE Display!DisLine(g[T \ {Max(T)}], lines[Max(T)])]
               /\ Display!FoldLeft(Display!DisLine, p, lines) = g[DOMAIN lines]
  BY <1>6, Zenon DEF Display!FoldLeft, Display!MapThenFoldSet, Max, Display!Max
<1>. DEFINE F == [k \in 0 .. n |-> g[1 .. k]]
            Good == {k \in 0 .. n : F[k] \in Printing}
<1>8. F[0] = p
  <2>1. 1 .. 0 = {} /\ {} \in SUBSET DOMAIN lines
    OBVIOUS
  <2>. QED BY <1>1, <1>7, <2>1
<1>9. ASSUME NEW k \in 0 .. n - 1 PROVE F[k + 1] = Display!DisLine(F[k], lines[k + 1])
  <2>. DEFINE T == 1 .. k + 1
  <2>1. /\ k \in 0 .. n /\ k + 1 \in 0 .. n /\ T \in SUBSET DOMAIN lines /\ T # {}
        /\ Max(T) = k + 1 /\ T \ {k + 1} = 1 .. k
    BY <1>1, Prefix
  <2>2. g[T] = Display!DisLine(g[T \ {Max(T)}], lines[Max(T)])
    BY <1>7, <2>1
  <2>3. g[T] = Display!DisLine(g[1 .. k], lines[k + 1])
    BY <2>1, <2>2
  <2>. QED BY <2>1, <2>3
<1>. HIDE DEF F
<1>10. 0 .. n \subseteq Good
  <2>1. 0 \in Good
    BY <1>1, <1>8
  <2>2. ASSUME NEW k \in 0 .. n - 1, k \in Good PROVE k + 1 \in Good
    <3>1. k + 1 \in 0 .. n /\ lines[k + 1] \in Written
      BY <1>1
    <3>. QED BY <1>2, <1>9, <2>2, <3>1
  <2>. HIDE DEF Good
  <2>. QED BY <1>1, <2>1, <2>2, Induct
<1>11. F[n] = g[DOMAIN lines]
  BY <1>1 DEF F
<1>12. F \in [0 .. n -> Printing]
  BY <1>10 DEF F
<1>. QED BY <1>7, <1>8, <1>9, <1>11, <1>12 DEF n

(* Line j of a message shows in row p.row + j - 1, all but the first from   *)
(* column 1 on.                                                            *)
LEMMA LinesPrinted ==
    ASSUME NEW p \in Printing, NEW lines \in Seq(Written)
    PROVE  LET q == Display!FoldLeft(Display!DisLine, p, lines)
           IN  /\ q \in Printing
               /\ \A i \in 1 .. MAX_ROWS, k \in 1 .. PanelWidth :
                     q.text[RowStart(i) + k] =
                        IF i - p.row + 1 \in DOMAIN lines
                        THEN LET line == lines[i - p.row + 1]
                                 c == IF i = p.row THEN p.col ELSE 1
                             IN  IF Covers(line, c, k)
                                 THEN line[k - c + 1] ELSE p.text[RowStart(i) + k]
                        ELSE p.text[RowStart(i) + k]
<1>. DEFINE n == Len(lines)
            Glyphs(i, k, m) ==
                IF i - p.row + 1 \in 1 .. m
                THEN LET line == lines[i - p.row + 1]
                         c == IF i = p.row THEN p.col ELSE 1
                     IN  IF Covers(line, c, k)
                         THEN line[k - c + 1] ELSE p.text[RowStart(i) + k]
                ELSE p.text[RowStart(i) + k]
<1>1. /\ n \in Nat /\ DOMAIN lines = 1 .. n /\ \A j \in 1 .. n : lines[j] \in Written
      /\ p.row \in Nat \ {0} /\ p.col \in 1 .. MAX_COLUMN
  BY DEF Printing
<1>2. PICK F \in [0 .. n -> Printing] :
               /\ F[0] = p
               /\ \A k \in 0 .. n - 1 : F[k + 1] = Display!DisLine(F[k], lines[k + 1])
               /\ F[n] = Display!FoldLeft(Display!DisLine, p, lines)
  BY PrintingSteps
<1>. DEFINE Good == {m \in 0 .. n :
                        /\ F[m].row = p.row + m
                        /\ F[m].col = IF m = 0 THEN p.col ELSE 1
                        /\ \A i \in 1 .. MAX_ROWS, k \in 1 .. PanelWidth :
                              F[m].text[RowStart(i) + k] = Glyphs(i, k, m)}
<1>. HIDE DEF n
<1>3. 0 \in Good
  <2>1. \A i \in 1 .. MAX_ROWS : i - p.row + 1 \notin 1 .. 0
    OBVIOUS
  <2>2. p.row + 0 = p.row
    BY <1>1
  <2>. QED BY <1>1, <1>2, <2>1, <2>2
<1>4. ASSUME NEW m \in 0 .. n - 1, m \in Good PROVE m + 1 \in Good
  <2>. DEFINE u == F[m]
              line == lines[m + 1]
              v == Display!DisLine(u, line)
  <2>1. /\ m \in 0 .. n /\ m + 1 \in 0 .. n /\ m + 1 \in 1 .. n /\ m + 1 # 0 /\ m \in Nat
    BY <1>1
  <2>2. u \in Printing /\ line \in Written
    BY <1>1, <1>2, <2>1
  <2>3. /\ u.row = p.row + m /\ u.col = IF m = 0 THEN p.col ELSE 1
        /\ \A i \in 1 .. MAX_ROWS, k \in 1 .. PanelWidth :
                 u.text[RowStart(i) + k] = Glyphs(i, k, m)
    BY <1>4
  <2>. HIDE DEF u, line, Glyphs
  <2>4. /\ v \in Printing /\ v.row = u.row + 1 /\ v.col = 1
        /\ \A i \in 1 .. MAX_ROWS, k \in 1 .. PanelWidth :
                     v.text[RowStart(i) + k] =
                        IF i = u.row /\ Covers(line, u.col, k)
                        THEN line[k - u.col + 1] ELSE u.text[RowStart(i) + k]
    BY <2>2, DisLineIs
  <2>. HIDE DEF v
  <2>5. v.row = p.row + (m + 1)
    BY <1>1, <2>1, <2>3, <2>4
  <2>6. ASSUME NEW i \in 1 .. MAX_ROWS, NEW k \in 1 .. PanelWidth
        PROVE  v.text[RowStart(i) + k] = Glyphs(i, k, m + 1)
    <3>1. i \in Int /\ (i = u.row <=> i - p.row + 1 = m + 1)
          /\ (i # u.row => (i - p.row + 1 \in 1 .. m + 1 <=> i - p.row + 1 \in 1 .. m))
      <4>. DEFINE x == u.row
                  y == p.row
      <4>1. i \in Int /\ x = y + m /\ y \in Nat /\ m \in Nat
        BY <1>1, <2>1, <2>3
      <4>. HIDE DEF x, y
      <4>2. /\ i \in Int /\ (i = x <=> i - y + 1 = m + 1)
            /\ (i # x => (i - y + 1 \in 1 .. m + 1 <=> i - y + 1 \in 1 .. m))
        BY <4>1
      <4>. QED BY <4>2 DEF x, y
    <3>2. CASE i # u.row
      <4>1. Glyphs(i, k, m + 1) = Glyphs(i, k, m)
        BY <3>1, <3>2 DEF Glyphs
      <4>. QED BY <2>3, <2>4, <3>2, <4>1
    <3>3. CASE i = u.row
      <4>1. /\ i - p.row + 1 = m + 1 /\ m + 1 \in 1 .. m + 1 /\ m + 1 \notin 1 .. m
            /\ (i = p.row <=> m = 0)
        BY <1>1, <2>1, <2>3, <3>1, <3>3
      <4>2. Glyphs(i, k, m) = p.text[RowStart(i) + k]
        BY <4>1 DEF Glyphs
      <4>3. Glyphs(i, k, m + 1) =
                IF Covers(line, u.col, k)
                THEN line[k - u.col + 1] ELSE p.text[RowStart(i) + k]
        BY <2>3, <4>1 DEF Glyphs, line
      <4>. QED BY <2>3, <2>4, <3>3, <4>2, <4>3
    <3>. QED BY <3>2, <3>3
  <2>7. F[m + 1] = v
    BY <1>2 DEF u, v, line
  <2>. QED BY <2>1, <2>4, <2>5, <2>6, <2>7
<1>5. n \in Good
  <2>. HIDE DEF Good
  <2>1. 0 .. n \subseteq Good
    BY <1>1, <1>3, <1>4, Induct
  <2>. QED BY <1>1, <2>1
<1>6. n \in 0 .. n
  BY <1>1
<1>. QED BY <1>1, <1>2, <1>5, <1>6

-----------------------------------------------------------------------------
(* The inductive invariant: the text never gets shorter than its rows.     *)
PanelTyped == text \in PanelTexts /\ curr_row \in Nat \ {0}
(* The rows that are read off it. *)
Cells(i) == [k \in 1 .. MAX_COLUMN |-> text[RowStart(i) + k]]
Fed(i) == text[RowStart(i) + PanelWidth] = Feed
PanelShown == [r \in 1 .. MAX_ROWS |-> [cells |-> Cells(r), feed |-> Fed(r)]]

LEMMA PanelShownIsRows ==
    /\ PanelShown = [r \in 1 .. MAX_ROWS |-> Display!Row(r)]
    /\ PanelShown' = [r \in 1 .. MAX_ROWS |-> Display!Row(r)]'
<1>1. Display!Width = PanelWidth /\ Display!Width' = PanelWidth
  BY Sizes DEF Display!Width
<1>2. \A r \in 1 .. MAX_ROWS : r * PanelWidth = RowStart(r) + PanelWidth
  <2>1. \A r \in Int : r * PanelWidth = (r - 1) * PanelWidth + PanelWidth
    BY Sizes
  <2>. QED BY <2>1, Sizes DEF RowStart
<1>3. \A r \in 1 .. MAX_ROWS, c \in 1 .. MAX_COLUMN :
          (r - 1) * Display!Width + c = RowStart(r) + c
  BY <1>1 DEF RowStart
<1>. QED BY <1>1, <1>2, <1>3 DEF PanelShown, Cells, Fed, Feed, Display!Row

(* The text Clear and Init make shows blank rows. *)
LEMMA BlankIs ==
    /\ Display!Blank \in Seq(Glyph) /\ Len(Display!Blank) = PanelSize
    /\ \A i \in 1 .. MAX_ROWS, k \in 1 .. PanelWidth :
          Display!Blank[RowStart(i) + k] = IF k = PanelWidth THEN Feed ELSE Space
<1>. DEFINE blank == Display!Blank
<1>1. /\ PanelSize \in Nat /\ MAX_COLUMN \in Nat /\ PanelWidth = MAX_COLUMN + 1
      /\ Display!Width = PanelWidth
  BY Sizes DEF PanelWidth
<1>2. blank = [k \in 1 .. PanelSize |->
              <<IF k % PanelWidth = 0 THEN "\n" ELSE " ", Display!Plain>>]
  BY <1>1 DEF Display!Blank, PanelSize
<1>. HIDE DEF blank
<1>3. Display!Plain \in Attr
  BY DEF Attr
<1>4. blank \in [1 .. PanelSize -> Glyph]
  <2>1. \A k \in 1 .. PanelSize :
            <<IF k % PanelWidth = 0 THEN "\n" ELSE " ", Display!Plain>> \in Glyph
    <3>1. {"\n", " "} \subseteq Character
      BY DEF Character
    <3>. QED BY <1>3, <3>1 DEF Glyph
  <2>. QED BY <1>2, <2>1
<1>5. blank \in Seq(Glyph) /\ Len(blank) = PanelSize
  BY <1>1, <1>4
<1>6. ASSUME NEW i \in 1 .. MAX_ROWS, NEW k \in 1 .. PanelWidth
      PROVE  blank[RowStart(i) + k] = IF k = PanelWidth THEN Feed ELSE Space
  <2>1. RowStart(i) \in Nat /\ RowStart(i) + PanelWidth <= PanelSize
    BY Sizes
  <2>2. RowStart(i) + k \in 1 .. PanelSize
    BY <1>1, <2>1
  <2>3. CASE k # PanelWidth
    <3>1. i - 1 \in Nat /\ k \in 0 .. PanelWidth - 1 /\ PanelWidth \in Nat \ {0}
      BY <1>1, <2>3
    <3>2. (RowStart(i) + k) % PanelWidth = k
      BY <3>1, RowOfIndex DEF RowStart
    <3>3. k # 0
      BY <1>1
    <3>. QED BY <1>2, <2>2, <2>3, <3>2, <3>3 DEF Space
  <2>4. CASE k = PanelWidth
    <3>1. i \in Nat /\ 0 \in 0 .. PanelWidth - 1 /\ PanelWidth \in Nat \ {0}
      BY <1>1
    <3>2. (i * PanelWidth + 0) % PanelWidth = 0
      BY <3>1, RowOfIndex
    <3>3. RowStart(i) + k = i * PanelWidth + 0
      BY <2>4, <3>1 DEF RowStart
    <3>. QED BY <1>2, <2>2, <2>4, <3>2, <3>3 DEF Feed
  <2>. QED BY <2>3, <2>4
<1>. QED BY <1>5, <1>6 DEF blank

LEMMA PrintedIs ==
    ASSUME NEW m \in Messages PROVE Display!Printed(m) \in Seq(Seq(Ink))
<1>1. m.lines \in Seq(Seq(STRING \ {"\n"}))
  BY PhutilsAssumption
<1>2. Display!Set_Font_Attr(m) \in Attr
  BY DEF Attr
<1>. DEFINE attr == Display!Set_Font_Attr(m)
            Chars(l) == [i \in DOMAIN m.lines[l] |-> <<m.lines[l][i], attr>>]
<1>. HIDE DEF attr
<1>3. ASSUME NEW l \in DOMAIN m.lines PROVE Chars(l) \in Seq(Ink)
  <2>. DEFINE s == m.lines[l]
              t == [i \in DOMAIN s |-> <<s[i], attr>>]
  <2>1. s \in Seq(STRING \ {"\n"})
    BY <1>1
  <2>2. attr \in Attr
    BY <1>2 DEF attr
  <2>. HIDE DEF s
  <2>3. \A i \in DOMAIN s : <<s[i], attr>> \in Ink
    <3>1. \A i \in DOMAIN s : s[i] \in STRING \ {"\n"}
      BY <2>1
    <3>. QED BY <2>2, <3>1, Zenon DEF Ink
  <2>4. DOMAIN s = 1 .. Len(s) /\ Len(s) \in Nat
    BY <2>1
  <2>5. t \in [1 .. Len(s) -> Ink]
    BY <2>3, <2>4
  <2>6. t \in Seq(Ink)
    BY <2>4, <2>5
  <2>. QED BY <2>6 DEF s
<1>4. [l \in DOMAIN m.lines |-> Chars(l)] \in Seq(Seq(Ink))
  <2>. HIDE DEF Chars
  <2>1. DOMAIN m.lines = 1 .. Len(m.lines) /\ Len(m.lines) \in Nat
    BY <1>1
  <2>2. [l \in DOMAIN m.lines |-> Chars(l)] \in [1 .. Len(m.lines) -> Seq(Ink)]
    BY <1>3, <2>1
  <2>. QED BY <2>1, <2>2
<1>. QED BY <1>4 DEF Display!Printed, attr

(* What a line shows of itself in its row is what it overwrites there.     *)
LEMMA RowPrinted ==
    ASSUME NEW lines \in Seq(Written), NEW r \in Nat, NEW c \in 1 .. MAX_COLUMN,
           NEW i \in 1 .. MAX_ROWS,
           \A j \in 1 .. MAX_ROWS, k \in 1 .. PanelWidth :
              text'[RowStart(j) + k] =
                 IF j - r + 1 \in DOMAIN lines
                 THEN LET line == lines[j - r + 1]
                          d == IF j = r THEN c ELSE 1
                      IN  IF Covers(line, d, k)
                          THEN line[k - d + 1] ELSE text[RowStart(j) + k]
                 ELSE text[RowStart(j) + k]
    PROVE  PanelShown'[i] = IF i - r + 1 \in DOMAIN lines
                            THEN Display!Panels!Overwritten(PanelShown[i],
                                     IF i = r THEN c ELSE 1, lines[i - r + 1])
                            ELSE PanelShown[i]
<1>1. MAX_COLUMN \in Nat \ {0} /\ PanelWidth = MAX_COLUMN + 1 /\ PanelWidth \in 1 .. PanelWidth
      /\ \A k \in 1 .. MAX_COLUMN : k \in 1 .. PanelWidth /\ k # PanelWidth
  BY Sizes DEF PanelWidth
<1>2. /\ PanelShown'[i] = [cells |-> Cells(i)', feed |-> Fed(i)']
      /\ PanelShown[i] = [cells |-> Cells(i), feed |-> Fed(i)]
  BY DEF PanelShown
<1>3. CASE i - r + 1 \notin DOMAIN lines
  <2>1. \A k \in 1 .. PanelWidth : text'[RowStart(i) + k] = text[RowStart(i) + k]
    BY <1>3
  <2>2. Cells(i)' = Cells(i) /\ Fed(i)' = Fed(i)
    BY <1>1, <2>1 DEF Cells, Fed
  <2>3. PanelShown'[i] = PanelShown[i]
    BY <1>2, <2>2, Zenon
  <2>. QED BY <1>3, <2>3
<1>4. CASE i - r + 1 \in DOMAIN lines
  <2>. DEFINE line == lines[i - r + 1]
              d == IF i = r THEN c ELSE 1
              n == Len(line)
  <2>1. line \in Seq(Ink) /\ n \in Nat \ {0} /\ DOMAIN line = 1 .. n /\ d \in 1 .. MAX_COLUMN
        /\ \A e \in DOMAIN line : line[e] # Feed
    <3>1. line \in Written
      BY <1>4
    <3>2. line \in Seq(Ink) /\ n \in Nat \ {0} /\ DOMAIN line = 1 .. n
      BY <3>1 DEF Written
    <3>3. \A e \in DOMAIN line : line[e] # Feed
      BY <3>2, InkIs
    <3>. QED BY <1>1, <3>2, <3>3
  <2>2. \A k \in 1 .. PanelWidth :
            text'[RowStart(i) + k] = IF Covers(line, d, k)
                                     THEN line[k - d + 1] ELSE text[RowStart(i) + k]
    BY <1>4
  <2>. HIDE DEF line, d
  <2>3. Cells(i)' = [k \in 1 .. MAX_COLUMN |->
                        IF k - d + 1 \in DOMAIN line THEN line[k - d + 1] ELSE Cells(i)[k]]
    BY <1>1, <2>2 DEF Cells, Covers
  <2>4. Fed(i)' = (Fed(i) /\ d + n - 1 # MAX_COLUMN + 1)
    <3>1. CASE d + n - 1 = PanelWidth
      <4>1. Covers(line, d, PanelWidth) /\ PanelWidth - d + 1 \in DOMAIN line
        BY <1>1, <2>1, <3>1 DEF Covers
      <4>. QED BY <1>1, <2>1, <2>2, <3>1, <4>1 DEF Fed
    <3>2. CASE d + n - 1 # PanelWidth
      <4>1. ~Covers(line, d, PanelWidth)
        BY <3>2 DEF Covers
      <4>. QED BY <1>1, <2>2, <3>2, <4>1 DEF Fed
    <3>. QED BY <3>1, <3>2
  <2>5. PanelShown'[i] = Display!Panels!Overwritten(PanelShown[i], d, line)
    <3>1. PanelShown[i].cells = Cells(i) /\ PanelShown[i].feed = Fed(i)
      BY <1>2
    <3>2. Display!Panels!Overwritten(PanelShown[i], d, line) =
            [cells |-> [k \in 1 .. MAX_COLUMN |->
                          IF k - d + 1 \in DOMAIN line THEN line[k - d + 1] ELSE Cells(i)[k]],
             feed |-> Fed(i) /\ d + n - 1 # MAX_COLUMN + 1]
      BY <3>1, Zenon DEF Display!Panels!Overwritten
    <3>. QED BY <1>2, <2>3, <2>4, <3>2, Zenon
  <2>. QED BY <1>4, <2>5 DEF line, d
<1>. QED BY <1>3, <1>4

LEMMA DisRefines ==
    ASSUME PanelTyped, NEW m \in Messages,
           NEW in_row \in 0 .. MAX_ROWS, NEW in_col \in 0 .. MAX_COLUMN,
           Display!Dis(m, in_row, in_col)
    PROVE  PanelTyped' /\ (Display!Panels!Next \/ UNCHANGED PanelShown)
<1>. DEFINE message == Display!Printed(m)
            lines == Display!Tokens(message)
            row == IF in_row = 0 THEN curr_row ELSE in_row
            skip == IF Len(message) > 1 /\ message[1] = <<>> THEN 1 ELSE 0
            p == [text |-> text, curr_row |-> row, row |-> row + skip,
                  col |-> IF in_col = 0 THEN 1 ELSE in_col]
            q == Display!FoldLeft(Display!DisLine, p, lines)
            r == p.row
            c == p.col
<1>1. MAX_ROWS \in Nat \ {0} /\ MAX_COLUMN \in Nat \ {0}
  BY Sizes
<1>2. lines \in Seq(Written) /\ lines \in Display!Lines
  BY PrintedIs, TokensAre DEF Display!Lines
<1>3. text' = q.text /\ curr_row' = q.curr_row
  BY DEF Display!Dis
<1>. HIDE DEF lines
<1>4. p \in Printing
  <2>1. row \in Nat \ {0} /\ skip \in {0, 1}
    BY DEF PanelTyped
  <2>2. row + skip \in Nat \ {0}
    <3>. HIDE DEF row, skip
    <3>. QED BY <2>1
  <2>3. (IF in_col = 0 THEN 1 ELSE in_col) \in 1 .. MAX_COLUMN
    BY <1>1
  <2>. HIDE DEF row, skip
  <2>. QED BY <2>1, <2>2, <2>3 DEF Printing, PanelTyped
<1>5. p.text = text
  OBVIOUS
<1>. HIDE DEF p
<1>6. /\ q \in Printing
      /\ \A i \in 1 .. MAX_ROWS, k \in 1 .. PanelWidth :
            q.text[RowStart(i) + k] =
               IF i - p.row + 1 \in DOMAIN lines
               THEN LET line == lines[i - p.row + 1]
                        d == IF i = p.row THEN p.col ELSE 1
                    IN  IF Covers(line, d, k)
                        THEN line[k - d + 1] ELSE p.text[RowStart(i) + k]
               ELSE p.text[RowStart(i) + k]
  BY <1>2, <1>4, LinesPrinted
<1>. HIDE DEF q
<1>7. PanelTyped'
  BY <1>3, <1>6 DEF PanelTyped, Printing
<1>8. r \in Nat \ {0} /\ c \in 1 .. MAX_COLUMN
  BY <1>4 DEF Printing
<1>9. \A i \in 1 .. MAX_ROWS, k \in 1 .. PanelWidth :
          text'[RowStart(i) + k] =
             IF i - r + 1 \in DOMAIN lines
             THEN LET line == lines[i - r + 1]
                      d == IF i = r THEN c ELSE 1
                  IN  IF Covers(line, d, k)
                      THEN line[k - d + 1] ELSE text[RowStart(i) + k]
             ELSE text[RowStart(i) + k]
  BY <1>3, <1>5, <1>6
<1>. HIDE DEF r, c
<1>10. CASE r <= MAX_ROWS
  <2>1. r \in 1 .. MAX_ROWS
    BY <1>1, <1>8, <1>10
  <2>2. ASSUME NEW i \in 1 .. MAX_ROWS
        PROVE  PanelShown'[i] = IF i - r + 1 \in DOMAIN lines
                                THEN Display!Panels!Overwritten(PanelShown[i],
                                         IF i = r THEN c ELSE 1, lines[i - r + 1])
                                ELSE PanelShown[i]
    BY <1>2, <1>8, <1>9, RowPrinted
  <2>3. Display!Panels!PrintLines(r, c, lines)
    <3>1. PanelShown' = [i \in 1 .. MAX_ROWS |->
                            IF i - r + 1 \in DOMAIN lines
                            THEN Display!Panels!Overwritten(PanelShown[i],
                                     IF i = r THEN c ELSE 1, lines[i - r + 1])
                            ELSE PanelShown[i]]
      <4>1. PanelShown' = [i \in 1 .. MAX_ROWS |-> PanelShown'[i]]
        BY DEF PanelShown
      <4>. HIDE DEF PanelShown
      <4>. QED BY <2>2, <4>1
    <3>. QED BY <3>1, PanelShownIsRows DEF Display!Panels!PrintLines
  <2>. QED BY <1>2, <1>7, <1>8, <2>1, <2>3 DEF Display!Panels!Next
<1>11. CASE r > MAX_ROWS
  <2>1. ASSUME NEW i \in 1 .. MAX_ROWS PROVE i - r + 1 \notin DOMAIN lines
    <3>1. DOMAIN lines = 1 .. Len(lines) /\ Len(lines) \in Nat
      BY <1>2
    <3>2. i - r + 1 < 1
      BY <1>1, <1>8, <1>11
    <3>. QED BY <3>1, <3>2
  <2>2. ASSUME NEW i \in 1 .. MAX_ROWS PROVE PanelShown'[i] = PanelShown[i]
    BY <1>2, <1>8, <1>9, <2>1, RowPrinted
  <2>3. /\ PanelShown' = [i \in 1 .. MAX_ROWS |-> PanelShown'[i]]
        /\ PanelShown = [i \in 1 .. MAX_ROWS |-> PanelShown[i]]
    BY DEF PanelShown
  <2>4. PanelShown' = PanelShown
    <3>. HIDE DEF PanelShown
    <3>. QED BY <2>2, <2>3
  <2>. QED BY <1>7, <2>4
<1>. QED BY <1>1, <1>8, <1>10, <1>11

(* Clear puts blank rows in the place of those from r on, and one character *)
(* of the old ones stays behind them.                                      *)
LEMMA ClearRefines ==
    ASSUME PanelTyped, NEW r \in 1 .. MAX_ROWS, Display!Clear(r, 1)
    PROVE  PanelTyped' /\ Display!Panels!Next
<1>. DEFINE a == RowStart(r)
            blank == Display!Blank
            n == PanelSize
            N == Len(text)
            x == SubSeq(text, 1, a)
            y == SubSeq(blank, 1, n - a)
            z == SubSeq(text, n, N)
            w == PanelWidth
<1>1. /\ a \in Nat /\ a + w <= n /\ n \in Nat /\ MAX_COLUMN \in Nat
      /\ Display!Width = PanelWidth /\ w = MAX_COLUMN + 1
  BY Sizes DEF PanelWidth
<1>2. /\ text \in Seq(Glyph) /\ N \in Nat /\ N >= n
      /\ blank \in Seq(Glyph) /\ Len(blank) = n
  BY BlankIs DEF PanelTyped, PanelTexts
<1>3. text' = (x \o y) \o z /\ curr_row' = r
  <2>1. (r - 1) * Display!Width + 1 - 1 = a
    BY <1>1 DEF RowStart
  <2>2. a + (Len(Display!Blank) - a) = n
    BY <1>1, <1>2
  <2>3. /\ text' = SubSeq(text, 1, a) \o SubSeq(Display!Blank, 1, Len(Display!Blank) - a)
                       \o SubSeq(text, a + (Len(Display!Blank) - a), Len(text))
        /\ curr_row' = r
    BY <2>1 DEF Display!Clear
  <2>. QED BY <1>2, <2>2, <2>3
<1>. HIDE DEF a, blank, n, N, w
<1>4. x \in Seq(Glyph) /\ Len(x) = a /\ \A k \in 1 .. a : x[k] = text[k]
  BY <1>1, <1>2 DEF N
<1>5. y \in Seq(Glyph) /\ Len(y) = n - a /\ \A k \in 1 .. n - a : y[k] = blank[k]
  BY <1>1, <1>2
<1>6. z \in Seq(Glyph) /\ Len(z) \in Nat
  <2>1. n >= 1
    BY <1>1
  <2>. QED BY <1>1, <1>2, <2>1 DEF N
<1>. HIDE DEF x, y, z
<1>7. /\ x \o y \in Seq(Glyph) /\ Len(x \o y) = n
      /\ \A k \in 1 .. n : (x \o y)[k] = IF k <= a THEN x[k] ELSE y[k - a]
  <2>1. /\ x \o y \in Seq(Glyph) /\ Len(x \o y) = Len(x) + Len(y)
        /\ \A k \in 1 .. Len(x) + Len(y) :
              (x \o y)[k] = IF k <= Len(x) THEN x[k] ELSE y[k - Len(x)]
    BY <1>4, <1>5, ConcatProperties
  <2>2. Len(x) + Len(y) = n
    BY <1>1, <1>4, <1>5
  <2>. QED BY <1>4, <2>1, <2>2
<1>8. /\ text' \in Seq(Glyph) /\ Len(text') \in Nat /\ Len(text') >= n
      /\ \A k \in 1 .. n : text'[k] = IF k <= a THEN x[k] ELSE y[k - a]
  <2>. DEFINE v == x \o y
  <2>1. v \in Seq(Glyph) /\ Len(v) = n
        /\ \A k \in 1 .. n : v[k] = IF k <= a THEN x[k] ELSE y[k - a]
    BY <1>7
  <2>. HIDE DEF v
  <2>2. /\ v \o z \in Seq(Glyph) /\ Len(v \o z) = Len(v) + Len(z)
        /\ \A k \in 1 .. Len(v) + Len(z) :
              (v \o z)[k] = IF k <= Len(v) THEN v[k] ELSE z[k - Len(v)]
    BY <1>6, <2>1, ConcatProperties
  <2>3. \A k \in 1 .. n : k \in 1 .. Len(v) + Len(z) /\ k <= Len(v)
    BY <1>1, <1>6, <2>1
  <2>4. \A k \in 1 .. n : (v \o z)[k] = v[k]
    BY <2>2, <2>3
  <2>5. Len(v \o z) \in Nat /\ Len(v \o z) >= n
    BY <1>1, <1>6, <2>1, <2>2
  <2>6. text' = v \o z
    BY <1>3 DEF v
  <2>. QED BY <2>1, <2>2, <2>4, <2>5, <2>6
<1>9. PanelTyped'
  BY <1>3, <1>8 DEF PanelTyped, PanelTexts, n
<1>10. ASSUME NEW i \in 1 .. MAX_ROWS, NEW k \in 1 .. w
       PROVE  text'[RowStart(i) + k] =
                IF i < r THEN text[RowStart(i) + k] ELSE IF k = w THEN Feed ELSE Space
  <2>. DEFINE b == RowStart(i)
              e == RowStart(i - r + 1)
              g == IF k = w THEN Feed ELSE Space
  <2>1. b \in Nat /\ b + w <= n
    BY Sizes DEF w, n
  <2>2. b + k \in 1 .. n /\ k \in 1 .. w
    BY <1>1, <2>1
  <2>3. CASE i < r
    <3>1. b + w <= a
      BY <2>3, Sizes DEF w, a
    <3>2. b + k \in 1 .. a
      <4>. HIDE DEF b
      <4>. QED BY <1>1, <2>1, <2>2, <3>1
    <3>3. b + k <= a
      BY <1>1, <3>2
    <3>. QED BY <1>4, <1>8, <2>2, <2>3, <3>2, <3>3
  <2>4. CASE i >= r
    <3>1. i - r + 1 \in 1 .. MAX_ROWS
      BY <2>4, Sizes
    <3>2. b = a + e
      <4>1. i \in Int /\ r \in Int /\ PanelWidth \in Nat
        BY Sizes
      <4>. QED BY <4>1 DEF RowStart, a
    <3>3. e \in Nat /\ e + w <= n /\ blank[e + k] = g
      BY <3>1, Sizes, BlankIs DEF w, n, blank
    <3>. HIDE DEF b, e, g
    <3>4. ~(b + k <= a) /\ (b + k) - a = e + k /\ e + k \in 1 .. n - a
      BY <1>1, <2>1, <2>2, <3>2, <3>3
    <3>5. text'[b + k] = g
      <4>1. text'[b + k] = y[(b + k) - a]
        BY <1>8, <2>2, <3>4
      <4>2. y[e + k] = blank[e + k]
        BY <1>5, <3>4
      <4>. QED BY <3>3, <3>4, <4>1, <4>2
    <3>6. ~(i < r)
      BY <2>4
    <3>. QED BY <3>5, <3>6 DEF b, g
  <2>. QED BY <2>3, <2>4
<1>11. PanelShown' = [i \in 1 .. MAX_ROWS |->
                  IF i < r THEN PanelShown[i] ELSE Display!Panels!BlankRow]
  <2>1. ASSUME NEW i \in 1 .. MAX_ROWS
        PROVE  PanelShown'[i] = IF i < r THEN PanelShown[i] ELSE Display!Panels!BlankRow
    <3>1. /\ w \in 1 .. w
          /\ \A k \in 1 .. MAX_COLUMN : k \in 1 .. w /\ k # w
      BY <1>1
    <3>2. PanelShown'[i] = [cells |-> Cells(i)', feed |-> Fed(i)']
      BY DEF PanelShown
    <3>3. CASE i < r
      <4>1. Cells(i)' = Cells(i) /\ Fed(i)' = Fed(i)
        BY <1>10, <3>1, <3>3 DEF Cells, Fed, w
      <4>2. PanelShown[i] = [cells |-> Cells(i), feed |-> Fed(i)]
        BY DEF PanelShown
      <4>3. PanelShown'[i] = PanelShown[i]
        BY <3>2, <4>1, <4>2, Zenon
      <4>. QED BY <3>3, <4>3
    <3>4. CASE ~(i < r)
      <4>1. Cells(i)' = [k \in 1 .. MAX_COLUMN |-> Space]
        BY <1>10, <3>1, <3>4 DEF Cells
      <4>2. Fed(i)' <=> TRUE
        BY <1>10, <3>1, <3>4 DEF Fed, w
      <4>. QED BY <3>2, <3>4, <4>1, <4>2 DEF Display!Panels!BlankRow, Space
    <3>. QED BY <3>3, <3>4
  <2>2. PanelShown' = [i \in 1 .. MAX_ROWS |-> PanelShown'[i]]
    BY DEF PanelShown
  <2>. HIDE DEF PanelShown
  <2>. QED BY <2>1, <2>2
<1>12. Display!Panels!BlankFrom(r)
  BY <1>11, PanelShownIsRows DEF Display!Panels!BlankFrom
<1>. QED BY <1>9, <1>12 DEF Display!Panels!Next

(* Panel refines PanelRows: whatever is printed wherever and however often *)
(* it is cleared, each line lands in its row, is cut at its end and takes  *)
(* nothing of another row, and a row loses its line feed only to a line    *)
(* that ends on it exactly, until it is cleared (Update_Index, Dis, Clear).*)
THEOREM PanelIsRows == PhutilsSpec => RowsApart
<1>1. PhutilsInit => PanelTyped /\ Display!Panels!Init
  <2>1. SUFFICES ASSUME PhutilsInit PROVE PanelTyped /\ Display!Panels!Init
    OBVIOUS
  <2>2. text = Display!Blank /\ curr_row = 1
    BY <2>1 DEF PhutilsInit, Display!Init
  <2>3. PanelTyped
    BY <2>2, BlankIs, Sizes DEF PanelTyped, PanelTexts
  <2>4. ASSUME NEW r \in 1 .. MAX_ROWS
        PROVE  [cells |-> Cells(r), feed |-> Fed(r)] = Display!Panels!BlankRow
    <3>1. /\ PanelWidth \in 1 .. PanelWidth
          /\ \A k \in 1 .. MAX_COLUMN : k \in 1 .. PanelWidth /\ k # PanelWidth
      BY Sizes DEF PanelWidth
    <3>2. Cells(r) = [c \in 1 .. MAX_COLUMN |-> Space]
      BY <2>2, <3>1, BlankIs DEF Cells
    <3>3. Fed(r) <=> TRUE
      BY <2>2, <3>1, BlankIs DEF Fed
    <3>. QED BY <3>2, <3>3 DEF Display!Panels!BlankRow, Space
  <2>5. PanelShown = [r \in 1 .. MAX_ROWS |-> Display!Panels!BlankRow]
    BY <2>4, Zenon DEF PanelShown
  <2>. QED BY <2>3, <2>5, PanelShownIsRows DEF Display!Panels!Init
<1>2. PanelTyped /\ [PhutilsNext]_phutilsVars =>
          PanelTyped' /\ (Display!Panels!Next \/ UNCHANGED [r \in 1 .. MAX_ROWS |-> Display!Row(r)])
  <2>1. SUFFICES ASSUME PanelTyped, [PhutilsNext]_phutilsVars
                 PROVE  PanelTyped' /\ (Display!Panels!Next \/ UNCHANGED PanelShown)
    BY PanelShownIsRows
  <2>2. CASE Display!Next
    <3>1. ASSUME NEW m \in Messages, NEW r \in 0 .. MAX_ROWS, NEW c \in 0 .. MAX_COLUMN,
                 Display!Dis(m, r, c)
          PROVE  PanelTyped' /\ (Display!Panels!Next \/ UNCHANGED PanelShown)
      BY <2>1, <3>1, DisRefines
    <3>2. ASSUME NEW r \in 1 .. MAX_ROWS, Display!Clear(r, 1)
          PROVE  PanelTyped' /\ Display!Panels!Next
      BY <2>1, <3>2, ClearRefines
    <3>. QED BY <2>2, <3>1, <3>2 DEF Display!Next
  <2>3. CASE UNCHANGED panelVars
    BY <2>1, <2>3 DEF panelVars, PanelTyped, PanelShown, Cells, Fed
  <2>. QED BY <2>1, <2>2, <2>3 DEF PhutilsNext, AllBut, phutilsVars
<1>. QED BY <1>1, <1>2, PTL DEF PhutilsSpec, RowsApart, Display!RowsApart, Display!Panels!Spec
=============================================================================
