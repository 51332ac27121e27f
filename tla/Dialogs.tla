------------------------------- MODULE Dialogs ------------------------------
(***************************************************************************)
(* Class My_Dialog of phutils/my_widget.cpp, the dialogues a window asks   *)
(* its user with, and Get_Sav_Val_File of common_utils.cpp, the file that  *)
(* keeps one number of his from one run of the program to the next.        *)
(*                                                                         *)
(* A call opens a dialogue and goes on when the user has answered.  Titles *)
(* and places are left out; what is typed is a text a number is read from, *)
(* or none.  The library's windows are external.                           *)
(***************************************************************************)
EXTENDS Integers, Sequences, SequencesExt

CONSTANTS
    Inputs,         \* what may be typed: records [text, number], number None if there is none
    None,
    Words,          \* passwords
    Values,         \* numbers saved
    MaxCalls        \* bound

VARIABLES
    dbase, parent, font, image,     \* of the object: is there one
    dialog,         \* the call that waits for the user, or Closed
    val,            \* the caller's variable
    answer,         \* what the last call returned
    user,           \* history: what the user did, and in which dialogue
    stored,         \* the file: <<>> if empty, Absent if there is none
    saving,         \* the value Get_Sav_Val_File is about to write
    kept,           \* history: the value of the last save that opened the file, or INVALID
    lost,           \* history: it did not get into the file
    calls

object == <<dbase, parent, font, image>>
vars == <<object, dialog, val, answer, user, stored, saving, kept, lost, calls>>

NO_ERR == 0
ERROR == 1
INVALID == -1
PH_OK_CANCEL == 1
PH_YES_NO_CANCEL == 3
PH_CANCEL == 3
Absent == <<INVALID>>
Closed == [kind |-> "none"]
Idle == dialog = Closed /\ saving = INVALID
Called == Idle /\ calls < MaxCalls /\ calls' = calls + 1
Kept == UNCHANGED <<stored, saving, kept, lost>>
Returns(code) == answer' = code

-----------------------------------------------------------------------------
(* The object.  The pictures are in the data base Init opens; a dialogue   *)
(* without its picture is shown all the same.                              *)
Set_Font(generated) == font' = IF generated THEN TRUE ELSE font
Get_Picture == image' \in IF dbase THEN BOOLEAN ELSE {FALSE}

InitDialog(opened, generated) ==
    /\ Called
    /\ parent' = FALSE /\ font' = generated /\ dbase' = opened
    /\ Returns(IF opened THEN NO_ERR ELSE ERROR)
    /\ UNCHANGED <<image, dialog, val, user>> /\ Kept
Set_Parent ==
    /\ Called /\ parent' = TRUE
    /\ UNCHANGED <<dbase, font, image, dialog, val, answer, user>> /\ Kept

Opens(d) ==
    /\ Called /\ Get_Picture
    /\ dialog' = d
    /\ UNCHANGED <<dbase, parent, font, val, answer, user>> /\ Kept

(* The user has done with the dialogue. *)
Closes(what, code, value) ==
    /\ dialog' = Closed
    /\ user' = [dialog |-> dialog, did |-> what]
    /\ Returns(code) /\ val' = value
    /\ UNCHANGED <<object, calls>> /\ Kept

-----------------------------------------------------------------------------
(* msgbox: the buttons of each type.  A default button there is not is the *)
(* last; Enter and Escape both press the default button.                   *)
Buttons == <<<<"OK">>, <<"OK", "Cancel">>, <<"Yes", "No">>, <<"Yes", "No", "Cancel">>>>
msgbox(type, def_button) ==
    LET t == IF type > PH_YES_NO_CANCEL THEN PH_OK_CANCEL ELSE type
        asked == IF type > PH_YES_NO_CANCEL THEN 1 ELSE def_button
        count == Len(Buttons[t + 1])
        last == IF asked > count THEN count ELSE asked
        default == IF t = PH_OK_CANCEL /\ last = PH_CANCEL THEN 2 ELSE last
    IN  Opens([kind |-> "msgbox", type |-> t, buttons |-> Buttons[t + 1], default |-> default,
               asked |-> asked, blocks |-> parent])
(* msgbox with buttons of the caller's. *)
msgboxOf(buttons, def_button) ==
    Opens([kind |-> "own", type |-> 0, buttons |-> buttons, default |-> def_button,
           asked |-> def_button, blocks |-> parent])

(* PH_CANCEL is 3 also where Cancel is the second button. *)
ResponseAsIs(response) == response
Response(response) ==
    IF dialog.kind = "msgbox" /\ dialog.type = PH_OK_CANCEL /\ response = 2
    THEN PH_CANCEL ELSE response
Press(key) ==
    /\ dialog.kind \in {"msgbox", "own"}
    /\ \E response \in DOMAIN dialog.buttons :
         /\ key = "Default" => response = dialog.default
         /\ key # "Default" => key = dialog.buttons[response]
         /\ Closes(key, Response(response), val)

(* Dis_Msg returns at once, Dis_Msg_Wait when its notice is read. *)
Dis_Msg ==
    /\ Called /\ Get_Picture
    /\ UNCHANGED <<dbase, parent, font, dialog, val, answer, user>> /\ Kept
Dis_Msg_Wait == Opens([kind |-> "notice"])
ReadNotice == dialog.kind = "notice" /\ Closes("Ok", answer, val)

-----------------------------------------------------------------------------
(* Get_Int, Get_Float and Get_Text through Get_Input.  The text is the     *)
(* caller's own; whether it is changed by Cancel is the library's.         *)
Get_Number == Opens([kind |-> "number"])
Get_Text == Opens([kind |-> "text"])
Enter(input) ==
    \/ dialog.kind = "number"
       /\ Closes(input, IF input.number = None THEN ERROR ELSE NO_ERR,
                 IF input.number = None THEN "0" ELSE input.number)
    \/ dialog.kind = "text" /\ Closes(input, NO_ERR, input.text)
Cancel(input) ==
    \/ dialog.kind = "number" /\ Closes("Cancel", ERROR, val)
    \/ dialog.kind = "text"
       /\ \E value \in {val, input.text} : Closes("Cancel", ERROR, value)

(* Chk_Password asks again until validate accepts or the user gives up. *)
validate(data, password_entered) ==
    IF password_entered = data THEN "Pt_PWD_ACCEPT" ELSE "Pt_PWD_RETRY"
Chk_Password(exp_password) == Opens([kind |-> "password", data |-> exp_password])
Password(word) ==
    /\ dialog.kind = "password"
    /\ validate(dialog.data, word) = "Pt_PWD_ACCEPT"
    /\ Closes(word, NO_ERR, val)
GiveUp ==
    /\ dialog.kind = "password"
    /\ Closes("Cancel", ERROR, val)

-----------------------------------------------------------------------------
(* Get_Sav_Val_File empties the file when it opens it and writes when it   *)
(* closes it.  Nobody asks fwrite and fclose whether they did: the answer  *)
(* is NO_ERR.  The two bytes are written or not.  The value INVALID asks   *)
(* for what is stored.                                                     *)
SaveOpen(value, opened) ==
    /\ Called
    /\ IF opened
       THEN stored' = <<>> /\ saving' = value /\ kept' = value /\ lost' = FALSE /\ UNCHANGED answer
       ELSE Returns(ERROR) /\ UNCHANGED <<stored, saving, kept, lost>>
    /\ UNCHANGED <<object, dialog, val, user>>
WrittenOrLost ==
    \/ stored' = <<saving>> /\ UNCHANGED lost
    \/ stored' = stored /\ lost' = TRUE
SaveClose ==
    /\ saving # INVALID /\ saving' = INVALID
    /\ WrittenOrLost
    /\ Returns(NO_ERR)
    /\ UNCHANGED <<object, dialog, val, user, kept, calls>>
ReadValue == IF Len(stored) = 1 THEN stored[1] ELSE INVALID
Read(opened) ==
    /\ Called
    /\ Returns(IF opened THEN ReadValue ELSE INVALID)
    /\ user' = [dialog |-> [kind |-> "file"], did |-> "read"]
    /\ UNCHANGED <<object, dialog, val>> /\ Kept
(* The program ends, also while it saves, and a new one starts. *)
Restart ==
    /\ calls < MaxCalls /\ calls' = calls + 1
    /\ dbase' = FALSE /\ parent' = FALSE /\ font' = FALSE /\ image' = FALSE
    /\ dialog' = Closed /\ saving' = INVALID
    /\ IF saving = INVALID THEN UNCHANGED <<stored, lost>> ELSE WrittenOrLost
    /\ answer' = NO_ERR /\ val' = "0" /\ user' = [dialog |-> Closed, did |-> None]
    /\ UNCHANGED kept

-----------------------------------------------------------------------------
Init ==
    /\ dbase = FALSE /\ parent = FALSE /\ font = FALSE /\ image = FALSE
    /\ dialog = Closed /\ val = "0" /\ answer = NO_ERR
    /\ user = [dialog |-> Closed, did |-> None]
    /\ stored = Absent /\ saving = INVALID /\ kept = INVALID /\ lost = FALSE
    /\ calls = 0

Keys == {"OK", "Cancel", "Yes", "No", "Default"}
Ask ==
    \/ \E opened, generated \in BOOLEAN : InitDialog(opened, generated)
    \/ Set_Parent
    \/ \E type \in 0 .. 4, def_button \in 1 .. 3 : msgbox(type, def_button)
    \/ \E def_button \in 1 .. 2 : msgboxOf(<<"Yes", "No">>, def_button)
    \/ Dis_Msg \/ Dis_Msg_Wait \/ Get_Number \/ Get_Text
    \/ \E word \in Words : Chk_Password(word)
Answer ==
    \/ \E key \in Keys : Press(key)
    \/ ReadNotice
    \/ \E input \in Inputs : Enter(input) \/ Cancel(input)
    \/ \E word \in Words : Password(word)
    \/ GiveUp
KeepValue ==
    \/ \E value \in Values, opened \in BOOLEAN : SaveOpen(value, opened)
    \/ \E opened \in BOOLEAN : Read(opened)
    \/ SaveClose \/ Restart
Next == Ask \/ Answer \/ KeepValue

Spec == Init /\ [][Next]_vars

-----------------------------------------------------------------------------
(* Whatever was asked and answered before, the caller gets what the user   *)
(* meant: the code of the button he pressed, also by the default key if    *)
(* the default asked for is one of the buttons; the number read from the   *)
(* file is that of the last save that could open it, from whichever        *)
(* program, or INVALID if that one did not get into the file: never an     *)
(* older one.  msgbox, Get_Sav_Val_File.                                   *)
Code(label) == CASE label \in {"OK", "Yes"} -> 1 [] label = "No" -> 2 [] label = "Cancel" -> 3
Meant(d, key) ==
    IF key # "Default" THEN Code(key)
    ELSE IF \E b \in DOMAIN d.buttons : Code(d.buttons[b]) = d.asked THEN d.asked
    ELSE Code(d.buttons[Len(d.buttons)])
AnswerIsTheUsers ==
    [][/\ dialog.kind = "msgbox" /\ dialog' = Closed /\ calls' = calls =>
            answer' = Meant(dialog, user'.did)
       /\ Read(TRUE) => answer' = kept \/ (lost /\ answer' = INVALID)]_vars
=============================================================================
