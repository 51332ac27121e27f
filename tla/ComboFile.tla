----------------------------- MODULE ComboFile -----------------------------
(***************************************************************************)
(* The selection of a combo box kept in a binary file                      *)
(* (phutils/my_widget.cpp).  The file has a header, a number of records    *)
(* and a selection; records are never written, as the call that passes     *)
(* items is commented out, so the number is 0 and only the selection is    *)
(* modelled.  Save_Combo_Selection rewrites the header, Load_Combo_File    *)
(* selects what it says.  Each call on the file may fail, and the program  *)
(* may be killed between any two.  A header is written whole or not at all.*)
(***************************************************************************)
EXTENDS Integers, Sequences, SequencesExt

CONSTANTS
    Texts,        \* of the items of the box
    CHAR_MAX,     \* the selection is passed in a char (127)
    MaxSaves,     \* bound: saves begun
    MaxMishaps    \* bound: failures and kills

VARIABLES
    there,        \* is there a file
    header,       \* the selection in its header, <<>> if it has none
    pc,           \* idle, or where Save_Combo_Item_Pos is: new, read, write
    pending,      \* a header (0, 0) waits in a stream that was never closed
    items, sel,   \* the box: its list and the selected position
    saves, mishaps,
    loaded,       \* history: the box is as Load_Combo_File left it
    kept,         \* history: the selection of the last save that returned NO_ERR
    lost          \* history: ... is not in the file: its fclose failed, or the header
                  \* was overwritten with (0, 0) since

file == <<there, header, pending>>
box == <<items, sel>>
vars == <<file, pc, box, saves, mishaps, loaded, kept, lost>>

Mishap == mishaps < MaxMishaps /\ mishaps' = mishaps + 1
AsChar(n) == IF n <= CHAR_MAX THEN n ELSE n - 2 * (CHAR_MAX + 1)

-----------------------------------------------------------------------------
(* A text that is not in the list goes to its beginning; it is not saved.  *)
Add_Combo_Items(t, sel_index) ==
    /\ pc = "idle"
    /\ items' = IF t \in ToSet(items) THEN items ELSE <<t>> \o items
    /\ sel_index \in DOMAIN items' /\ sel' = sel_index
    /\ loaded' = FALSE
    /\ UNCHANGED <<file, pc, saves, mishaps, kept, lost>>
Select(k) ==
    /\ pc = "idle" /\ k \in DOMAIN items
    /\ sel' = k /\ loaded' = FALSE
    /\ UNCHANGED <<file, pc, items, saves, mishaps, kept, lost>>

(* Save_Combo_Item_Pos(fname, NULL, 0, sel): "r+b", or else "w+b", which   *)
(* empties a file that is there.                                           *)
OpenTruncating ==
    /\ there' = TRUE /\ header' = <<>> /\ pc' = "new"
    /\ UNCHANGED <<mishaps, lost>>
Open ==
    \/ there /\ pc' = "read" /\ UNCHANGED <<there, header, mishaps, lost>>
    \/ /\ there' = TRUE /\ header' = <<>> /\ pc' = "new"
       /\ IF there THEN Mishap /\ lost' = TRUE ELSE UNCHANGED <<mishaps, lost>>
    \/ Mishap /\ pc' = "idle" /\ UNCHANGED <<there, header, lost>>
Save_Combo_Selection ==
    /\ pc = "idle"
    /\ saves < MaxSaves /\ saves' = saves + 1
    /\ loaded' = FALSE
    /\ Open
    /\ UNCHANGED <<pending, box, kept>>

(* Of a new file.  A failure leaves the stream open, with the header or    *)
(* not: what it has is written when the program ends.                      *)
Write_Header ==
    /\ pc = "new"
    /\ \/ header' = <<0>> /\ pc' = "read" /\ UNCHANGED <<pending, mishaps>>
       \/ Mishap /\ pc' = "idle" /\ pending' \in {pending, TRUE} /\ UNCHANGED header
    /\ UNCHANGED <<there, box, saves, loaded, kept, lost>>

ReadHeader ==
    /\ pc = "read"
    /\ \/ header # <<>> /\ pc' = "write" /\ UNCHANGED mishaps
       \/ header = <<>> /\ pc' = "idle" /\ UNCHANGED mishaps
       \/ Mishap /\ pc' = "idle"
    /\ UNCHANGED <<file, box, saves, loaded, kept, lost>>

(* The header is in the stream until fclose, whose result nobody asks for. *)
WriteHeader ==
    /\ pc = "write" /\ pc' = "idle"
    /\ \/ header' = <<AsChar(sel)>> /\ kept' = sel /\ lost' = FALSE /\ UNCHANGED mishaps
       \/ Mishap /\ UNCHANGED <<header, kept, lost>>
       \/ Mishap /\ kept' = sel /\ lost' = TRUE /\ UNCHANGED header
    /\ UNCHANGED <<there, pending, box, saves, loaded>>

(* The program ends, in the middle of a save if it is killed, and starts   *)
(* again with an empty box.                                                *)
Restart ==
    /\ \/ pc = "idle" /\ pending /\ header' = <<0>> /\ lost' = TRUE /\ UNCHANGED mishaps
       \/ pc = "idle" /\ UNCHANGED <<header, lost, mishaps>>
       \/ pc # "idle" /\ Mishap /\ UNCHANGED <<header, lost>>
    /\ pc' = "idle" /\ pending' = FALSE
    /\ items' = <<>> /\ sel' = 0 /\ loaded' = FALSE
    /\ UNCHANGED <<there, saves, kept>>

(* Without a file or a header the box stays as it is.                      *)
Load_Combo_File ==
    /\ pc = "idle"
    /\ header # <<>> /\ sel' = header[1] /\ loaded' = TRUE
    /\ UNCHANGED <<file, pc, items, saves, mishaps, kept, lost>>

-----------------------------------------------------------------------------
Init ==
    /\ there = FALSE /\ header = <<>> /\ pc = "idle" /\ pending = FALSE
    /\ items = <<>> /\ sel = 0
    /\ saves = 0 /\ mishaps = 0
    /\ loaded = FALSE /\ kept = 0 /\ lost = FALSE

Next ==
    \/ \E t \in Texts : \E k \in 1 .. Len(items) + 1 : Add_Combo_Items(t, k)
    \/ \E k \in DOMAIN items : Select(k)
    \/ Save_Combo_Selection \/ Write_Header \/ ReadHeader \/ WriteHeader
    \/ Restart \/ Load_Combo_File

Spec == Init /\ [][Next]_vars

-----------------------------------------------------------------------------
(* A box that is loaded has the selection of the last save that returned   *)
(* NO_ERR, in whichever program that was: saves that fail or are killed at *)
(* any later point do not take it away, unless a fopen "r+b" failed and    *)
(* the file was emptied, or a stream left open by a failed first save was  *)
(* written at the end of its program; and a failed fclose is not reported. *)
(* A selection beyond CHAR_MAX comes back negative.  Save_Combo_Item_Pos,  *)
(* Write_Header, Load_Combo_File.                                          *)
SelectionSurvives == loaded /\ ~lost /\ kept <= CHAR_MAX => sel = kept
=============================================================================
