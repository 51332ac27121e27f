----------------------------- MODULE MCReaders ------------------------------
(***************************************************************************)
(* Who reads what an acquisition writes while it is being written:         *)
(* CURR_REQ the statistics (BusStats), REAL_REQ the last major frame       *)
(* (RealTime), and the data analysis window the bus file (Offline for the  *)
(* words, Combos for the boxes of the window).  The four share no          *)
(* variable, so a behaviour is of one of them.                             *)
(*                                                                         *)
(* The command words are of three messages: to a terminal (one word), from *)
(* it (two words), and of 32 words.  The combinations found are of two     *)
(* terminals that share a subaddress, one of them with two subaddresses    *)
(* and two word counts; the second file ends with a repetition, which      *)
(* leaves presentCheck set.                                                *)
(***************************************************************************)
EXTENDS Sequences, BusStats, RealTime

CONSTANTS Files, Commands, Block, Garbage, ListSize, MaxBusMessages, Found, MaxOpens

ASSUME ReadersAssumption ==
    /\ Commands \subseteq Nat
    /\ Garbage \subseteq Nat
    /\ Found \subseteq Seq([rt : Nat, sub : Nat, wc : Nat])

VARIABLES reader,
    bus, words, flushed, exited, window, filePath, reading, msgCount, buffer, list,
    presentCheck, selectedCombo, output, opens, seen, shown,
    pc, turns, boxList, presentCount, boxCheck, uniqueRtList, uniqueSubList, uniqueWCList,
    box, added, boxOpens

File == INSTANCE Offline WITH MaxMessages <- MaxBusMessages

C(rt, sub, wc) == [rt |-> rt, sub |-> sub, wc |-> wc]
MCFound == {<<C(1, 1, 1), C(2, 1, 2), C(1, 1, 1), C(1, 2, 1), C(1, 1, 2)>>,
            <<C(2, 3, 3), C(1, 1, 2), C(2, 1, 2), C(2, 3, 3)>>}
ComboBoxes == INSTANCE Combos WITH
    Files <- Found, todo <- turns, list <- boxList, presentCheck <- boxCheck,
    selectedCombo <- added, opens <- boxOpens

fileVars == <<bus, words, flushed, exited, window, filePath, reading, msgCount, buffer, list,
              presentCheck, selectedCombo, output, opens, seen, shown>>
boxVars == <<pc, turns, boxList, presentCount, boxCheck, uniqueRtList, uniqueSubList,
             uniqueWCList, box, added, boxOpens>>
readerVars == <<vars, realTimeVars, fileVars, boxVars, reader>>

ReadersInit ==
    /\ Init /\ RealTimeInit /\ File!Init /\ ComboBoxes!Init
    /\ reader \in {"CURR_REQ", "REAL_REQ", "bus file", "boxes"}
    /\ reader # "CURR_REQ" => tag = [rt |-> 1, sa |-> 1, ok |-> TRUE]
ReadersNext ==
    /\ UNCHANGED reader
    /\ \/ reader = "CURR_REQ" /\ Next /\ UNCHANGED <<realTimeVars, fileVars, boxVars>>
       \/ reader = "REAL_REQ" /\ RealTimeNext /\ UNCHANGED <<vars, fileVars, boxVars>>
       \/ reader = "bus file" /\ File!Next /\ UNCHANGED <<vars, realTimeVars, boxVars>>
       \/ reader = "boxes" /\ ComboBoxes!Next /\ UNCHANGED <<vars, realTimeVars, fileVars>>
ReadersSpec == ReadersInit /\ [][ReadersNext]_readerVars

(* Offline: the list of the first file opened has all that is in it.       *)
FirstListComplete == File!FirstListComplete

(* Offline: Output has the messages of the selection, in order.            *)
OutputFaithful == File!OutputFaithful

(* Combos: an add selects what the boxes say.                              *)
SelectsTheTexts == ComboBoxes!SelectsTheTexts
=============================================================================
