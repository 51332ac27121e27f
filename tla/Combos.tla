------------------------------- MODULE Combos -------------------------------
(***************************************************************************)
(* The boxes of the data analysis window that narrow a selection           *)
(* (firstClient/src/dtana_callbacks.cpp): terminal, subaddress, word       *)
(* count.  The terminals are filled in while realised_callback reads the   *)
(* bus file; at every new combination it lets Photon run the callbacks of  *)
(* the user (PtBkgdHandlerProcess), before it counts that combination.     *)
(* Each choice fills the next box.  What the file contains and what        *)
(* becomes of the selection is module Offline.                             *)
(*                                                                         *)
(* Bound: the window is not closed and no data are shown while the file is *)
(* read; both close or free what the loop goes on to use.                  *)
(***************************************************************************)
EXTENDS Integers, Sequences, SequencesExt, Functions, UniqueLists

CONSTANTS
    Files,      \* what the turns of the reading loop find: sequences of combinations
    MaxOpens    \* bound: times the window is opened

VARIABLES
    pc,             \* no window, reading, inside PtBkgdHandlerProcess, or in the main loop
    todo,           \* turns left of the reading loop
    list,           \* rtList, subaddressList, wordCountList
    presentCount, presentCheck,
    uniqueRtList, uniqueSubList, uniqueWCList,   \* as far as their counts go
    box,            \* the three boxes: the items shown, the index of the one chosen
    selectedCombo,
    opens           \* history: times the window was opened

lists == <<todo, list, presentCount, presentCheck, uniqueRtList>>
vars == <<pc, lists, uniqueSubList, uniqueWCList, box, selectedCombo, opens>>

Empty == [items |-> <<>>, chosen |-> 0]
Listed == SubSeq(list, 1, presentCount)

(* Photon lets a callback run: also from inside realised_callback. *)
UserTurn == pc \in {"process", "main"}

-----------------------------------------------------------------------------
(* realised_callback. *)
Realised(f) ==
    /\ pc = "closed" /\ opens < MaxOpens
    /\ pc' = "read" /\ todo' = f /\ opens' = opens + 1
    /\ list' = <<>> /\ presentCount' = 0
    /\ uniqueRtList' = <<>> /\ uniqueSubList' = <<>> /\ uniqueWCList' = <<>>
    /\ box' = [rt |-> Empty, sub |-> Empty, wc |-> Empty]
    /\ UNCHANGED <<presentCheck, selectedCombo>>

(* A turn that found a combination: it is listed if the search, which does *)
(* not run on an empty list, did not find it; a new terminal gets an item. *)
Present(c) == IF presentCount = 0 THEN presentCheck = 1 ELSE c \in ToSet(Listed)
IsNewTerminal(c) == \A k \in 1 .. presentCount : list[k].rt # c.rt
AddTerminal(rt) ==
    /\ uniqueRtList' = Append(uniqueRtList, rt)
    /\ box' = [box EXCEPT !.rt.items = Append(@, rt)]
Turn ==
    /\ pc = "read" /\ todo # <<>>
    /\ LET c == Head(todo)
       IN  /\ presentCheck' = IF Present(c) THEN 1 ELSE 0
           /\ IF Present(c)
              THEN UNCHANGED <<pc, list, uniqueRtList, box>>
              ELSE /\ pc' = "process"
                   /\ list' = Append(Listed, c)
                   /\ IF IsNewTerminal(c) THEN AddTerminal(c.rt)
                                          ELSE UNCHANGED <<uniqueRtList, box>>
    /\ todo' = Tail(todo)
    /\ UNCHANGED <<presentCount, uniqueSubList, uniqueWCList, selectedCombo, opens>>

Counted ==
    /\ pc = "process"
    /\ presentCount' = presentCount + 1
    /\ pc' = "read"
    /\ UNCHANGED <<todo, list, presentCheck, uniqueRtList, uniqueSubList, uniqueWCList,
                   box, selectedCombo, opens>>

Filled ==
    /\ pc = "read" /\ todo = <<>>
    /\ pc' = "main"
    /\ UNCHANGED <<lists, uniqueSubList, uniqueWCList, box, selectedCombo, opens>>

(* cancel_callback. *)
Cancel ==
    /\ pc = "main"
    /\ pc' = "closed"
    /\ UNCHANGED <<lists, uniqueSubList, uniqueWCList, box, selectedCombo, opens>>

-----------------------------------------------------------------------------
(* The combinations of what was chosen. *)
OfRt(rt) == {x \in ToSet(Listed) : x.rt = rt}
OfSub(rt, sub) == {x \in OfRt(rt) : x.sub = sub}
Choose(which, k) == k \in DOMAIN box[which].items

(* activate_subaddress_callback.  The box of the word counts stays. *)
ChooseRtCounting(k) ==
    /\ UserTurn /\ Choose("rt", k)
    /\ LET new == AddValues(<<>>, Listed, [x \in OfRt(uniqueRtList[k]) |-> x.sub])
       IN  /\ uniqueSubList' = uniqueSubList \o new
           /\ box' = [box EXCEPT !.rt.chosen = k, !.sub = [items |-> new, chosen |-> 0]]
    /\ UNCHANGED <<pc, lists, uniqueWCList, selectedCombo, opens>>
ChooseRt(k) ==
    /\ UserTurn /\ Choose("rt", k)
    /\ LET new == AddValues(<<>>, Listed, [x \in OfRt(uniqueRtList[k]) |-> x.sub])
       IN  /\ uniqueSubList' = new
           /\ box' = [box EXCEPT !.rt.chosen = k, !.sub = [items |-> new, chosen |-> 0]]
    /\ UNCHANGED <<pc, lists, uniqueWCList, selectedCombo, opens>>

(* activate_wordcount_callback. *)
ChooseSub(k) ==
    /\ UserTurn /\ Choose("sub", k)
    /\ LET found == OfSub(uniqueRtList[box.rt.chosen], uniqueSubList[k])
           new   == AddValues(<<>>, Listed, [x \in found |-> x.wc])
       IN  /\ uniqueWCList' = new
           /\ box' = [box EXCEPT !.sub.chosen = k, !.wc = [items |-> new, chosen |-> 0]]
    /\ UNCHANGED <<pc, lists, uniqueSubList, selectedCombo, opens>>

ChooseWc(k) ==
    /\ UserTurn /\ Choose("wc", k)
    /\ box' = [box EXCEPT !.wc.chosen = k]
    /\ UNCHANGED <<pc, lists, uniqueSubList, uniqueWCList, selectedCombo, opens>>

(* add_combo_callback: three choices are taken as they are, fewer select   *)
(* from the list.  The boxes are emptied if anything was new.              *)
Rt == uniqueRtList[box.rt.chosen]
Sub == uniqueSubList[box.sub.chosen]
Triple == [rt |-> Rt, sub |-> Sub, wc |-> uniqueWCList[box.wc.chosen]]
Selected ==
    CASE box.rt.chosen = 0 -> ToSet(Listed)
      [] box.rt.chosen # 0 /\ box.sub.chosen = 0 -> OfRt(Rt)
      [] box.rt.chosen # 0 /\ box.sub.chosen # 0 /\ box.wc.chosen = 0 -> OfSub(Rt, Sub)
      [] OTHER -> {Triple}
AllChosen == box.rt.chosen # 0 /\ box.sub.chosen # 0 /\ box.wc.chosen # 0
AddCombo ==
    /\ UserTurn
    /\ selectedCombo' = AddValues(selectedCombo, IF AllChosen THEN <<Triple>> ELSE Listed,
                                  [x \in Selected |-> x])
    /\ box' = IF selectedCombo' = selectedCombo THEN box
              ELSE [box EXCEPT !.sub = Empty, !.wc = Empty]
    /\ UNCHANGED <<pc, lists, uniqueSubList, uniqueWCList, opens>>

-----------------------------------------------------------------------------
Init ==
    /\ pc = "closed" /\ todo = <<>> /\ list = <<>>
    /\ presentCount = 0 /\ presentCheck = 0
    /\ uniqueRtList = <<>> /\ uniqueSubList = <<>> /\ uniqueWCList = <<>>
    /\ box = [rt |-> Empty, sub |-> Empty, wc |-> Empty]
    /\ selectedCombo = <<>> /\ opens = 0

Next ==
    \/ \E f \in Files : Realised(f)
    \/ Turn \/ Counted \/ Filled \/ Cancel
    \/ \E k \in DOMAIN box.rt.items : ChooseRt(k)
    \/ \E k \in DOMAIN box.sub.items : ChooseSub(k)
    \/ \E k \in DOMAIN box.wc.items : ChooseWc(k)
    \/ AddCombo

Spec == Init /\ [][Next]_vars

-----------------------------------------------------------------------------
(* Properties.                                                             *)

(* The indices of the boxes are used with the arrays: what an add selects  *)
(* is what the texts in the boxes say, from the combinations counted so    *)
(* far, and nothing twice.  Three choices are one of those, whatever was   *)
(* chosen while the list was growing and whichever box was filled again.   *)
(* add_combo_callback, activate_subaddress_callback.                       *)
Text(which) == box[which].items[box[which].chosen]
Matches(x) ==
    box.rt.chosen # 0 =>
        /\ x.rt = Text("rt")
        /\ box.sub.chosen # 0 => /\ x.sub = Text("sub")
                                 /\ box.wc.chosen # 0 => x.wc = Text("wc")
SelectsTheTexts ==
    [][AddCombo =>
          /\ ToSet(selectedCombo') =
                ToSet(selectedCombo) \cup {x \in ToSet(Listed) : Matches(x)}
          /\ IsInjective(selectedCombo')]_vars
=============================================================================
