------------------------------- MODULE Fields -------------------------------
(***************************************************************************)
(* The selection of fields in the client: packageConnect                   *)
(* (dbcode/DbConnect.cpp) with the table of fields it reads and updates,   *)
(* the selection and new-group windows (src/rtana_callbacks.cpp) and the   *)
(* panels of names, values and units (phutils/common_utils.cpp) the        *)
(* analysis shows the selected fields in.                                  *)
(*                                                                         *)
(* The windows hand indices of their lists to packageConnect, which applies*)
(* them to the table or to its own arrays: what a list shows and what the  *)
(* index means are kept apart here.  Any callback may run between two      *)
(* polls, and between two items while the new-group window is filled.      *)
(* Frames are those of the package asked for (module Analysis has when     *)
(* they are not); a value is the name of the field it was read for.        *)
(***************************************************************************)
EXTENDS Integers, Sequences, FiniteSets, SequencesExt

CONSTANTS
    Table,       \* for each package its rows: [name, numeric, unit, group]
    GroupNames,  \* names the user may give a group
    LongNames,   \* ... for which the UPDATE statement is longer than query[]
    FieldLimit,  \* length of fields[] (50)
    GroupLimit,  \* length of selected_group[] (20)
    MAX_ROWS,    \* rows of a panel (50)
    MaxOpenings  \* bound: times the new-group window is opened

Packages == DOMAIN Table
Rows(p) == Table[p]
NamesOf(p) == {Rows(p)[i].name : i \in DOMAIN Rows(p)}
NumericNames(p) == {Rows(p)[i].name : i \in {k \in DOMAIN Rows(p) : Rows(p)[k].numeric}}
AllNames == UNION {NamesOf(p) : p \in Packages}

ASSUME FieldsAssumption ==
    /\ IsFiniteSet(Packages) /\ Packages # {}
    /\ \A p \in Packages :
         /\ Rows(p) \in Seq([name : STRING, numeric : BOOLEAN, unit : STRING, group : STRING])
         /\ "rtc" \in NumericNames(p)   \* every table of dbname has it
         /\ NamesOf(p) \cap {"", "NULL", "wiped", "none"} = {}
    /\ LongNames \subseteq GroupNames
    /\ FieldLimit \in Nat /\ GroupLimit \in Nat \ {0}
    /\ MAX_ROWS \in Nat /\ MaxOpenings \in Nat

VARIABLES
    groupOf,          \* GROUP_NAME of every field in the data base
    db,               \* db[]: package, fields, available_groups, available_count
    pack_count,
    selectedPackage,
    window,           \* is the selection window open?
    available_fields, \* the items of its lists: field names,
    available_groups, \* ... groups,
    selected_rows,    \* ... and how many selected fields it shows
    newgrp,           \* the new-group window: open, items of its list, Create enabled
    filling,          \* newgrp_realised_callback, while it fills that list
    selected_group, group_count,
    polling,          \* packana_post_realise_callback polls
    loop,             \* loop_name, loop_value, loop_unit
    screen,           \* the panels, row by row
    openings,         \* history: new-group windows opened
    stray             \* history: a group was made for a place no package is in

selection == <<groupOf, db, pack_count, selectedPackage>>
lists == <<window, available_fields, available_groups, selected_rows>>
history == <<openings, stray>>
group == <<newgrp, filling, selected_group, group_count, history>>
analysis == <<polling, loop, screen>>
vars == <<selection, lists, group, analysis>>

Slots == 0 .. Cardinality(Packages) - 1
Here == db[selectedPackage]

-----------------------------------------------------------------------------
(* packageConnect.                                                         *)

(* select DISTINCT GROUP_NAME: the groups in the order of their first rows. *)
Groups(p, of) ==
    LET at(i) == of[Rows(p)[i].name]
        first == SelectSeq([i \in DOMAIN Rows(p) |-> i],
                           LAMBDA i : \A j \in 1 .. i - 1 : at(j) # at(i))
    IN  [k \in DOMAIN first |-> at(first[k])]

(* get_avaiable_field, of a row there is. *)
RowText(p, k) == IF Rows(p)[k].numeric THEN Rows(p)[k].name ELSE "NULL"

(* add_field: no name twice. *)
Added(fields, f) == IF f \in Range(fields) THEN fields ELSE Append(fields, f)

(* add_group adds what add_field has not yet of the group, in row order. *)
Missing(slot, g) ==
    {f \in NumericNames(slot.pkg) : groupOf[slot.pkg][f] = g} \ Range(slot.fields)
RowOf(p, f) == CHOOSE i \in DOMAIN Rows(p) : Rows(p)[i].name = f
InRowOrder(p, S) ==
    {s \in [1 .. Cardinality(S) -> S] :
       \A i, j \in DOMAIN s : i < j => s[i] # s[j] /\ RowOf(p, s[i]) < RowOf(p, s[j])}

(* remove_field(int). *)
Removed(fields, k) == SubSeq(fields, 1, k - 1) \o SubSeq(fields, k + 1, Len(fields))

(* change_group prints a statement of up to 80 characters into query[60],   *)
(* which fields[] follows: the end of the statement lands in the first name *)
(* or the first two.                                                        *)
Wiped(fields, reach) == [i \in DOMAIN fields |-> IF i <= reach THEN "wiped" ELSE fields[i]]

NoSlot == [pkg |-> "none", fields |-> <<>>, groups |-> <<>>, available_count |-> 0]

(* Init on a slot: what was selected in it is not forgotten here. *)
Opened(slot, p) ==
    [pkg |-> p, fields |-> Added(slot.fields, "rtc"), groups |-> Groups(p, groupOf[p]),
     available_count |-> Len(Rows(p))]
ClearKeepsFields(slot) == [slot EXCEPT !.available_count = 0, !.groups = <<>>]
Clear(slot) == [pkg |-> slot.pkg, fields |-> <<>>, groups |-> <<>>, available_count |-> 0]

-----------------------------------------------------------------------------
(* The selection window.                                                   *)

(* The new-group window may be open still: it goes on with the package     *)
(* whose place is selected, there or not.                                  *)
RtanaRealized ==
    /\ ~window
    /\ window' = TRUE
    /\ db' = [i \in Slots |-> IF i < pack_count THEN Clear(db[i]) ELSE db[i]]
    /\ pack_count' = 0
    /\ UNCHANGED <<groupOf, selectedPackage, available_fields, available_groups, selected_rows,
                   group, analysis>>

RtanaCancel ==
    /\ window
    /\ window' = FALSE
    /\ available_fields' = {} /\ available_groups' = <<>> /\ selected_rows' = 0
    /\ UNCHANGED <<selection, group, analysis>>

AddPackage(p) ==
    /\ window
    /\ \A i \in 0 .. pack_count - 1 : db[i].pkg # p
    /\ db' = [db EXCEPT ![pack_count] = Opened(@, p)]
    /\ pack_count' = pack_count + 1
    /\ UNCHANGED <<groupOf, selectedPackage, lists, group, analysis>>

(* The rows of selected fields and the number of items are still those of  *)
(* the package shown before; an item past the table repeats the last one.  *)
DisplayFields(i) ==
    /\ window /\ i < pack_count
    /\ selectedPackage' = i
    /\ selected_rows' = Len(Here.fields)
    /\ available_fields' =
         {RowText(db[i].pkg, k) : k \in {n \in 1 .. Here.available_count : n <= db[i].available_count}}
            \ {"NULL"}
    /\ available_groups' = db[i].groups
    /\ UNCHANGED <<groupOf, db, pack_count, window, group, analysis>>

SelectFields(fields) ==
    /\ Len(fields) <= FieldLimit   \* bound: see README
    /\ db' = [db EXCEPT ![selectedPackage].fields = fields]
    /\ selected_rows' = Len(fields)
    /\ UNCHANGED <<groupOf, pack_count, selectedPackage, window, available_fields,
                   available_groups, group, analysis>>

AddField(f) ==
    /\ window /\ f \in available_fields
    /\ SelectFields(Added(Here.fields, f))

(* The index is one of the list, the group one of the array. *)
AddGroup(k) ==
    /\ window /\ k \in DOMAIN available_groups
    /\ k <= Len(Here.groups)
    /\ \E s \in InRowOrder(Here.pkg, Missing(Here, Here.groups[k])) : SelectFields(Here.fields \o s)

(* The row is one of the list, the field one of the package. *)
RemoveField(k) ==
    /\ window /\ k <= selected_rows
    /\ k <= Len(Here.fields)
    /\ db' = [db EXCEPT ![selectedPackage].fields = Removed(@, k)]
    /\ selected_rows' = selected_rows - 1
    /\ UNCHANGED <<groupOf, pack_count, selectedPackage, window, available_fields,
                   available_groups, group, analysis>>

-----------------------------------------------------------------------------
(* The new-group window.                                                   *)

NoWindow == [open |-> FALSE, items |-> 0, create |-> FALSE]
NotFilling == [on |-> FALSE, i |-> 1, avl_count |-> 0]

(* Bound: the window is not opened again while a callback still fills it. *)
NewgrpRealised ==
    /\ window /\ ~newgrp.open /\ ~filling.on
    /\ openings < MaxOpenings
    /\ openings' = openings + 1
    /\ newgrp' = [NoWindow EXCEPT !.open = TRUE]
    /\ filling' = [on |-> TRUE, i |-> 1, avl_count |-> Here.available_count]
    /\ UNCHANGED <<selection, lists, selected_group, group_count, stray, analysis>>

FillItem ==
    /\ filling.on
    /\ IF filling.i < filling.avl_count
       THEN /\ filling' = [filling EXCEPT !.i = @ + 1]
            /\ newgrp' = IF newgrp.open THEN [newgrp EXCEPT !.items = @ + 1] ELSE newgrp
       ELSE filling' = NotFilling /\ UNCHANGED newgrp
    /\ UNCHANGED <<selection, lists, selected_group, group_count, history, analysis>>

(* The index of the item is taken for a row of the table selected now; past *)
(* the table, get_avaiable_field leaves what the element held.  Bound: no  *)
(* name outside the array is followed.                                     *)
AddFields(k) ==
    /\ k \in 1 .. newgrp.items
    /\ group_count \in 0 .. GroupLimit - 1
    /\ selected_group' = [selected_group EXCEPT ![group_count] =
                            IF k <= Here.available_count THEN RowText(Here.pkg, k) ELSE @]
    /\ group_count' = group_count + 1
    /\ newgrp' = [newgrp EXCEPT !.create = TRUE]
    /\ UNCHANGED <<selection, lists, filling, history, analysis>>

(* The index of a field available is taken for one of a field picked.      *)
RemoveFields(k) ==
    /\ k \in 1 .. newgrp.items
    /\ group_count >= 0   \* bound
    /\ selected_group' =
         [i \in DOMAIN selected_group |->
            IF i \in k - 1 .. group_count - 1 /\ i + 1 \in DOMAIN selected_group
            THEN selected_group[i + 1] ELSE selected_group[i]]
    /\ group_count' = group_count - 1
    /\ UNCHANGED <<selection, lists, newgrp, filling, history, analysis>>

Picked == {selected_group[i] : i \in 0 .. group_count - 1}
Regrouped(g) ==
    [groupOf EXCEPT ![Here.pkg] = [f \in DOMAIN @ |-> IF f \in Picked THEN g ELSE @[f]]]

(* Nothing is said of the fields picked: the next group takes them too. *)
CreateGroupUnread(g, reach) ==
    /\ newgrp.open /\ newgrp.create
    /\ IF Picked # {} /\ g \in LongNames THEN reach \in 1 .. 2 ELSE reach = 0
    /\ groupOf' = Regrouped(g)
    /\ db' = [db EXCEPT ![selectedPackage].fields = Wiped(@, reach)]
    /\ available_groups' = IF window THEN Here.groups ELSE available_groups
    /\ newgrp' = NoWindow
    /\ stray' = (stray \/ selectedPackage >= pack_count)
    /\ UNCHANGED <<pack_count, selectedPackage, window, available_fields, selected_rows,
                   filling, selected_group, group_count, openings, analysis>>
CreateGroup(g, reach) ==
    /\ newgrp.open /\ newgrp.create
    /\ IF Picked # {} /\ g \in LongNames THEN reach \in 1 .. 2 ELSE reach = 0
    /\ groupOf' = Regrouped(g)
    /\ db' = [db EXCEPT ![selectedPackage] =
                 [pkg |-> @.pkg, fields |-> Wiped(@.fields, reach),
                  groups |-> Groups(@.pkg, groupOf'[@.pkg]),
                  available_count |-> @.available_count]]
    /\ available_groups' = IF window THEN Groups(Here.pkg, groupOf'[Here.pkg]) ELSE available_groups
    /\ newgrp' = NoWindow
    /\ stray' = (stray \/ selectedPackage >= pack_count)
    /\ UNCHANGED <<pack_count, selectedPackage, window, available_fields, selected_rows,
                   filling, selected_group, group_count, openings, analysis>>

CloseGroup ==
    /\ newgrp.open
    /\ newgrp' = NoWindow
    /\ UNCHANGED <<selection, lists, filling, selected_group, group_count, history, analysis>>

-----------------------------------------------------------------------------
(* The analysis.                                                           *)

BlankRow == [name |-> "", value |-> "", unit |-> ""]
Blank == [r \in 1 .. MAX_ROWS |-> BlankRow]
Junk == [name |-> "wiped", value |-> "wiped", unit |-> "wiped"]

(* get_realtime_value leaves its outputs alone when no row has the name. *)
Read(p, f) == [name |-> f, value |-> f, unit |-> Rows(p)[RowOf(p, f)].unit]
FieldsOf(i) == [j \in DOMAIN db[i].fields |-> [pack |-> db[i].pkg, name |-> db[i].fields[j]]]
AllRead(answered) ==
    FlattenSeq([n \in 1 .. pack_count |-> IF n - 1 \in answered THEN FieldsOf(n - 1) ELSE <<>>])
ReadAt(fs, r) ==
    LET known == {k \in 1 .. r : fs[k].name \in NamesOf(fs[k].pack)}
    IN  IF known = {} THEN loop
        ELSE LET k == CHOOSE k \in known : \A m \in known : m <= k
             IN  Read(fs[k].pack, fs[k].name)

(* Dis prints nothing of an empty text, and nothing past the last row. *)
Printed(old, text) == IF text = "" THEN old ELSE text
Panels(old, fs, first) ==
    [r \in 1 .. MAX_ROWS |->
       IF r \in first .. Len(fs)
       THEN LET v == ReadAt(fs, r)
            IN  [name |-> Printed(old[r].name, v.name), value |-> Printed(old[r].value, v.value),
                 unit |-> Printed(old[r].unit, v.unit)]
       ELSE old[r]]

Okay ==
    /\ window /\ ~polling   \* bound: no analysis inside another
    /\ polling' = TRUE
    /\ UNCHANGED <<selection, lists, group, loop, screen>>

(* The panels are cleared for every package answered: the rows of the last *)
(* one stay, below as many blank rows as the others had.                   *)
PollKeepsPanels(answered) ==
    LET fs == AllRead(answered)
        last == CHOOSE i \in answered : \A m \in answered : m <= i
    IN  /\ polling /\ ~filling.on /\ answered # {}
        /\ screen' = Panels(screen, fs, Len(fs) - Len(db[last].fields) + 1)
        /\ loop' = IF fs = <<>> THEN loop ELSE ReadAt(fs, Len(fs))
        /\ UNCHANGED <<selection, lists, group, polling>>
Poll(answered) ==
    LET fs == AllRead(answered)
        last == CHOOSE i \in answered : \A m \in answered : m <= i
    IN  /\ polling /\ ~filling.on /\ answered # {}
        /\ screen' = Panels(Blank, fs, Len(fs) - Len(db[last].fields) + 1)
        /\ loop' = IF fs = <<>> THEN loop ELSE ReadAt(fs, Len(fs))
        /\ UNCHANGED <<selection, lists, group, polling>>

(* The window is closed; the loop ends with its local variables. *)
PackanClose ==
    /\ polling
    /\ polling' = FALSE
    /\ loop' = Junk /\ screen' = Blank
    /\ UNCHANGED <<selection, lists, group>>

-----------------------------------------------------------------------------
Init ==
    /\ groupOf = [p \in Packages |-> [f \in NamesOf(p) |-> Rows(p)[RowOf(p, f)].group]]
    /\ db = [i \in Slots |-> NoSlot]
    /\ pack_count = 0 /\ selectedPackage = 0
    /\ window = FALSE /\ available_fields = {} /\ available_groups = <<>> /\ selected_rows = 0
    /\ newgrp = NoWindow /\ filling = NotFilling
    /\ selected_group = [i \in 0 .. GroupLimit - 1 |-> ""] /\ group_count = 0
    /\ polling = FALSE /\ loop = Junk /\ screen = Blank
    /\ openings = 0 /\ stray = FALSE

Next ==
    \/ RtanaRealized \/ RtanaCancel
    \/ \E p \in Packages : AddPackage(p)
    \/ \E i \in Slots : DisplayFields(i)
    \/ \E f \in AllNames : AddField(f)
    \/ \E k \in 1 .. Len(available_groups) : AddGroup(k)
    \/ \E k \in 1 .. FieldLimit : RemoveField(k)
    \/ NewgrpRealised \/ FillItem \/ CloseGroup
    \/ \E k \in 1 .. newgrp.items : AddFields(k) \/ RemoveFields(k)
    \/ \E g \in GroupNames, reach \in 0 .. 2 : CreateGroup(g, reach)
    \/ Okay \/ PackanClose
    \/ \E answered \in SUBSET (0 .. pack_count - 1) : Poll(answered)

Spec == Init /\ [][Next]_vars

-----------------------------------------------------------------------------
(* Properties.                                                             *)

Names == AllNames \cup {"wiped"}
Slot == [pkg : Packages \cup {"none"}, fields : Seq(Names), groups : Seq(STRING), available_count : Nat]

TypeOK ==
    /\ DOMAIN groupOf = Packages
    /\ \A p \in Packages : DOMAIN groupOf[p] = NamesOf(p)
    /\ db \in [Slots -> Slot]
    /\ pack_count \in 0 .. Cardinality(Packages) /\ selectedPackage \in Slots
    /\ window \in BOOLEAN /\ available_fields \subseteq AllNames
    /\ available_groups \in Seq(STRING) /\ selected_rows \in 0 .. FieldLimit
    /\ newgrp \in [open : BOOLEAN, items : Nat, create : BOOLEAN]
    /\ selected_group \in [0 .. GroupLimit - 1 -> AllNames \cup {"", "NULL"}]
    /\ group_count \in -1 .. GroupLimit
    /\ polling \in BOOLEAN /\ openings \in 0 .. MaxOpenings /\ stray \in BOOLEAN

Sound(fields, p) ==
    \A j \in DOMAIN fields :
       \/ /\ fields[j] \in NumericNames(p)
          /\ \A k \in DOMAIN fields : fields[k] = fields[j] => k = j
       \/ fields[j] = "wiped" /\ j <= 2

(* A package selected has selected fields of its own table only, and none  *)
(* twice, whatever packages its place held before: every callback works on *)
(* the package selected last, with an item of a list filled earlier.  Only *)
(* the first two names can be lost, to a statement longer than query[].    *)
(* This ends when a new-group window left open makes a group for a place   *)
(* no package is in since the selection window was opened again: its list  *)
(* is filled, fields go to that place, and the next package gets them.     *)
SelectionSound ==
    ~stray => \A i \in 0 .. pack_count - 1 : Sound(db[i].fields, db[i].pkg)

(* The groups a package remembers are those of the data base, and the list *)
(* shows those of the package selected: the index the user picks names the *)
(* group he sees, also after groups were made in the other window, for     *)
(* packages that are there.                                                *)
GroupsShown ==
    ~stray =>
       /\ \A i \in 0 .. pack_count - 1 : db[i].groups = Groups(db[i].pkg, groupOf[db[i].pkg])
       /\ window /\ available_groups # <<>> => available_groups = Here.groups

(* A row of the panels is of one field: its value and unit are those of    *)
(* the name beside them, though an empty unit is not printed at all and    *)
(* the rows move when fields are removed between two polls.                *)
PanelsAgree ==
    \A r \in 1 .. MAX_ROWS :
        LET row == screen[r]
        IN  row.name \notin {"", "wiped"} =>
              \E p \in Packages : \E i \in DOMAIN Rows(p) :
                 row.name = Rows(p)[i].name /\ row.value = row.name /\ row.unit = Rows(p)[i].unit
=============================================================================
