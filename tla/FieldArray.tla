----------------------------- MODULE FieldArray -----------------------------
(***************************************************************************)
(* The array of selected fields of packageConnect (DbConnect.cpp), element *)
(* by element, behind every call that changes it: add_field by name and by *)
(* row, remove_field by name and by position, clear.  Module Fields keeps  *)
(* the array as a sequence and uses the two calls the windows make.        *)
(*                                                                         *)
(* The calls read the table through SqliteDB, whose Query is external: a   *)
(* result, the row fetched last and the column read next.                  *)
(***************************************************************************)
EXTENDS Integers, FiniteSets, Sequences, SequencesExt

CONSTANTS
    Table,       \* STR_SIGLEN of the rows in the order of ROWID; "" is no name
    FieldLimit,  \* elements of fields[]
    Junk,        \* what the uninitialised field[15] of add_field(int) may hold
    MaxCalls     \* bound: calls

VARIABLES
    fields,          \* fields[0 .. FieldLimit]; element -1 is the end of query[60]
    selected_count,
    connector,       \* the result being read
    field,           \* local of add_field(int)
    output,          \* what get_avaiable_field copied
    pc, calls,
    held, missed     \* history: names a caller relies on, removals of absent names

array == <<fields, selected_count>>
vars == <<fields, selected_count, connector, field, output, pc, calls, held, missed>>

Names == ToSet(Table) \cup Junk
Position == -1 .. FieldLimit

-----------------------------------------------------------------------------
(* SqliteDB. *)
free_result == [rows |-> <<>>, row |-> 0]
get_result(rows) == [rows |-> rows, row |-> 0]
fetch_row(q) == [q EXCEPT !.row = @ + 1]
HasRow(q) == q.row < Len(q.rows)
getstr(q) == q.rows[q.row]

-----------------------------------------------------------------------------
(* The loops over the array. *)
Selected == {fields[i] : i \in 0 .. selected_count - 1}

(* The common end of both add_field. *)
Add(name) ==
    IF name = "" \/ name \in Selected
    THEN UNCHANGED <<array, held>>
    ELSE /\ fields' = [fields EXCEPT ![selected_count] = name]
         /\ selected_count' = selected_count + 1
         /\ held' = held \cup {name}

(* Mutant: the last but one stays where it is. *)
MovedUpShort(k) ==
    [j \in Position |-> IF j >= k /\ j < selected_count - 2 THEN fields[j + 1] ELSE fields[j]]
(* The elements behind k move up, and the one behind the last with them. *)
MovedUp(k) ==
    [j \in Position |-> IF j >= k /\ j < selected_count THEN fields[j + 1] ELSE fields[j]]

(* The name at every place, by the inner loop that runs with the outer     *)
(* one: only the first place is found.                                     *)
Found(name) == {i \in 0 .. selected_count - 1 : fields[i] = name}
First(places) == CHOOSE i \in places : \A j \in places : i <= j

Idle == pc = "idle" /\ calls < MaxCalls
Called == calls' = calls + 1

-----------------------------------------------------------------------------
add_field(name) ==
    /\ Idle /\ Called /\ selected_count < FieldLimit
    /\ Add(name)
    /\ UNCHANGED <<connector, field, output, pc, missed>>

add_field_row(index) ==
    /\ Idle /\ Called /\ selected_count < FieldLimit
    /\ connector' = get_result(IF index \in DOMAIN Table THEN <<Table[index]>> ELSE <<>>)
    /\ field' \in Junk
    /\ pc' = "row"
    /\ UNCHANGED <<array, output, held, missed>>
FetchField ==
    /\ pc = "row" /\ HasRow(connector)
    /\ connector' = fetch_row(connector)
    /\ field' = getstr(connector')
    /\ UNCHANGED <<array, output, pc, calls, held, missed>>
FieldFetched ==
    /\ pc = "row" /\ ~HasRow(connector)
    /\ connector' = free_result
    /\ Add(field)
    /\ pc' = "idle"
    /\ UNCHANGED <<field, output, calls, missed>>

(* remove_field by name: one field less whether the name was found or not. *)
remove_field(name) ==
    /\ Idle /\ Called
    /\ fields' = IF Found(name) = {} THEN fields ELSE MovedUp(First(Found(name)))
    /\ selected_count' = selected_count - 1
    /\ held' = held \ {name}
    /\ missed' = IF name \in Selected THEN missed ELSE missed + 1
    /\ UNCHANGED <<connector, field, output, pc>>

(* remove_field(int). *)
remove_field_at(pos) ==
    /\ Idle /\ Called
    /\ fields' = MovedUp(pos)
    /\ selected_count' = selected_count - 1
    /\ held' = IF pos < selected_count THEN held \ {fields[pos]} ELSE held
    /\ missed' = IF pos < selected_count THEN missed ELSE missed + 1
    /\ UNCHANGED <<connector, field, output, pc>>

(* get_avaiable_field into an array of names. *)
get_avaiable_field ==
    /\ Idle /\ Called
    /\ connector' = get_result(Table)
    /\ output' = <<>>
    /\ pc' = "list"
    /\ UNCHANGED <<array, field, held, missed>>
CopyRow ==
    /\ pc = "list" /\ HasRow(connector)
    /\ connector' = fetch_row(connector)
    /\ output' = Append(output, getstr(connector'))
    /\ UNCHANGED <<array, field, pc, calls, held, missed>>
RowsCopied ==
    /\ pc = "list" /\ ~HasRow(connector)
    /\ connector' = free_result
    /\ pc' = "idle"
    /\ UNCHANGED <<array, field, output, calls, held, missed>>

(* get_realtime_value of the plot window: name and unit of a field. *)
get_realtime_value(pos) ==
    /\ Idle /\ Called /\ pos \in 0 .. selected_count - 1
    /\ connector' = get_result(SelectSeq(Table, LAMBDA name : name = fields[pos]))
    /\ pc' = "unit"
    /\ UNCHANGED <<array, field, output, held, missed>>
CopyUnit ==
    /\ pc = "unit" /\ HasRow(connector)
    /\ connector' = fetch_row(connector)
    /\ output' = <<getstr(connector')>>
    /\ UNCHANGED <<array, field, pc, calls, held, missed>>
UnitCopied ==
    /\ pc = "unit" /\ ~HasRow(connector)
    /\ connector' = free_result
    /\ pc' = "idle"
    /\ UNCHANGED <<array, field, output, calls, held, missed>>

clear ==
    /\ Idle /\ Called
    /\ selected_count' = 0
    /\ held' = {} /\ missed' = 0
    /\ UNCHANGED <<fields, connector, field, output, pc>>

-----------------------------------------------------------------------------
Init ==
    /\ fields = [i \in Position |-> ""] /\ selected_count = 0
    /\ connector = free_result /\ field \in Junk /\ output = <<>>
    /\ pc = "idle" /\ calls = 0
    /\ held = {} /\ missed = 0

(* bound: fields are removed while the count is not below zero, since the  *)
(* next add_field would write into what lies before query[60].             *)
Next ==
    \/ \E name \in Names : add_field(name)
    \/ \E index \in 0 .. Len(Table) : add_field_row(index)
    \/ FetchField \/ FieldFetched
    \/ selected_count >= 0 /\ \E name \in Names : remove_field(name)
    \/ selected_count >= 0 /\ \E pos \in 0 .. FieldLimit - 1 : remove_field_at(pos)
    \/ get_avaiable_field \/ CopyRow \/ RowsCopied
    \/ \E pos \in 0 .. FieldLimit - 1 : get_realtime_value(pos)
    \/ CopyUnit \/ UnitCopied
    \/ clear

Spec == Init /\ [][Next]_vars

-----------------------------------------------------------------------------
(* After any calls the array names no field twice and none that was        *)
(* removed, and a caller who removes only what is there loses nothing: a   *)
(* field added is missing only if at least as many absent ones were        *)
(* "removed", each of which costs one.                                     *)
FieldsKept ==
    /\ selected_count >= 0 => Cardinality(Selected) = selected_count
    /\ Selected \subseteq held
    /\ Cardinality(held \ Selected) <= missed
=============================================================================
