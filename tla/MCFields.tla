------------------------------ MODULE MCFields ------------------------------
(***************************************************************************)
(* What the analysis shows: which fields are selected (Fields) and what    *)
(* number is shown of a field (Values), and the array packageConnect keeps *)
(* the selection in (FieldArray).  Of a field Fields and FieldArray know   *)
(* the name only and Values only what its row says of bytes, so they share *)
(* no variable and a behaviour is of one of them.                          *)
(***************************************************************************)
EXTENDS Fields

CONSTANTS
    BYTE, word_count, frame_enclose, num_dummy_chars, msgsts_word_pos, total_minor_cycles,
    minid_pos, MIDDLE, BusFields, Heap, Words, MaxFrames,
    MaxCalls, ArrayTable, ArrayJunk
VARIABLES about,
    minor_buf, prev_msg_index, msg_sts, major_buf, minor_count, global_buf, shown, number,
    begun, sent, sent_major, posted, polled,
    arrayFields, selected_count, connector, field, output, pc, calls, held, missed

(* Two tables as those of dbname, the rows few.  One unit is empty, one    *)
(* row is not numeric, one group has two rows.                             *)
Row(n, num, u, g) == [name |-> n, numeric |-> num, unit |-> u, group |-> g]
TwoTables ==
    [NIM |-> <<Row("rate", TRUE, "", "rat"), Row("rtc", TRUE, "sec", "rat")>>,
     VIK |-> <<Row("rtc", TRUE, "", "GRP"), Row("gain", FALSE, "", "GRP")>>]

(* Bytes of two bits.  Two messages of two words and one word, behind a    *)
(* start and two dummy characters, in two minor frames: the number in the  *)
(* first word.  The data words have unlike bytes; the highest bit is clear *)
(* in 6 only.  Of the last three fields, of another package's MI_BYTES or  *)
(* at half a word, one is read where it was put, one behind the buffer and *)
(* one across two words.                                                   *)
Numeric(name, id, word, nb, ptype, nf, num, den) ==
    [name |-> name, ID |-> id, POSITION |-> 4 + 2 * word, NB |-> nb, PTYPE |-> ptype, NF |-> nf,
     num |-> num, den |-> den, MIN_VAL |-> 0, MAX_VAL |-> 0, MI_BYTES |-> 10]
Limited(f, min, max) == [f EXCEPT !.MIN_VAL = min, !.MAX_VAL = max]
TwoCounts == <<2, 1>>
ElevenFields ==
    {Limited(Numeric("float", 1, 1, 2, "FLOATING", 0, 3, 1), 20, 35),
     Numeric("low", 2, 2, 1, "FLOATING", 0, 1, 4),
     Limited(Numeric("long", 2, 1, 4, "FLOATING", 0, 1, 1), -40, 105),
     Numeric("any", 0, 1, 2, "FLOATING", 0, 1, 1),
     Limited(Numeric("count", 1, 2, 2, "COUNT", 0, 1, 1), 11, 12),
     Numeric("rtc", 1, 1, 3, "INTEGER", 0, 1, 1),
     Numeric("flags", 2, 1, 4, "FLAG", 0, 1, 1),
     Limited(Numeric("rate", 2, 2, 2, "FLOATING", 1, 5, 1), -2, 3),
     [Numeric("first", 1, 1, 2, "FLOATING", 1, 3, 1) EXCEPT !.MI_BYTES = 18],
     [Numeric("behind", 2, 2, 2, "FLOATING", 0, 1, 1) EXCEPT !.MI_BYTES = 18],
     [Numeric("between", 1, 1, 2, "FLOATING", 0, 1, 1) EXCEPT !.POSITION = 5]}
Bus == INSTANCE Values WITH Fields <- BusFields

(* The number of the frame is in the low byte of a word of it.  A field    *)
(* may be anywhere.  Scales are quotients that units of 1 / WORD and a     *)
(* float can hold, those of counters are whole and flags have none; those  *)
(* of normalised floats are such that the fraction is a number of units.   *)
Whole(f) == f.PTYPE \in {"INTEGER", "COUNT", "FLAG"} => f.den = 1
BusField(f) ==
    /\ f.ID \in Nat /\ f.POSITION \in Nat \ {0} /\ f.MI_BYTES \in Nat /\ f.NB \in 1 .. 4
    /\ f.NF \in Nat /\ (f.NF # 0 => f.den = 1)
    /\ f.num \in Nat /\ f.den \in Nat \ {0} /\ BYTE * f.num <= 65536
    /\ \E units \in 1 .. Bus!WORD : f.den * units = Bus!WORD
    /\ f.PTYPE \in {"FLOATING", "INTEGER", "COUNT", "FLAG"} /\ Whole(f)
    /\ f.PTYPE = "FLAG" => f.num = 1
    /\ f.MIN_VAL \in Int /\ f.MAX_VAL \in Int /\ f.MIN_VAL <= f.MAX_VAL
ASSUME BusAssumption ==
    /\ BYTE \in Nat /\ total_minor_cycles \in 1 .. BYTE - 1
    /\ word_count \in Seq(Nat) /\ word_count # <<>>
    /\ frame_enclose \in BOOLEAN /\ num_dummy_chars \in Nat
    /\ num_dummy_chars # 0 => msgsts_word_pos \in 1 .. Bus!Lead
    /\ total_minor_cycles > 1 =>
          \E w \in 0 .. Bus!Sum(word_count) - 1 : minid_pos = Bus!Lead + 2 * w + 1
    /\ MIDDLE \in Nat
    /\ Words \subseteq 0 .. Bus!WORD - 1
    /\ \A f \in BusFields : BusField(f)

busVars == <<minor_buf, prev_msg_index, msg_sts, major_buf, minor_count, global_buf, shown,
             number, begun, sent, sent_major, posted, polled>>

(* Three rows and an array of three.  A field[15] that was not set is      *)
(* empty, another row's name or no name at all.                            *)
ThreeRows == <<"rtc", "rate", "gain">>
Array == INSTANCE FieldArray WITH
    Table <- ArrayTable, Junk <- ArrayJunk, fields <- arrayFields

arrayVars == <<arrayFields, selected_count, connector, field, output, pc, calls, held, missed>>
fieldsVars == <<vars, busVars, arrayVars, about>>

FieldsInit ==
    /\ Init /\ Bus!Init /\ Array!Init
    /\ about \in {"names", "numbers", "array"}
    /\ about # "numbers" => number = 1
    /\ about # "array" => field = ""
(* Bound: nothing is followed once a group was made for a place no package *)
(* is in.  The properties of the selection are about the steps before; the *)
(* theorems on Fields are not bounded so.                                  *)
FieldsNext ==
    /\ UNCHANGED about
    /\ \/ about = "names" /\ ~stray /\ Next /\ UNCHANGED <<busVars, arrayVars>>
       \/ about = "numbers" /\ Bus!Next /\ UNCHANGED <<vars, arrayVars>>
       \/ about = "array" /\ Array!Next /\ UNCHANGED <<vars, busVars>>
FieldsSpec == FieldsInit /\ [][FieldsNext]_fieldsVars

(* Values: the number shown is the one that was on the bus.                *)
ShownIsSent == Bus!ShownIsSent

(* FieldArray: a field added is lost only to the removal of an absent one. *)
FieldsKept == Array!FieldsKept
=============================================================================
