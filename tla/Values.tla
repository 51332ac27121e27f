------------------------------- MODULE Values -------------------------------
(***************************************************************************)
(* The bytes of a field from the bus to the screen.  The server's Package  *)
(* (distriServer/headers/Package.cpp) lays the words of the messages out   *)
(* in a minor frame by the word counts of the data base, and minor frames  *)
(* in a major frame by their numbers; the client's packageConnect          *)
(* (dbcode/DbConnect.cpp) finds a field in it by other columns of the data *)
(* base, ID, POSITION and MI_BYTES, and converts it.  Every message        *)
(* arrives and no copy is torn; modules Package and RealTime are about     *)
(* those.                                                                  *)
(*                                                                         *)
(* A byte has BYTE values, a word two bytes, the low one first.  Numbers   *)
(* shown are counted in units of 1 / WORD.                                 *)
(***************************************************************************)
EXTENDS Integers, Sequences, SequencesExt

CONSTANTS
    BYTE,                \* 256
    word_count,          \* of each message of the package
    frame_enclose, num_dummy_chars, msgsts_word_pos,
    total_minor_cycles,
    minid_pos,           \* position of the minor frame number, from 1
    MIDDLE,              \* the frame of fields with ID 0 (13)
    Fields,              \* rows of the fields table: name, ID, POSITION, NB, PTYPE, NF,
                         \* the scale SF as a quotient num / den, MIN_VAL, MAX_VAL, and
                         \* MI_BYTES of the package the field is in
    Heap,                \* what a byte behind the client's buffer may be
    Words,               \* what a data word may be
    MaxFrames            \* bound: minor frames begun

(* _Pow_int, by repeated squaring. *)
pow(left, right) ==
    LET Power[n \in 0 .. right] ==
            IF n = 0 THEN 1
            ELSE (IF n % 2 = 1 THEN left ELSE 1) * (Power[n \div 2] * Power[n \div 2])
    IN  Power[right]
WORD == pow(BYTE, 2)
Sum(counts) == FoldLeft(LAMBDA sum, k : sum + k, 0, counts)
Lead == (IF frame_enclose THEN 1 ELSE 0) + num_dummy_chars
IdWord == (minid_pos - 1 - Lead) \div 2
Minors == 1 .. total_minor_cycles

(* Init_buffer. *)
minor_buffsize == (IF frame_enclose THEN 2 ELSE 0) + num_dummy_chars + 2 * Sum(word_count)
major_buffsize == minor_buffsize * total_minor_cycles

VARIABLES
    minor_buf, prev_msg_index, msg_sts,
    major_buf, minor_count,
    global_buf,
    shown,          \* what the panel shows of each field, and in which colour
    number, begun,  \* the bus: number of the frame being sent, frames begun
    sent,           \* history: the words of that frame
    sent_major,     \* history: the words of the frames of this major cycle
    posted,         \* history: ... of the major frame posted
    polled          \* history: ... of the one shown

frame == <<minor_buf, prev_msg_index, msg_sts>>
major == <<major_buf, minor_count, global_buf, sent_major, posted>>
client == <<shown, polled>>
vars == <<frame, major, client, number, begun, sent>>

Zeros(n) == [k \in 1 .. n |-> 0]
Silence == Zeros(Sum(word_count))
Overlay(buf, offset, bytes) ==
    [k \in DOMAIN buf |-> IF k - offset \in DOMAIN bytes THEN bytes[k - offset] ELSE buf[k]]

-----------------------------------------------------------------------------
(* The server.                                                             *)

(* A word in the memory of the computer. *)
Bytes(words) ==
    [k \in 1 .. 2 * Len(words) |->
       LET w == words[(k + 1) \div 2] IN IF k % 2 = 1 THEN w % BYTE ELSE w \div BYTE]

(* Message m goes behind the messages before it.  Messages count from 0.   *)
OffsetInWords(m) == Lead + Sum(SubSeq(word_count, 1, m))
Offset(m) == Lead + 2 * Sum(SubSeq(word_count, 1, m))

(* Write_Minor_Data puts a start and an end around the frame. *)
Framing(f) == IF frame_enclose THEN [f EXCEPT ![1] = 1, ![minor_buffsize] = 2] ELSE f

Put_Major_Data(f) ==
    LET id == f[minid_pos]
        slot == IF total_minor_cycles > 1 /\ id \in Minors THEN id ELSE minor_count + 1
        filled == Overlay(major_buf, minor_buffsize * (slot - 1), f)
        all == [sent_major EXCEPT ![number] = sent]
    IN  IF slot = total_minor_cycles
        THEN /\ global_buf' = filled /\ posted' = all
             /\ major_buf' = Zeros(major_buffsize) /\ sent_major' = [n \in Minors |-> Silence]
             /\ minor_count' = 0
        ELSE /\ major_buf' = filled /\ sent_major' = all
             /\ minor_count' = slot
             /\ UNCHANGED <<global_buf, posted>>

(* Put_Minor_Data: message m with its words. *)
Put_Minor_Data(m, words) ==
    LET boundary == prev_msg_index # -1 /\ m <= prev_msg_index
        sts == (IF boundary THEN 0 ELSE msg_sts) + 2 ^ m
        old == IF boundary THEN Zeros(minor_buffsize) ELSE minor_buf
        stored == Overlay(old, Offset(m), Bytes(words))
    IN  /\ IF boundary THEN Put_Major_Data(Framing(minor_buf)) ELSE UNCHANGED major
        /\ minor_buf' = IF num_dummy_chars = 0 THEN stored
                         ELSE [stored EXCEPT ![msgsts_word_pos] = sts]
        /\ msg_sts' = sts /\ prev_msg_index' = m

(* The bus sends the messages of a frame in turn, then the next frame. *)
NextMsg == (prev_msg_index + 1) % Len(word_count)
FirstWord(m) == Sum(SubSeq(word_count, 1, m))
Message(words) ==
    LET n == IF NextMsg = 0 /\ begun > 0 THEN (number % total_minor_cycles) + 1 ELSE number
    IN  /\ \A k \in DOMAIN words :
              IF FirstWord(NextMsg) + k - 1 = IdWord THEN words[k] = n ELSE words[k] \in Words
        /\ IF NextMsg = 0 THEN begun < MaxFrames /\ begun' = begun + 1 ELSE UNCHANGED begun
        /\ number' = n
        /\ sent' = Overlay(IF NextMsg = 0 THEN Silence ELSE sent, FirstWord(NextMsg), words)
        /\ Put_Minor_Data(NextMsg, words)
        /\ UNCHANGED client

-----------------------------------------------------------------------------
(* The client.                                                             *)

(* get_long: as a long of four bytes it may be negative. *)
Signed(n) == IF n >= (WORD * WORD) \div 2 THEN n - WORD * WORD ELSE n
get_long(bytes) ==
    LET num[i \in 1 .. Len(bytes) + 1] ==
            IF i > Len(bytes) THEN 0 ELSE BYTE * num[i + 1] + bytes[i]
    IN  Signed(num[1])

Abs(n) == IF n < 0 THEN -n ELSE n
(* Division in C. *)
Quotient(a, b) == IF a < 0 THEN -((-a) \div b) ELSE a \div b

(* convert returns a float, whose mantissa has three bytes and counts      *)
(* units that are powers of two.  Bound: the last of Units.                *)
Units == {1, 2, 4, 8, 16, 32, 64, 128, 256, 512, 1024, 2048, 4096, 8192, 16384, 32768, 65536}
Rounded(n) ==
    LET mantissa == BYTE * WORD
        unit == CHOOSE u \in Units :
                  /\ Abs(n) < mantissa * u
                  /\ u = 1 \/ Abs(n) >= mantissa * (u \div 2)
        half == IF n < 0 THEN -(unit \div 2) ELSE unit \div 2
    IN  unit * Quotient(n + half, unit)

(* A number with NF 1 is a fraction of the scale, in words of a sign and   *)
(* fifteen bits; one with the highest bit set is taken for its magnitude   *)
(* in sixteen.  Division by a power of 2 is exact.                         *)
convert_to_float(n, f) ==
    IF f.NF = 0 THEN (WORD * Rounded(n * f.num)) \div f.den
    ELSE IF f.NF # 1 THEN WORD
    ELSE IF n > (WORD \div 2) - 1 THEN -(Rounded(n * f.num) \div f.den)
    ELSE (2 * Rounded(n * f.num)) \div f.den

(* Whole numbers that are normalised are 1. *)
convert_to_count(n, f) ==
    WORD * Rounded(IF f.NF = 0 THEN Quotient(n * f.num, f.den) ELSE 1)
convert_to_flag(n) == WORD * Rounded(n)

convert(bytes, f) ==
    LET n == get_long(bytes)
    IN  CASE f.PTYPE = "FLOATING" -> convert_to_float(n, f)
          [] f.PTYPE \in {"INTEGER", "COUNT"} -> convert_to_count(n, f)
          [] f.PTYPE = "FLAG" -> convert_to_flag(n)

FrameOf(f) == IF f.ID = 0 THEN MIDDLE ELSE f.ID
readpos(f) == f.MI_BYTES * (FrameOf(f) - 1) + f.POSITION - 1

(* Two limits of 0 are no limits. *)
Colour(value, f) ==
    IF f.MIN_VAL = 0 /\ f.MAX_VAL = 0 THEN "black"
    ELSE IF value < WORD * f.MIN_VAL THEN "blue"
    ELSE IF value > WORD * f.MAX_VAL THEN "red" ELSE "black"

(* readpos is not held against the length of the buffer. *)
get_realtime_value(f, buffer, heap) ==
    LET Read(at) == IF at \in DOMAIN buffer THEN buffer[at] ELSE heap
        value == convert([k \in 1 .. f.NB |-> Read(readpos(f) + k)], f)
    IN  [value |-> value, colour |-> Colour(value, f)]

(* One turn of the polling loop. *)
Poll ==
    /\ \E heap \in Heap : shown' = [f \in Fields |-> get_realtime_value(f, global_buf, heap)]
    /\ polled' = posted
    /\ UNCHANGED <<frame, major, number, begun, sent>>

-----------------------------------------------------------------------------
Nothing == [n \in Minors |-> Silence]

Init ==
    /\ minor_buf = Zeros(minor_buffsize) /\ prev_msg_index = -1 /\ msg_sts = 0
    /\ major_buf = Zeros(major_buffsize) /\ minor_count = 0
    /\ global_buf = Zeros(major_buffsize)
    /\ shown = [f \in Fields |-> [value |-> 0, colour |-> "black"]]
    /\ number \in Minors /\ begun = 0
    /\ sent = Silence /\ sent_major = Nothing /\ posted = Nothing /\ polled = <<>>

Next ==
    \/ \E words \in [1 .. word_count[NextMsg + 1] -> Words \cup Minors] : Message(words)
    \/ Poll

Spec == Init /\ [][Next]_vars

-----------------------------------------------------------------------------
(* The data base says of a field where the server puts it: POSITION is the *)
(* first byte of a word of the frame with its ID, and MI_BYTES the length  *)
(* of a frame, which the first one does not need.                          *)
WordOf(f) == (f.POSITION - 1 - Lead) \div 2
Agrees(f) ==
    /\ FrameOf(f) \in Minors
    /\ FrameOf(f) = 1 \/ f.MI_BYTES = minor_buffsize
    /\ WordOf(f) >= 0 /\ f.POSITION = Lead + 2 * WordOf(f) + 1
    /\ WordOf(f) + (IF f.NB > 2 THEN 2 ELSE 1) <= Sum(word_count)

(* The number a field has in the words of a major frame. *)
NumberSent(f, words) ==
    LET here == words[FrameOf(f)]
        low == here[WordOf(f) + 1]
        high == here[WordOf(f) + 2]
    IN  CASE f.NB = 1 -> low % BYTE
          [] f.NB = 2 -> low
          [] f.NB = 3 -> low + WORD * (high % BYTE)
          [] f.NB = 4 -> low + WORD * high

(* The values and colours that may be shown for an exact value: but for    *)
(* the digits the float loses, in the colour of the limits.                *)
Near(f, of, exact) ==
    LET error == Abs(of.value * f.den - exact)
        Outside(limit) == limit * WORD * f.den
    IN  /\ error * BYTE * WORD <= Abs(exact)
        /\ exact - error > Outside(f.MAX_VAL) /\ f.MAX_VAL # 0 => of.colour = "red"
        /\ exact + error < Outside(f.MIN_VAL) /\ f.MIN_VAL # 0 => of.colour = "blue"
        /\ exact + error <= Outside(f.MAX_VAL) /\ exact - error >= Outside(f.MIN_VAL)
             => of.colour = "black"

(* What may be shown for these words.  A normalised float is the scale     *)
(* times the number as a fraction of half a word, and with the highest bit *)
(* set as one of a word, negative; no other number is normalised.          *)
Normalised(f) == f.NF # 0 /\ f.PTYPE # "FLAG"
RightOf(f, of, words) ==
    LET n == Signed(NumberSent(f, words))
        factor == IF ~Normalised(f) THEN WORD ELSE IF n < WORD \div 2 THEN 2 ELSE -1
    IN  ~Normalised(f) \/ (f.NF = 1 /\ f.PTYPE = "FLOATING") =>
          Near(f, of, factor * n * f.num)

(* What is shown of a field is the number its words had on the bus in the  *)
(* minor frame with its ID, in the last major frame posted before the      *)
(* poll, although server and client count the bytes up from different      *)
(* columns of the data base: of every field of which these columns agree,  *)
(* whatever the others in the table read.  The float it passes through     *)
(* keeps three bytes: whole numbers of up to three bytes are shown         *)
(* exactly, longer ones in their leading digits only.  A number is red     *)
(* above its limits and blue below them, whatever was shown before, unless *)
(* the float hides the difference.  Put_Minor_Data, Put_Major_Data,        *)
(* get_realtime_value, get_long, convert.                                  *)
ShownIsSent == polled # <<>> => \A f \in Fields : Agrees(f) => RightOf(f, shown[f], polled)
=============================================================================
