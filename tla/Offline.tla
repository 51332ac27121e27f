------------------------------ MODULE Offline ------------------------------
(***************************************************************************)
(* The bus file and its off-line analysis.  The server fwrites every valid *)
(* bus message to the bus file (write_monitor_data, threadfunc.cpp); the   *)
(* data analysis window of the client (firstClient/src/dtana_callbacks.cpp)*)
(* reads the file back, lists the combinations of terminal, subaddress and *)
(* word count it finds, lets the user select some of them, and writes the  *)
(* messages that belong to the selection to the text file Output.          *)
(*                                                                         *)
(* Files are sequences of 16 bit words.  The stream of a bus file is never *)
(* closed while the server runs, so what is on the disk is what stdio has  *)
(* flushed, whole blocks that may end inside a message; when the server    *)
(* exits the rest is flushed.  The client reads with one variable, input,  *)
(* whatever fread returns, and ends when the last word of a message could  *)
(* not be read: it always goes through its loop once more.                 *)
(*                                                                         *)
(* One turn of a reading loop is one action, the server writes and exits   *)
(* between any two.  Within a turn that makes no difference: a stream that *)
(* has met the end of the file returns nothing more, so a turn reads what  *)
(* was there when it met the end, or its last word.                        *)
(*                                                                         *)
(* Bound: the user leaves the window alone while a file is being read;     *)
(* what the user can do while the list is filled is module Combos.         *)
(***************************************************************************)
EXTENDS Integers, Sequences, SequencesExt, FiniteSets, UniqueLists

CONSTANTS
    Files,       \* bus files, the client can open any
    Commands,    \* command words of the messages on the bus, of 16 bits
    Block,       \* words stdio flushes at a time
    Garbage,     \* values of a local variable that was never set
    ListSize,    \* length of rtList[] and of selectedCombo[] (25)
    MaxMessages, \* bound: messages in a bus file
    MaxOpens     \* bound: times the window is opened

VARIABLES
    bus,           \* the messages fwritten to each file: [cmd, n, at], where
                   \* n is the number of the message, at the words before it
    words,         \* the words fwritten to each file
    flushed,       \* how many of them are on the disk
    exited,        \* the server was interrupted
    window, filePath,
    reading,       \* the loop that reads the file: of the list, of Output, none
    msgCount,      \* turns of the loop
    buffer,        \* buffer, input and read_size: what the last freads left
    list,          \* rtList, subaddressList and wordCountList
    presentCheck,
    selectedCombo,
    output,        \* the entries of Output
    opens,         \* history: times the window was opened
    seen,          \* history: messages on the disk at the last turn for the list
    shown          \* history: messages on the disk and selection of Output

server == <<bus, words, flushed, exited>>
client == <<window, filePath, reading, msgCount, buffer, list, presentCheck,
            selectedCombo, output, opens, seen, shown>>
vars == <<server, client>>

-----------------------------------------------------------------------------
(* tagCMDWRD.                                                              *)
RTAddress(cmd) == cmd \div 2048
Tx_Rx(cmd) == (cmd \div 1024) % 2
SubAddr(cmd) == (cmd \div 32) % 32
WrdCnt(cmd) == cmd % 32
Combo(cmd) == [rt |-> RTAddress(cmd), sub |-> SubAddr(cmd), wc |-> WrdCnt(cmd)]

(* write_monitor_data: a message as words of the bus file.                 *)
Valid == 33024     \* block status word 0x8100
Payload(m) == 256 + m.n
Status(m) == 2048 * RTAddress(m.cmd)

DataWords(cmd) == IF WrdCnt(cmd) = 0 THEN 32 ELSE WrdCnt(cmd)
Encode(m) ==
    LET w    == DataWords(m.cmd)
        data == [j \in 1 .. w |-> Payload(m)]
    IN  <<Valid, m.n, m.cmd, w + 1>>
        \o (IF Tx_Rx(m.cmd) = 0 THEN Append(data, Status(m)) ELSE <<Status(m)>> \o data)
        \o <<(5 + w) * 2>>

Size(m) == DataWords(m.cmd) + 6

Disk(f) == SubSeq(words[f], 1, flushed[f])
Whole(f) == {bus[f][k] : k \in {i \in DOMAIN bus[f] : bus[f][i].at + Size(bus[f][i]) <= flushed[f]}}

-----------------------------------------------------------------------------
(* Reading.  fread of a word: got is its result, input keeps its value at  *)
(* the end of the file.                                                    *)
Word(d, r) ==
    IF r.pos < Len(d)
    THEN [r EXCEPT !.pos = @ + 1, !.input = d[r.pos + 1], !.got = TRUE]
    ELSE [r EXCEPT !.got = FALSE]

Field(d, r, field) == LET w == Word(d, r) IN [w EXCEPT ![field] = w.input]

(* A count of -1 is as a size_t more than any file has. *)
Data(d, r, count) ==
    LET k == IF count \in 0 .. Len(d) - r.pos THEN count ELSE Len(d) - r.pos
    IN  [r EXCEPT !.pos = @ + k,
                  !.data = [j \in 1 .. 32 |-> IF j <= k THEN d[r.pos + j] ELSE @[j]]]

(* One turn of the loop, the same in realised_callback and                 *)
(* show_data_callback.                                                     *)
ReadMessageStatusLast(d, r) ==
    LET h     == Field(d, Field(d, Field(d, r, "blk"), "time"), "cmd")
        l     == Word(d, h)
        count == l.input - 1
    IN  Word(d, Field(d, Data(d, l, count), "sts"))
ReadMessageLengthAsCount(d, r) ==
    LET h     == Field(d, Field(d, Field(d, r, "blk"), "time"), "cmd")
        l     == Word(d, h)
        count == l.input
    IN  Word(d, IF Tx_Rx(h.cmd) = 0
                THEN Field(d, Data(d, l, count), "sts")
                ELSE Data(d, Field(d, l, "sts"), count))
ReadMessage(d, r) ==
    LET h     == Field(d, Field(d, Field(d, r, "blk"), "time"), "cmd")
        l     == Word(d, h)
        count == l.input - 1
    IN  Word(d, IF Tx_Rx(h.cmd) = 0
                THEN Field(d, Data(d, l, count), "sts")
                ELSE Data(d, Field(d, l, "sts"), count))

Rewound(g) == [buffer EXCEPT !.pos = 0, !.input = g, !.got = TRUE]

(* A turn of while(read_size == 1). *)
Turn(r) ==
    /\ buffer' = r /\ msgCount' = msgCount + 1
    /\ reading' = IF r.got THEN reading ELSE "none"

-----------------------------------------------------------------------------
(* The server.                                                             *)

(* fwrite: stdio flushes every block it has filled. *)
Fwrite(f, cmd) ==
    /\ ~exited /\ Len(bus[f]) < MaxMessages
    /\ LET m == [cmd |-> cmd, n |-> Len(bus[f]) + 1, at |-> Len(words[f])]
       IN  /\ bus' = [bus EXCEPT ![f] = Append(@, m)]
           /\ words' = [words EXCEPT ![f] = @ \o Encode(m)]
    /\ \E n \in flushed[f] .. Len(words'[f]) :
          /\ n % Block = 0 /\ Len(words'[f]) - n < Block
          /\ flushed' = [flushed EXCEPT ![f] = n]
    /\ UNCHANGED <<exited, client>>

(* onKill: exit flushes every stream. *)
OnKill ==
    /\ ~exited
    /\ exited' = TRUE
    /\ flushed' = [f \in Files |-> Len(words[f])]
    /\ UNCHANGED <<bus, words, client>>

-----------------------------------------------------------------------------
(* The client.                                                             *)

(* List a combination unless the search of the list found it.  presentCheck *)
(* is set inside the search, so with an empty list it keeps its value.      *)
Present(c) == IF list = <<>> THEN presentCheck ELSE IF c \in ToSet(list) THEN 1 ELSE 0

(* realised_callback: the window opens on file f; what an earlier window  *)
(* selected stays selected, though the new one does not show it.           *)
Realised(f) ==
    /\ ~window /\ opens < MaxOpens
    /\ window' = TRUE /\ filePath' = f /\ opens' = opens + 1
    /\ list' = <<>>
    /\ reading' = "list" /\ msgCount' = 0
    /\ \E g \in Garbage : buffer' = Rewound(g)
    /\ UNCHANGED <<server, presentCheck, selectedCombo, output, seen, shown>>
ListTurn ==
    /\ reading = "list"
    /\ LET r == ReadMessage(Disk(filePath), buffer)
           c == Combo(r.cmd)
       IN  /\ Turn(r)
           /\ presentCheck' = Present(c)
           /\ list' = IF Present(c) = 0 THEN Append(list, c) ELSE list
    /\ seen' = Whole(filePath)
    /\ UNCHANGED <<server, window, filePath, selectedCombo, output, opens, shown>>

(* add_combo_callback: what the user left open is selected entirely. *)
Chosen(c, open) ==
    {x \in ToSet(list) : \/ open = "all"
                         \/ x.rt = c.rt /\ \/ open = "sub"
                                           \/ x.sub = c.sub /\ (open = "wc" \/ x.wc = c.wc)}
AddCombo(c, open) ==
    /\ window /\ reading = "none"
    /\ selectedCombo' = AddValues(selectedCombo, list, [x \in Chosen(c, open) |-> x])
    /\ Len(selectedCombo') <= ListSize
    /\ UNCHANGED <<server, window, filePath, reading, msgCount, buffer, list, presentCheck,
                   output, opens, seen, shown>>

(* show_data_callback: a turn has an entry for each time its combination   *)
(* is selected, one if nothing is, with the number of the turn and as many *)
(* data words as the word count field says.                                *)
Entry(k, t) == [n |-> k, combo |-> Combo(t.cmd), data |-> SubSeq(t.data, 1, WrdCnt(t.cmd))]
Selected(sel, c) == sel = <<>> \/ c \in ToSet(sel)
Copies(sel, c) == IF sel = <<>> THEN 1 ELSE Cardinality({i \in DOMAIN sel : sel[i] = c})
ShowData ==
    /\ window /\ reading = "none"
    /\ output' = <<>>
    /\ reading' = "Output" /\ msgCount' = 0
    /\ \E g \in Garbage : buffer' = Rewound(g)
    /\ UNCHANGED <<server, window, filePath, list, presentCheck, selectedCombo,
                   opens, seen, shown>>
ShowTurn ==
    /\ reading = "Output"
    /\ LET r == ReadMessage(Disk(filePath), buffer)
       IN  /\ Turn(r)
           /\ output' = output \o [i \in 1 .. Copies(selectedCombo, Combo(r.cmd)) |->
                                      Entry(msgCount + 1, r)]
    /\ shown' = [msgs |-> Whole(filePath), sel |-> selectedCombo]
    /\ UNCHANGED <<server, window, filePath, list, presentCheck, selectedCombo,
                   opens, seen>>

(* cancel_callback. *)
Cancel ==
    /\ window /\ reading = "none"
    /\ window' = FALSE
    /\ UNCHANGED <<server, filePath, reading, msgCount, buffer, list, presentCheck,
                   selectedCombo, output, opens, seen, shown>>

-----------------------------------------------------------------------------
Init ==
    /\ bus = [f \in Files |-> <<>>] /\ words = [f \in Files |-> <<>>]
    /\ flushed = [f \in Files |-> 0] /\ exited = FALSE
    /\ window = FALSE /\ filePath \in Files
    /\ reading = "none" /\ msgCount = 0
    /\ buffer = [pos |-> 0, input |-> 0, got |-> FALSE, blk |-> 0, time |-> 0, cmd |-> 0,
                 sts |-> 0, data |-> [j \in 1 .. 32 |-> 0]]
    /\ list = <<>> /\ presentCheck = 0
    /\ selectedCombo = <<>>
    /\ output = <<>> /\ opens = 0 /\ seen = {}
    /\ shown = [msgs |-> {}, sel |-> <<>>]

Next ==
    \/ \E f \in Files, cmd \in Commands : Fwrite(f, cmd)
    \/ OnKill
    \/ \E f \in Files : Realised(f)
    \/ ListTurn
    \/ \E c \in ToSet(list), open \in {"all", "sub", "wc", "none"} : AddCombo(c, open)
    \/ ShowData
    \/ ShowTurn
    \/ Cancel

Spec == Init /\ [][Next]_vars

-----------------------------------------------------------------------------
(* Properties.                                                             *)

(* The first file a client opens is listed completely, wherever the disk's *)
(* copy ends and however it grew meanwhile: the combination of every       *)
(* message that was whole when the loop ended is there, at most one that   *)
(* is of no message was invented by the last turn, and it comes last.      *)
FirstListComplete ==
    opens = 1 /\ reading # "list" =>
        LET real == {Combo(m.cmd) : m \in seen}
        IN  /\ real \subseteq ToSet(list)
            /\ \A k \in DOMAIN list : list[k] \in real \/ k = Len(list)

(* Output: the whole messages of the file that belong to the selection,    *)
(* once each and in order, with their numbers and the words the server     *)
(* wrote (none for a message of 32 words), and after them at most the      *)
(* entry of the last turn.                                                 *)
Written(m) ==
    [n |-> m.n, combo |-> Combo(m.cmd), data |-> [j \in 1 .. WrdCnt(m.cmd) |-> Payload(m)]]
OutputFaithful ==
    reading # "Output" =>
        LET due == {m \in shown.msgs : Selected(shown.sel, Combo(m.cmd))}
        IN  /\ \A m \in due : \E i \in DOMAIN output : output[i] = Written(m)
            /\ \A i \in DOMAIN output :
                  \/ \E m \in due : output[i] = Written(m)
                  \/ i = Len(output) /\ \A m \in shown.msgs : m.n < output[i].n
            /\ \A i, j \in DOMAIN output : i < j => output[i].n < output[j].n
=============================================================================
