------------------------------ MODULE LivePlot ------------------------------
(***************************************************************************)
(* The real-time graph: rtgraph and the polling loop of the client         *)
(* (firstClient/src/rtana_callbacks.cpp) print rows into a FIFO, setup()   *)
(* of graphTrial (graphTrial/src/window_callbacks.cpp) reads them and      *)
(* plots one column against the first.  What is done with the points is    *)
(* module Graph.                                                           *)
(*                                                                         *)
(* A column of a row, 18 characters, is a cell, and so is the end of a     *)
(* line.  The client's stream writes Block cells at a time and is never    *)
(* flushed or closed; a write blocks while the FIFO has no room and ends   *)
(* the client when nobody has it open for reading.  The reader puts a line *)
(* into a buffer that it does not terminate: past the end of a row stands  *)
(* what earlier rows left.                                                 *)
(***************************************************************************)
EXTENDS Integers, Sequences, SequencesExt

CONSTANTS
    Fields,     \* fields selected of each package, the first of them rtc
    Column,     \* col_num, the column the user of the plot asked for
    Block,      \* cells the stream writes at a time
    FifoSize,   \* cells the FIFO holds
    Garbage,    \* what the reader's buffer may hold at first
    Polls,      \* number of poll numbers: more than rows are under way
    MaxPlots    \* bound: times the graph button is pressed

VARIABLES
    at,         \* the client: handling events, polling, printing a row or the header, dead
    loop,       \* is packana_post_realise_callback in its loop (else in PtMainLoop)?
    window, realOn, graph,
    poll,       \* number of the poll
    todo,       \* cells the callback has yet to print
    held,       \* cells in the buffer of the stream fp
    fifo,       \* pump_rta
    reader,     \* setup() of graphTrial
    point,      \* the cells the last point was made of
    sent,       \* history: rows printed and not yet plotted
    plots,      \* history: times the graph button was pressed
    byUser      \* history: was a plot closed by its user?

client == <<at, loop, window, realOn, graph, poll, todo, held>>
vars == <<client, fifo, reader, point, sent, plots, byUser>>

Packages == DOMAIN Fields
Width == FoldLeft(LAMBDA sum, k : sum + k, 0, Fields)   \* columns of the header
NewLine == [kind |-> "nl", pkg |-> 0, col |-> 0, n |-> 0]
Cell(kind, p, c, n) == [kind |-> kind, pkg |-> p, col |-> c, n |-> n]
None == Cell("none", 0, 0, 0)

Columns(kind, p, n) == [c \in 1 .. Fields[p] |-> Cell(kind, p, c, n)]
Line(kind) == FlattenSeq([p \in Packages |-> Columns(kind, p, 0)]) \o <<NewLine>>
Header == [k \in 1 .. 9 |-> NewLine] \o Line("name") \o Line("unit") \o <<NewLine>>

-----------------------------------------------------------------------------
(* The client.                                                             *)

(* Okay: packana_post_realise_callback up to its loop.  Bound: not while   *)
(* another loop runs.                                                      *)
Okay ==
    /\ at = "events" /\ ~window /\ ~loop
    /\ window' = TRUE /\ realOn' = TRUE /\ graph' = FALSE /\ loop' = TRUE /\ at' = "body"
    /\ UNCHANGED <<poll, todo, held, fifo, reader, point, sent, plots, byUser>>

(* One turn of the loop: a row for each package that was answered. *)
Row(p, n) == Append(Columns("value", p, n), NewLine)
Answers ==
    UNION {{ps \in [1 .. n -> Packages] : \A i, j \in 1 .. n : i < j => ps[i] < ps[j]} :
              n \in 0 .. Len(Fields)}
Turn ==
    /\ at = "body"
    /\ \E ps \in Answers :
          /\ todo' = IF graph THEN FlattenSeq([k \in DOMAIN ps |-> Row(ps[k], poll)]) ELSE <<>>
          /\ sent' = IF graph THEN sent \o [k \in DOMAIN ps |-> <<ps[k], poll>>] ELSE sent
    /\ poll' = IF graph THEN (poll + 1) % Polls ELSE poll
    /\ at' = "print"
    /\ UNCHANGED <<loop, window, realOn, graph, held, fifo, reader, point, plots, byUser>>

NoReader(how) ==
    [at |-> how, count |-> 0, index |-> 0, a |-> None, b |-> None,
     buffer |-> [k \in 1 .. Width |-> None], name |-> None]
Printing == at \in {"print", "header"} /\ todo # <<>>

(* fprintf into the stream. *)
Fprintf ==
    /\ Printing /\ Len(held) < Block
    /\ held' = Append(held, Head(todo)) /\ todo' = Tail(todo)
    /\ UNCHANGED <<at, loop, window, realOn, graph, poll, fifo, reader, point, sent,
                   plots, byUser>>

(* The buffer is full: write, or SIGPIPE, which the client does not catch. *)
IsOpen == reader.at \in {"read", "returned"}
Write ==
    /\ Printing /\ Len(held) = Block
    /\ IF IsOpen
       THEN /\ Len(fifo) + Block <= FifoSize
            /\ fifo' = fifo \o held /\ held' = <<>>
            /\ UNCHANGED at
       ELSE at' = "dead" /\ UNCHANGED <<fifo, held>>
    /\ UNCHANGED <<loop, window, realOn, graph, poll, todo, reader, point, sent, plots, byUser>>

(* The callback has printed everything; rtgraph sets graph at its end. *)
Printed ==
    /\ at \in {"print", "header"} /\ todo = <<>>
    /\ graph' = (graph \/ at = "header")
    /\ at' = "events"
    /\ UNCHANGED <<loop, window, realOn, poll, todo, held, fifo, reader, point, sent,
                   plots, byUser>>

(* PtBkgdHandlerProcess is over: the loop goes on or ends. *)
LoopOrBreak ==
    /\ at = "events" /\ loop
    /\ loop' = realOn /\ at' = (IF realOn THEN "body" ELSE "events")
    /\ UNCHANGED <<window, realOn, graph, poll, todo, held, fifo, reader, point, sent,
                   plots, byUser>>

(* rtgraph: "plot" starts graphTrial, fopen waits for it, and a new stream *)
(* takes the place of an older one, which stays open.  What an earlier     *)
(* plot left in the FIFO is still there.  Bound: not while a plot runs.    *)
Rtgraph(g) ==
    /\ at = "events" /\ window /\ plots < MaxPlots /\ ~IsOpen
    /\ reader' = [NoReader("read") EXCEPT !.buffer = [k \in 1 .. Width |-> Cell(g, 0, 0, 0)]]
    /\ plots' = plots + 1
    /\ held' = <<>> /\ todo' = Header /\ sent' = <<>> /\ at' = "header"
    /\ UNCHANGED <<loop, window, realOn, graph, poll, fifo, point, byUser>>

(* packana_stop_callback, packan_ok_callback, packana_window_close_callback: *)
(* only the last ends the plots.                                             *)
PackanaStop ==
    /\ at = "events" /\ window
    /\ realOn' = FALSE
    /\ UNCHANGED <<at, loop, window, graph, poll, todo, held, fifo, reader, point, sent,
                   plots, byUser>>
PackanOk ==
    /\ at = "events" /\ window
    /\ realOn' = FALSE /\ window' = FALSE
    /\ UNCHANGED <<at, loop, graph, poll, todo, held, fifo, reader, point, sent,
                   plots, byUser>>
Slain == IF IsOpen THEN NoReader("gone") ELSE reader
WindowClose ==
    /\ at = "events" /\ window
    /\ realOn' = FALSE /\ window' = FALSE
    /\ reader' = Slain
    /\ UNCHANGED <<at, loop, graph, poll, todo, held, fifo, point, sent, plots, byUser>>

-----------------------------------------------------------------------------
(* graphTrial.                                                             *)

(* The user closes the window of the plot. *)
ClosePlot ==
    /\ IsOpen
    /\ reader' = Slain /\ byUser' = TRUE
    /\ UNCHANGED <<client, fifo, point, sent, plots>>

(* col_num - 1 times memcpy(buffer, buffer + 18, ...): the last cell stays *)
(* where it was, too.  Then strcpy(buffer, "").                            *)
Shifted(buf) ==
    [k \in 1 .. Width |-> IF k + Column - 1 <= Width THEN buf[k + Column - 1] ELSE buf[Width]]
Emptied(buf) == [buf EXCEPT ![1] = Cell("nul", 0, 0, 0)]

(* sscanf "%f": a number is taken, other text leaves the variable as it    *)
(* was; only the end of the string is EOF.                                 *)
Scan(cell, old) == IF cell.kind = "value" THEN cell ELSE old

Store(cell) ==
    /\ reader' = [reader EXCEPT !.buffer[reader.index + 1] = cell, !.index = @ + 1]
    /\ UNCHANGED <<point, sent>>

(* A whole line.  Lines 1 to 9 and 12 are skipped, 10 has the names, 11 the *)
(* units; count stays at 12 from there on.                                  *)
EndHeaderLine ==
    /\ reader' = [reader EXCEPT
          !.index = 0, !.count = @ + 1,
          !.name = IF reader.count = 9 THEN Shifted(reader.buffer)[1] ELSE @,
          !.buffer = IF reader.count \in {9, 10} THEN Emptied(Shifted(@)) ELSE Emptied(@)]
    /\ UNCHANGED <<point, sent>>

Plot(x, buf) ==
    IF buf[1].kind = "nul"
    THEN reader' = [reader EXCEPT !.at = "returned"] /\ UNCHANGED <<point, sent>>
    ELSE LET y == Scan(buf[1], reader.b)
         IN  /\ reader' = [reader EXCEPT !.index = 0, !.a = x, !.b = y, !.buffer = Emptied(buf)]
             /\ point' = [x |-> x, y |-> y]
             /\ sent' = IF sent = <<>> THEN sent ELSE Tail(sent)
EndRow == Plot(Scan(reader.buffer[1], reader.a), Shifted(reader.buffer))

HeaderLinesOfNames == 11
HeaderLines == 12
EndLine == IF reader.count < HeaderLines THEN EndHeaderLine ELSE EndRow

ReadCell ==
    /\ reader.at = "read" /\ fifo # <<>>
    /\ fifo' = Tail(fifo)
    /\ IF Head(fifo) = NewLine THEN EndLine ELSE Store(Head(fifo))
    /\ UNCHANGED <<client, plots, byUser>>

-----------------------------------------------------------------------------
Init ==
    /\ at = "events" /\ loop = FALSE /\ window = FALSE /\ realOn = FALSE /\ graph = FALSE
    /\ poll = 0 /\ todo = <<>> /\ held = <<>> /\ fifo = <<>>
    /\ reader = NoReader("none")
    /\ point = [x |-> None, y |-> None]
    /\ sent = <<>> /\ plots = 0 /\ byUser = FALSE

ClientStep == Turn \/ Fprintf \/ Write \/ Printed \/ LoopOrBreak
UserStep ==
    \/ Okay \/ PackanaStop \/ PackanOk \/ WindowClose \/ ClosePlot
    \/ \E g \in Garbage : Rtgraph(g)
Next == ClientStep \/ UserStep \/ ReadCell

Spec == Init /\ [][Next]_vars

-----------------------------------------------------------------------------
(* Wherever the blocks of the stream cut the rows, a point has its time and *)
(* its value from one row, and the rows plotted are those printed, in       *)
(* order, none left out: rtgraph's header against setup's line count.  The  *)
(* stream breaks, and ends the client, only if a user closed the plot: not  *)
(* by the client's own "slay graphTrial", since the loop has ended then and *)
(* the next analysis begins without a graph.  packana_window_close_callback.*)
RowsInOrder ==
    [][/\ point' # point =>
              /\ sent # <<>>
              /\ point'.x = Cell("value", Head(sent)[1], 1, Head(sent)[2])
              /\ point'.y = Cell("value", Head(sent)[1], Column, Head(sent)[2])
       /\ at' = "dead" => at = "dead" \/ byUser]_vars
=============================================================================
