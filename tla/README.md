# Verification of the distributed 1553B bus monitor

The repository holds a monitor for the MIL-STD-1553B bus of a launch vehicle,
written for QNX in C++: a **server** (`src/distriServer`) that reads the bus and
assembles the frames of the packages on it, a **client** with Photon windows
(`src/firstClient`) that configures and polls the server and analyses stored
traffic, and a program that plots a stored file (`src/graphTrial`, of which
`src/ControlCheck` is an earlier version).

This directory holds TLA+ modules of the server and of the client, TLC
configurations that check them on small instances, and TLAPS proofs about every part
of the server, most parts of the client and both plots. `PROJECT.json`
maps every definition to source lines.

The order of this file: what the system consists of (1), which module stands for which
part of it (2), what TLC checks of them and under which assumptions (3), what is proved
for every size (4), what was seen on the way (5), what is left out (6) and open (7).

## 1. Inventory

### Components, their state and their operations

| component | source | state | operations |
|---|---|---|---|
| request loop | `distriServer.cc` `main` | `on`, `config_count`, `writeGlobal`, `globalfile`, `configuration[10]`, thread ids, pipe | CONFIG, START, START_WO, STOP, REAL_REQ, CURR_REQ; `onKill` |
| acquisition thread | `threadfunc.cpp` `data_acquisition`, `data_check`, `put_monitor_data` | its message, the timer | pulse, read, count, write to the pipe |
| storage thread | `threadfunc.cpp` `data_storage`, `write_monitor_data` | its message, index of the object | read the pipe, write the bus file, feed the objects |
| acquisition object | `Package.cpp` | minor, major and posted buffer, `msg_sts`, `minor_count`, `prev_msg_index`, file | `Init`, `Proc_Msg`, `getRealTime`, destructor |
| bus statistics | `Current` (`monitor_msg.h`) | four totals, two tables of 32 x 32 boxes | counting, reset, reply |
| requests | `sercli.cpp` `MonClient` | connection, one union of messages, last answers | `setupconfig`, `setupstart`, `setupstartwo`, `setupreal`, `setupcurrent`, `setupstop`, over `ToSvr` |
| acquisition window | `callbacks.cpp` | `acq_on`, the Start button | Start, polling loop, Stop |
| package analysis windows | `rtana_callbacks.cpp` | selected packages, lists, group being made, `realOn` | select packages, fields and groups, Okay, polling loop, Stop, Close |
| data analysis window | `dtana_callbacks.cpp` | lists of combinations, selection, three combo boxes, one message buffer | list, narrow, select, show |
| package data base | `DbConnect.cpp`, `sqliteDB.cpp` | selected fields, groups, query results | open and clear a slot, add and remove fields, regroup, read and convert values |
| real-time graph | `rtana_callbacks.cpp` `rtgraph`, `window_callbacks.cpp` `setup` | stream, FIFO, line buffer of the reader | print header and rows, read a column, close |
| plot | `point.cpp`, `window_callbacks.cpp`; earlier `ControlCheck` | points, limits, redraw flag, picture | add point, scale, draw, resize, reset |
| panels | `common_utils.cpp` (`Panel_Display`) | rows of text | `Clear`, `Dis` |
| menus | `phmenu.cpp` (`Ph_Menu`) | buttons and tags, counted and generated from a file | `Init`, `Destroy`, `Detach`, `Disable_Item` |
| combo box lists | `my_widget.cpp` | a binary file of one list, a text file of many | save, load, add items, keep the selection |
| widgets, dialogues | rest of `phutils/` | resources of Photon widgets, limits and colours, saved values | set, get, show a number, ask the user |

### How they interact

```
 bus -> data_acquisition -> pipe -> data_storage -> bus file ---------> data analysis window
             |                          |
             v                          v
          Current               configuration[i] -> package file -----> graphTrial
             |                          | Put_Major_Data
             |                          v
             |                     global_buf, data_rdy
             v                          v
           main() <------ MsgSend / MsgReply ------ MonClient <- windows (nested polling loops)
                                                                   | frame -> packageConnect
                                                                   v
                                                    panels, and rows -> FIFO -> graphTrial
```

The two threads and `main()` share globals and use no lock. STOP cancels
detached threads and does not join them. The client has one thread, but its
polling loops run window callbacks, so they nest.

### What is hard in this code, and what correctness means

* **Acquisition object.** The end of a minor cycle is only inferred (a message
  index that does not grow), messages with a bad status word never arrive, and the
  minor id in the data may be disturbed. Correct: buffers stay in bounds, the status
  byte of a frame is exact, words, frames and posts keep the order of the bus, and
  without loss frames, posted majors and the file *are* the bus.
* **Server.** Unlocked globals, cancellation, a bounded pipe, `writeGlobal` and
  `globalfile` set and read in two steps. Correct: nothing is lost, repeated or
  reordered, acquisitions do not mix, `on` tells the truth, nothing but a bus file that could not
  be opened ends the server, what enters the pipe is dispatched unless STOP comes first.
* **Statistics.** Six counters incremented one by one while a reply copies them.
  Correct: each message counts once, a torn reply is wrong by one message only.
* **Real-time buffer.** Two unprotected copies. Correct: every slot answered is of
  a frame of the request's own time.
* **Client.** Reentrant callbacks, a union reused for every request, a server that
  may be gone. Correct: a package is shown its own frames, a closed window is not
  drawn, the server is stopped when nobody polls, the user is listened to.
* **Selection of fields.** The windows hand indices of lists filled earlier to
  `packageConnect`, whose slots are reused for other packages; a second window regroups
  fields meanwhile. Correct: the selection holds fields of its own table and none twice,
  the groups shown are those of the data base, a row of the panels is of one field.
* **Requests.** A send that failed is sent again on a new connection, though the server may
  have done what it was asked before it died. Correct: what the client reports is what the
  server that now runs did.
* **Values.** Server and client find the same bytes by different columns of the data base,
  some counted from 0 and some from 1; numbers are scaled or normalised on the way. Correct: where
  the columns agree, the number shown is the number sent.
* **Real-time graph.** Blocks of a stream cut rows anywhere, the reader's buffer is not
  terminated, either program may end. Correct: points are of rows printed, in order.
* **Plot.** Most rows add one segment to the picture; some ask for all of it at a new
  scale, as do resizes between two rows, and a full array starts again. Correct: the
  picture is that of all the points held, at the scale the ticks show.
* **Bus file.** The client reads a file that is still being written and takes one
  turn too many at its end. Correct: the list and the output agree with what the
  server wrote; the combo boxes, used while they are being filled, select what they say.
* **Menus.** A file is read twice by two routines that judge a line differently, recursion
  ignores what the inner call returned, and `Init` may fail anywhere and be called again. Correct:
  the parent has the whole menu of the file or none, and the handler of an entry is its own.
* **Files of the widgets.** A header is written over in place, in a file whose opening may empty it;
  sections of one tag accumulate, and may be cut off in the middle of a line; writes fail and programs
  are killed. Correct: the selection saved last, and of a tag the section saved first, is loaded.
* **Panels, widgets, dialogues.** Flat text indexed by row and column; a colour to be taken back
  by the object that set it; answers that arrive by way of nested event loops. Correct: rows do
  not run into each other, a red widget has an object that will clear it unless one was made on red or went
  too early, the caller gets what the user meant.

## 2. Modules

| module | models | abstract specification, proofs |
|---|---|---|
| `Package` | one acquisition object and the bus it listens to | `PackageProofs` |
| `Server` | `main()` and the threads, the pipe, the bus file, the dispatch | implements `Acquisition`; `ServerProofs` |
| `BusStats` | `Current`, counted by `data_check`, copied by CURR_REQ | `ReaderProofs` |
| `RealTime` | `Put_Major_Data`'s post against `getRealTime` | implements `FrameRegister`; `ReaderProofs` |
| `Analysis` | the client's polling windows, `MonClient`, and the server as they see it | `AnalysisProofs` |
| `Requests` | `MonClient::ToSvr` under servers that die and come back | `AnalysisProofs` |
| `Fields` | `packageConnect` with the selection and new-group windows and the panels | `FieldsProofs` |
| `FieldArray` | the array of selected fields of `packageConnect` under any of its calls | `FieldsProofs` |
| `Values` | a field's bytes from `Package` through `packageConnect` to a number and its colour | `FieldsProofs` |
| `LivePlot` | `rtgraph`, the FIFO and the reader of the live plot | `GraphProofs` |
| `Graph` | `graphTrial`: class `graph`, `setup`, drawing and resizing | `GraphProofs` |
| `ControlCheck` | the earlier plot | `GraphProofs` |
| `Offline` | the words of the bus file and the data analysis window | `ReaderProofs` |
| `Combos` | the selection boxes of that window | `ReaderProofs` |
| `UniqueLists` | the lists without repetitions both fill | `ListProofs` |
| `Menu` | `Ph_Menu` | `PhutilsProofs` |
| `ComboFile`, `ComboSections` | combo box lists in a binary and in a text file | `PhutilsProofs` |
| `Panel` | `Panel_Display` | refines `PanelRows` |
| `Widgets`, `Dialogs` | the wrappers around a widget, `My_Widget`, `My_Dialog`, saved values | `PhutilsProofs` |
| `MCPackage`, `MCServer`, `MCAnalysis`, `MCRequests` | instances for TLC | |
| `MCReaders` | one of `BusStats`, `RealTime`, `Offline`, `Combos` | |
| `MCClient` | one of `Analysis`, `Requests` | |
| `MCFields` | one of `Fields`, `Values`, `FieldArray` | |
| `MCPlot` | one of `Graph`, `ControlCheck`, `LivePlot` | |
| `MCPhutils` | one of `Menu`, `ComboFile`, `ComboSections`, `Panel`, `Widgets`, `Dialogs` | |

The last five modules put components side by side that share no variable: a behaviour is
of one of them, chosen in the initial state by `reader`, `side`, `about`, `plot` or `part`.
Interaction is inside the modules: `Server` composes the threads, the pipe and `main()`,
`Analysis` the client with the server it polls, `Values` the server's layout with the
client's reading of it, `LivePlot` the client with the other program. What the theorems are to
hold for every value of is a constant of these modules too, under a name of its own where two components
have the same (`FileNames`, `CheckRows`, `ArrayTable`, `Found`), with its assumption
(`ReadersAssumption`, `ClientAssumption`, `PlotAssumption`, `PhutilsAssumption`).

Definitions keep the names of the code (`Put_Minor_Data`, `config_count`,
`writeGlobal`, `presentCheck`). Definitions such as `PutMinorKeepingMask`, placed
before the one they resemble, are plausible mistakes in that code: with one of them in
place of the real definition the property it is paired with in `PROJECT.json` is
violated, so the property depends on that line of code.

**Package.** A data word is the number of the bus cycle that sent it (and, in the
message that carries the minor id, the id): all that order and torn frames
depend on. The offsets of words inside a frame are abstracted to one cell per message;
the 8 bit `minor_count` wraps. The bus (`Advance`) is the environment: it repeats
`Schedule`; a message may be dropped (`BlocksFail`), carry a wild id (`WildIds`),
`fopen` and `fwrite` may fail. `Init` sets `fp` anew without `fclose`, so what the earlier stream
holds is out of reach: `file` is what goes to the stream opened last. `sync` is a history variable:
how far the object has come since its first good minor id.

**Server.** An action is the longest stretch of one thread that touches at most one
variable another thread looks at. A message is *(session, number)*. What an object
does with a message is left to `Package`; here it remembers what it was fed and may at
any message get `rdy`. `OpenFile` gives a stream of its own or, as nobody tests it, a NULL
(`Refused`), and a thread or request that uses that ends the server. A cancelled thread ends at `MsgReceive`, `read`, `write` and,
as POSIX allows, in stdio calls. `Acquisition` is what all of this amounts to for a client, from START
to STOP: one bounded line of messages, the first of which goes to the bus file, then to
every registered package in turn, and only then leaves. In the refinement (`Line`, `BusFile`,
`Seen`) the line is what the two threads and the pipe hold, and a file counts from
when the START that asked for it has opened it.

**BusStats.** Each increment of `data_check` is an action, and so is each part of the
reply, in the order of addresses.

**RealTime** copies slot by slot in *any* order on both sides. After a STOP, CONFIG gives the object a
new buffer of zeros but leaves `data_rdy`. `FrameRegister` is what a
client is promised: each slot answered is at least as recent as the last frame posted
before the request, and at most as recent as the one being posted when it is
answered; or it is zero, if that frame was posted before the last CONFIG. Slots of adjacent frames may mix; the code does not promise more
(`Package.cpp:196` asks "protect here with mutex???").

**Analysis.** `stack` is the stack of polling loops; an event is handled only at the
places where the code gives Photon the control (`PtMainLoop`, `PtBkgdHandlerProcess`,
a notice). Requests are synchronous, so each is one step of the server, here written
as `main()` answers it; where `OpenFails` the bus file of a START_WO may be refused, and the next
message stored or asked for ends the server. `view` is what the window shows last, and as whose.

**Fields.** A slot of `db[]` keeps what `packageConnect` keeps: its package, the fields
selected, the groups read and the number of fields. A list in a window is what was put
there, an index is one of the list, and the name it denotes is looked up where the code
looks it up, in the table or in an array of the slot selected *then*. The table itself is external
SQL: rows of a name, whether the field is numeric, a unit, and the
group, which `change_group` updates. The new-group window is filled in steps, because
`PtBkgdHandlerProcess` runs between two items. `reach` is how many names behind
`query[60]` the statement of `change_group` overwrites. A value shown is the name of the field it was
read for, so a value beside another name is seen. The selection window may be opened again while a
new-group window is open: a group is then made for a place no package is in. The history `stray` says
that this has happened; what it spoils is section 5's.

**FieldArray** is the array element by element, for every call of the class, also
`remove_field` of a name that is not selected, which the windows never make. `held` are the
names a caller may rely on, `missed` the removals of absent ones.

**Values.** The server's half builds a major frame of bytes from words (`Put_Minor_Data`,
`Framing`, `Put_Major_Data`); the client's half (`readpos`, `convert`) takes `NB` bytes of it by
`ID`, `POSITION` and `MI_BYTES`, or what lies behind the buffer (`Heap`). A byte has `BYTE` values.
`ShownIsSent` compares the number shown with the one that the words on the bus stood for, scaled or
normalised, and its colour with its limits, for every field whose columns agree with where the server
puts it (`Agrees`); fields of which they do not are in the table, polled and shown too. The history
files a frame under the number it had on the bus, the code under the number it finds in it.

**Requests.** `at` is where `ToSvr` is; the server can die before it gets the request, after it
did it and before it replied, and between requests. The union `msg` and `reply` are
kept from request to request as in the code.

**LivePlot.** A cell is a column of a row or the end of a line. The stream collects `Block` cells
before it writes and a write blocks while the FIFO is full; `setup` reads a line and takes
column `Column` from it, from what earlier lines left if the line is short.

**Graph.** A position is the pair of quotients `scale_points` takes, with the limits in
them, so a segment drawn to an older scale differs from one drawn to the present one.
`Abc` is the drawing function of the window, `ReadPoint` a row of `setup`, and events
run between rows and after `setup` returned. **ControlCheck** has its own class and `setup`,
without reset, sum and average, and uses the geometry of `Graph`.

**Offline.** Files are sequences of 16 bit words: the encoding, the decoding
including the turn after the last message, and the uninitialised local `input` are
modelled by what they do. The stream is never closed by the server, so the disk holds a
multiple of stdio's block until `exit` flushes it. Each turn of the two loops that read the file is an
action, and the server goes on writing between two turns. **Combos** is the loop that fills the list, turn
by turn, with the user's callbacks between two turns, and the two boxes that follow a choice.

**Menu.** One action reads one line, in the counting pass and in the generating one; the
stack of calls of `Generate_Menu_Items` is explicit. Each line may be refused and each widget
may fail to be made.

**ComboFile** is the binary file as the program uses it: the call that saves the items is commented out
(`my_widget.cpp:942`) and the only other one passes `NULL, 0` (`:922`), so the file is a header with the
selection. Each call on it may fail and the program may be killed between any two; a failed `"r+b"` falls back on
`"w+b"`, which empties the file; a stream left open by a failed first save is written when its program ends.
**ComboSections** appends sections that may be cut off at any character: a line cut off is joined with
what is written next, and `Joined` says how the two read together.

**Panel** keeps the text flat, as the widget does, and is shown to be a panel of rows (`PanelRows`), each with
its line feed: a line that ends on it exactly takes its place. `Clear` deletes one character less than
it inserts, so the text gets longer behind its last row each time. **Widgets** keeps the
resources of one widget as a record: what was set last is got. Objects of `My_Widget` are made whatever
colour the widget has, and go. The history `orphaned` says that the widget is red since one went that was to
set its colour back. In **Dialogs** a call opens a
dialogue and goes on when the user, an environment, has answered; `fwrite` and `fclose` of the value
saved may fail, which the code does not notice (`lost`).

## 3. What the runs check

| run | instance | shows |
|---|---|---|
| `PackageExact` | no loss, wild ids, 3 minors per major, 10 cycles, 2 sessions | `PostedMajorExact`, `FileIsTheBus`: the local count finds the bus again, posted majors are exact and recent, the file is the bus |
| `PackageLossy` | every pattern of loss, wild ids, failing files, 2 minors, 5 cycles, 2 sessions | `MaskMatchesData`, `FrameInArrivalOrder`, `FileInOrder`, `PostsMoveForward`: the status byte is exact; words, frames, file and posts keep the order of the bus |
| `PackageTorn` (violated) | as `PackageLossy` | `NoTornFrame`: two lost messages around a boundary put two cycles into one frame |
| `Server` | 2 acquisitions of 2 messages, pipe of 1, 2 packages, 1 bus file, fairness | `OnMeansRunning`, `NothingLost`, `NoStaleFeed`, `BusFileWhole`, `OnlyRefusedOpenCrashes`: nothing lost or reordered, acquisitions do not mix, `on` is true of the threads, a bus file that was refused is the only way to end the server; `ImplementsAcquisition`: from START to STOP the server is the line of messages of `Acquisition`; `EventuallyDispatched`: what enters the pipe reaches the objects unless STOP comes first |
| `Readers` | 2 x 2 boxes, 4 messages per acquisition, any number of acquisitions; 3 slots, 4 frames, any number of CONFIGs; 3 messages of 3 kinds, the file opened twice while it grows; 2 lists of combinations | `CountersAddUp`, `SnapshotOrdered`: counters and tables agree at every step, bounds on a torn reply; `ImplementsRegister`: the buffer implements `FrameRegister`; `FirstListComplete`, `OutputFaithful`: list and output agree with the file wherever it is cut; `SelectsTheTexts`: what is added is what the three boxes show |
| `Client` | 2 packages, 2 loops, more details than a message holds, server restarts, fairness; 3 servers, names of 1 to 3 characters | `FirstAnalysisOwn`, `DrawsOpenWindow`, `QuietWhenIdle`, `GuiResponsive`: the first analysis shows each package its own frames, no drawing into a closed window, server stopped when idle, user listened to; `ReportIsTrue`: what is said of a start or a stop is so |
| `AnalysisMixed` (violated) | 2 packages, no restarts | `OwnFrames`: a later analysis shows a package another one's frame |
| `AnalysisBusFile` (violated) | 2 packages, no restarts | `ServerSurvives`: a later analysis makes the server write to a NULL stream |
| `RequestsStale` (violated) | as the requests of `Client` | `FailureIsSaid`: a start that failed is reported as one that succeeded |
| `Fields` | 2 packages of 2 fields, a group of up to 2 names made once, panels of 2 rows; 5 minor frames of 2 messages, bytes of 2 bits; an array of 3, 5 calls | `SelectionSound`, `GroupsShown`, `PanelsAgree`: the selection is of its own table, the groups shown are current, a row of the panels is of one field; the first two until a group is made for a place without a package; `ShownIsSent`: the number shown is that of the bus, in the colour of its limits, for plain, scaled and normalised fields beside such as lie elsewhere; `FieldsKept`: a field is lost only to the removal of an absent one |
| `Plot` | array of 4 points, 9 rows, 2 window sizes; 5 rows; 2 packages of 2 fields, block and FIFO of 4 cells, 3 polls, 1 plot | `PictureWhole`, `TicksMatch`: the picture is of all points held, at the scale of the ticks; `SegmentsRight`: the same of the earlier plot, but for one segment; `RowsInOrder`: points are of rows printed, in order, and only a closed plot ends the client |
| `Phutils` | menu files of up to 3 lines and longer ones, depth 2, 2 calls; 3 saves and 3 mishaps of a selection; 3 sections with lists of up to 3 of which 2 are loaded, 2 cuts; panel of 2 x 4, 3 calls; 2 objects and 4 calls on a widget; 4 dialogues | `MenuIsTheFile`, `HandlerOfMenu`, `SelectionSurvives`, `FirstSaveWins`, `RowsApart`, `RedHasOwner`, `AnswerIsTheUsers`: each part keeps what it was given, as section 1 says |

Why the bounds are enough for the cases of interest: a frame mixes two cycles, a count
goes wrong and a post replaces another within two major frames, and 10 cycles are three
majors of 3; one message in each place of the acquisition pipeline with a
pipe of 1 gives a full pipe, and the second acquisition meets everything the first left;
three messages of which the third repeats the first reach every branch of the search of
the list; blocks of 4 words cut a message at every field. Three kinds of message are
one to the terminal, one from it, and one of 32 words (coded 0). The combinations of `Combos`
share a subaddress between two terminals and give one of them two subaddresses and word counts, so
each box has an item that another choice must take away. Two loops nest either
window in the other or follow each other; the proofs about `Analysis` hold for any
number. Three servers are one that gets the first request, one that gets the repetition,
and one that the next request meets; names of different lengths leave a rest in the union. Two
packages in `Fields` are chosen in either order and again in each other's
slot, and three fields selected do not fit into panels of two rows. Bytes of two bits keep the
order of bytes, the sign and the rounding of a number of four bytes, and five minor frames are two
major frames and the start of a third. With
an array of 4 the plot is reset at every fourth row, so nine rows reset it twice and
start again. Rows of two packages have 5 cells with the end of the line, so blocks of 4 never
hold a whole number of rows, and three polls fill stream, FIFO and reader.
A menu of depth 2 is entered, left and overrun by three lines; an `Init` that fails is
followed by one that does not. Three saves are one that leaves a selection, one that fails at any of its
steps and one after that; three mishaps fail a save, refuse the opening of the next and end the program.
Two cuts join a line that was joined before. Three calls print on a line feed, clear the panel and print again.

Deadlock is checked for `Server`; the other systems stop at the bounds on bus cycles, posts,
loops, rows, calls or files, or when a process exits.

Bounds are `MaxCycle`, `MaxSession` (`Package`, `Server`); `MaxConfig`, `MaxBatch`,
`MaxFile` (`Server`); `MaxMessages` (`BusStats`, `Offline`); `MaxMajor`
(`RealTime`); `MaxLoops` (`Analysis`); `MaxServers` (`Requests`); `MaxOpenings` (`Fields`: the
new-group window is opened once); `MaxFrames` (`Values`); `MaxRows` (`Graph`, `ControlCheck`);
`MaxPlots` (`LivePlot`); `MaxOpens` (`Offline`, `Combos`); `MaxCalls` (`FieldArray`, `Menu`,
`Panel`, `Widgets`, `Dialogs`); `MaxObjects` (`Widgets`); `MaxSaves`, `MaxMishaps`, `MaxCuts`
(the combo box files). `ArraySize`, `PipeCap`, `InputLength`, `MaxPkg`, `NameSize`, `FieldLimit`,
`GroupLimit`, `MAX_ROWS`, `MAX_COLUMN`, `MAX_MENU_LEVEL`, `COMBO_LIST_MAX`, `Block`, `FifoSize`,
`BYTE` and `ListSize` stand for sizes of the code; `Units` (`Values`) ends with the largest a scaled number needs; `Polls` numbers the polls modulo more than are under way. Symmetry of the packages is used in the two runs of
`AnalysisMixed` and `AnalysisBusFile`. Guards marked *bound* in the modules leave out:

* `Analysis`: the server is killed at most once, and not after a selection changed under an
  analysis;
* `Fields`: the new-group window is not opened again while it is being filled, no analysis is started
  inside another, no more than `FieldLimit` fields are selected, and no name outside
  `selected_group[]` is followed (the code does none of these tests); `MCFields` follows
  nothing once a group was made for a place no package is in, which the theorems do;
* `Server`: at most `MaxConfig` packages, so `config_count` stays below the array;
* `Requests`: nobody else starts or stops the acquisition;
* `FieldArray`: nothing is removed while the count is below zero, nothing added to a full array;
* `ControlCheck`: no more rows than the array holds;
* `Combos`: the window is not closed, and no data are shown, while the file is read;
* `Panel`: messages are shorter than the buffer they are copied into, and not of line feeds only;
  `Clear` is called with the first column (`ClearColumns`), as the client does.

### Disagreements with the code's own statements

* `PackageTorn`: `Package.cpp:139` says "minor cycle boundary, ie one minor cycle is
  over" of `msg_index <= prev_msg_index`; when the last message of a cycle and the first of
  the next are both dropped, the index does not go back and the frame holds both cycles.
* `AnalysisMixed`: the project report says that the buffer "of the corresponding object
  is sent to the client"; `MonClient::addconfig` appends to a list nobody resets
  (`sercli.cpp:44`), so the second analysis polls the objects of the first.
* `AnalysisBusFile`: the report says "Server must never core dump"; `setupreal` writes
  the object number into the union over `store_full_bus_data` (`sercli.cpp:85`), so the
  next CONFIG asks for a bus file without a name.
* `RequestsStale`: `setupstartwo` says "Start failed or already running" of a start that was not
  answered with success (`sercli.cpp:111`); `ToSvr` leaves `reply` as the last request made it, so a
  start that reached no server is taken for the one before.

### Assumptions

* *Fairness*: `main()` and each thread go on when they can, since each blocks
  or sleeps between messages and so starves no other (`Server!Fairness`: weak, per thread); the
  client's loop goes on (`Analysis!Fairness`, `WF_vars(LoopStep)`: it is
  the only code that runs between two events). Nothing is assumed of users, of clients or
  of the bus; a thread blocked in the pipe is not enabled.
* *Human pace* (`HumanPaced`, and in `BusStats`): a CONFIG or START comes after the threads
  cancelled by the previous STOP met a cancellation point. With `HumanPaced = FALSE` TLC
  finds what happens otherwise (section 5).
* *The bus file is asked for before or with START* (`StoreLate = FALSE`): a CONFIG that asks
  for one during an acquisition lets the storage thread see `writeGlobal` before
  `globalfile` is set.
* *The first pulse comes a second after START* (`threadfunc.cpp:30`), after the reply to it.
* *Schedule in layout order* (`MCSchedule`; in `PackageProofs` the hypothesis `ScheduleInOrder` of the
  theorems that need it): a cycle carries the messages of a package in the
  order of its data base table.
* Memory is sequentially consistent. `MsgReply` copies `Current` in the order of addresses.
* In `Analysis` a request fails only while no server runs (`Requests` has the server
  die in between). In `Fields` the frames are
  those of the package asked for (`Analysis` shows when they are not).
* In `Offline` the user leaves the data analysis window alone while its list is being filled
  (in `Combos` he does not), and the file exists.
* `fopen` of the bus file may fail, but each one that does not gives a stream of its own: what two streams open
  on one name leave on the disk (`Server`, `Package`: neither closes the earlier one) is not modelled.
* In `Values` every message arrives and no copy is torn (`Package` and `RealTime` show what
  happens otherwise). Scales are at most 65536 / `BYTE`, in units of
  1 / `WORD`, so that numbers stay exact in the model; the shipped scale 0.02 is not one of them.
* In `ComboFile` a header is written whole or not at all, and reading fails at once or not. In
  `ComboSections` numbers have one digit, and tags, texts and joined lines fit in their buffers.
* In `Panel` the place -1 `Clear` inserts at is taken to be that of the deletion. In `Dialogs` the bytes of
  the value saved get into the file together or not at all.
* What Photon, SQLite and the kernel's message passing do is external: a widget gives
  back what was set last, a query returns its rows, a send fails
  if and only if the server is gone before it replied.

## 4. What is proved

All theorems hold for every value of the constants that meets the modules' assumptions; a
theorem with a further hypothesis states it on its left, and the instances TLC runs meet it.

**`PackageProofs`** (any layout, schedule, number of minors and fault pattern), in three layers.

* `TypeCorrect`, `SlotAlwaysInBounds`, `MaskExact`, `ArrivalOrder`, `RightSlot`: that the *next*
  frame is in order or has an exact mask follows from the frame under construction. `IInv` adds
  `MinorOK` (the mask of the frame under construction is `msg_sts` and its words up to
  `prev_msg_index` are at most of the current cycle), `FramesOK` (every frame built has
  an exact mask and is in order) and `SlotsOK` (a frame in a slot has that slot's id or no good id).
* `FileKeepsOrder` and `PostsAreNew`, under any loss and fault, if the bus carries the messages in the
  order of the layout (`ScheduleInOrder`: an index that does not grow is then a later cycle). `Ages`
  says what is older than what: the file than the buffers (`FileAged`, `Aged`), every word than the place the
  bus has reached (`InStep`), and that the frame fed last holds the message stored last (`Held`).
* `FramesUntorn` and `PostsExact` without loss, whatever the minor ids say (`Lossless`), and
  `FileExactlyTheBus` without write errors either. `Exact` adds which cycle the frame under
  construction is of and which part of it it holds (`Track`), and how the major frame agrees with the bus
  once a good id was seen (`Synced`); `FileExact` continues the file by the frame under construction.

`FramesUntorn` is the reverse of the violated run `PackageTorn`: only loss tears a frame.

**`ServerProofs`** (any pipe, input, numbers of acquisitions, packages and files).

* `TypeCorrect`, `NoMessageLost`, `FlagTellsTheTruth` for clients however fast. `Inductive` adds to the
  types: a CONFIG under way has room for the packages it brings (`Counting`), a thread past its read has
  a message (`Carried`), which threads there are of acquisitions before, now and to come at every
  point of START and STOP (`Threads`), and the numbers of the messages in the storage thread,
  in the pipe and in the acquisition thread (`Numbered`), from which `NothingLost` follows by concatenation.
* `NothingStaleFed` for `HumanPaced` clients: `Paced` adds whose messages the threads and the pipe
  hold (`Own`), for which acquisition the packages are registered while STOP is half done
  (`Registered`), and that a cancelled storage thread meets no package (`Gone`).
* `CrashesAreRefusals` (also `~StoreLate`, and one more place in `configuration[]` than packages are registered,
  since `REAL_REQ` lets the number `config_count` through): only the threads of the last
  acquisition run (`Alone`), none of them while `main()` opens a file (`Quiet`), and a stream is there
  whenever one will be written, or was refused (`Streams`).
* `BusFilesWhole` (`HumanPaced`, `~StoreLate`): a new file is empty (`Clean`), and the one being written ends with the
  message before the one in hand or with that one (`Chain`).
* `ObjectsSeeTheSame` (`HumanPaced`): an object is empty until its acquisition starts (`Unfed`) and was
  otherwise fed the last message taken, or the one before if its turn is still to come (`Abreast`).
* `AcquisitionImplemented` (`HumanPaced`, `~StoreLate`, room in `configuration[]`): `Server` implements `Acquisition`.
  It rests on all the invariants above and on `Promised`: the pipe holds what it can (`Bounded`), of the message
  being dispatched every package before the next one was fed (`Turned`), and the file that is written has it
  already (`Stocked`). A line is determined by its length and its last number (`LineIs`), so a step moves it as it moves
  these two (`LineMoves`): reading appends, the pipe keeps, the end of a dispatch removes. `DispatchedFiled` and
  `DispatchedSeen` say that what the abstract `Feed` and `Finish` ask for holds when the code goes on. That packages
  agree (`ObjectsSeeTheSame`, proved of late bus files too) is part of it.

**`ReaderProofs`**.

* `TypeCorrect`, `AddUp`, `RepliesOrdered` of the statistics (any finite set of terminals, any set of subaddresses).
  The invariant adds `AliveBound` (the live terminals counted against the rows in use, with the one being
  counted) and `CopyBound`, how far the totals copied so far may be from the counters still to be copied.
* `RealTimeTypeCorrect`, `AnswersAreOfThisConfig`, `Monotone` and `Refinement` of the real-time buffer (any set of
  slots): the unprotected buffer implements `FrameRegister`, and although `data_rdy` outlives a CONFIG, no slot answered is
  of a frame posted before it. `Window` says which frame each slot is of (the one begun, for slots still to be copied
  the one before, zero if that was posted into an earlier buffer) and that what is copied of a reply lies between `low` and the
  buffer; each post and copy step, and each CONFIG, maps to a step of the register or to a stutter.
* `ListIsComplete` and `OutputIsFaithful` of the bus file (any files, command words, block of the library and values of
  the variable never set). A file is its messages one behind the other (`Grown`), also when fwrite puts another there
  (`GrownOn`). `WholeRead` says that a message whole on the disk is read back as it was written, whichever its
  direction and length; `CutShort`, that one which is not has no last word, so the loop ends. Hence a turn that begins in front
  of message k + 1 reads that message, or the messages read are all that are whole (`TurnIs`). `FileInv` says of a
  loop under way that it is in front of a message and has the messages before it in the list (`ListOf`) or in
  Output (`EntriesOf`), and of a loop that ended what the properties say.
* `TextsAreSelected` (any files of any combinations): a box shows the array its indices are used with
  (`BoxesShowArrays`), and the word counts shown are of combinations listed with the terminal and subaddress chosen
  (`WordCountsListed`), which a terminal chosen meanwhile takes away.

**`AnalysisProofs`** (any packages and number of loops).

* `LoopDrawsOpenWindow` and `IdleIsQuiet`. Of the stack of loops: all but the newest wait in an
  event handler or a notice (`OuterWait`); openings of a window are numbered and the flag `realOn`
  belongs to the newest loop of its window (`Newest`, `FlagOfAna`); a loop past its notice has
  `acq_on` (`FlagOfAcq`); a loop about to draw has its window (`Draws`); and while the server
  acquires, a loop whose flag is set exists (`Started`).
* `FirstShowsItsOwn` and `FirstEndsByFileOnly` (the server outlives the first analysis unless the bus file was refused), if a CONFIG message has room for all packages (`Fits`): the
  objects from 0 on are those of the selection, which was sent once (`Configured`), hold frames of their own package
  (`OwnObjects`), and before the CONFIG there are none (`Untouched`). The violated runs `AnalysisMixed` and
  `AnalysisBusFile` show that "first" is needed.
* `ReportsAreTrue` (any file names that fit, any number of servers): while one server runs the
  second try reaches it and the state of the acquisition is what the client was told (`OneServer`); the name a
  start gave to `fopen` is the one typed followed by the rest of a longer one typed before, if there was one
  (`NameKept`, `NameOpened`). Whether `fopen` took it is not in the reply.

**`FieldsProofs`** (any tables).

* `SelectionIsSound` and `GroupsAreShown`, until a group is made for a place no package is in (`stray`, after which only
  `Typed` is claimed). That the callbacks work on the package selected last, with
  items of a list filled earlier, is what makes neither property inductive. `Inductive` adds: the selected packages are
  distinct (`Distinct`, so `AddPackage` finds a slot left, by `PlaceLeft` on cardinalities); while the selection window is open
  its items are fields of the package selected (`ListsOwn`), and a new-group window with items is open and works on a package
  selected (`GroupWindowOwn`); what a slot knows of the groups is what the data base has (`GroupsKnown`).
* `PanelsAreOfFields`: a row of the panels is of one field. What is printed is read at an index of the
  concatenated lists, so `FlattenIs` and `FlattenElements` first say what `FlattenSeq` returns.
* `ArrayKeepsFields` (any array, any calls within it): no name twice (`NoneTwice`), and the names missing are at most the
  absent ones "removed", one less while the count is below zero (`FewMissed`). `HitKeeps`, `MissKeeps` and `AddKeeps` are the three things that can happen.
* `ValuesAreSent` (any package, number and length of messages, size of bytes, any fields; what is shown is right of those that agree). Byte `i`
  of a frame's data is byte `i` of the words sent (`FrameSent`; `BytesOverlay` says so of one message), a frame that ends carries
  its own number, so `Put_Major_Data` puts it under that number (`NumberIn`, `PostHolds`), and both buffers hold
  what was sent of each frame (`Holds`). From there `FieldRead` finds the bytes the client reads among them and adds them up,
  `RoundedIs` bounds what the float loses (half a unit, where the number has at least the mantissa's many half units), and `ColourRight`
  says that no error within that bound turns a colour. `Agrees` states of one field what the code takes from the data base
  unchecked: that `MI_BYTES`, `ID` and `POSITION` lead to the word the server put it in. `BusAssumption` is only about the shape of the rows: at most
  four bytes, no lower limit above its upper one, counters with whole scales. A normalised field is
  the fraction of the scale that its word is (`RightOf`).

**`GraphProofs`** (any array length, values, steps and window sizes): `PictureIsWhole`, `TicksAreThose`, and
`EarlierSegmentsRight` of the earlier plot. A segment starts where the last point was drawn, so the invariant says that
this position is at the present scale (`PrevCurrent`); an empty array has the limits of
a reset, by which its first point asks for a redraw (`EmptyAsks`). `PictureAppend`
says that appending a point adds the one segment. Of the earlier plot, nothing is missing before a segment
has been drawn by itself and one segment at the most after that (`OneMissing`).

`RowsAreInOrder` (any number of packages, fields, blocks and lengths of the FIFO, any text in the uninitialised buffer
of `setup`; one plot, and every package has the chosen column, `ColumnInRows`: section 5 says what happens otherwise).
The cells in the FIFO, in the stream and in the callback, one after the other, are the rest of the header, or of
the row that is read, and then the rows not read yet (`Reading`). The reader only counts lines and cells, so
`LinesIn` says how many lines the header has up to each of its cells, and of the row under way the buffer holds the
cells up to `index`. `Alive`: while rows are printed the plot is there or its user closed it. `FlattenConcat` and
`SumCovers` of `ListProofs` say where one row ends in the concatenation of all, and that it fits in the buffer.

**`PhutilsProofs`** (any texts, tags, lengths of lists, limits, colours and menu files).

* `RedIsOwned`: only an object that can hit a limit remembers one (`Limited`). Red is explained by an object that
  remembers and will set back another colour, by one made when the widget was red (`MadeRed`), or by one that went
  (`orphaned`); each call keeps one of the three, or sets another colour.
* `AnswersAreTheUsers`: `DialogInv` says which message boxes there can be, and that while nobody saves the file has the value
  saved last unless that was lost.
* `SelectionIsKept`: `BoxInv` says that unless it was lost, the header is the selection of the last save that was
  reported, as a char, wherever the next save is (`HeaderKept`); and that without a header none was
  reported, or it was lost.
* `FirstSaveIsLoaded`: the first heading of a tag that can be read in the file is that of the section first
  saved, and its list follows as far as it was written (`SectionsKnown`); a line cut off is the last one, and what it is joined to is
  one line again (`FileGoesOn`, `LinesWritten`, `JoinedIs`), so lines before it stay. What a box was filled with came from
  such a section (`FilledKnown`).
* `SlotsCorrect` and `HandlerCorrect` (any menu files, depth and failures): generating a menu stays inside the arrays
  that counting it sized, and the parent shows the whole menu of the object or none. `SlotInv` relates the two
  passes: until an `Init` fails, `Widget_Count` is the number of entries on the lines before the one read next, and
  the slots are those the count found, which are enough (`EnoughSlots`) if no comment hides an entry from the count
  (`CountSeesAll`). `HandlerInv`: the parent has the handler of the main menu exactly while the object calls itself complete.
* `TreeIsTheFile`: a finished menu of a well formed file is the tree the file draws. `TreeInv` says of a menu half
  made that the buttons made are those of the lines read, each in the menu of the submenu around it (`Drawing`),
  that the calls of `Generate_Menu_Items` work on menus that are there (`Calls`), and that the buttons kept from
  before are those that will be destroyed (`Grown`, `Kept`).

* `PanelIsRows` (any number and length of rows, messages, colours and calls): `Panel` refines `PanelRows`. The
  invariant is only that the text never gets shorter than its rows (`PanelTyped`); the work is in the step. `RowOfIndex` says that
  an index has one row and one column, so `Update_Index` cuts exactly the lines that end behind their line feed
  (`WhereItLands`); what is cut stays before the line feed, and what is not cut covers it or not, but never the next row
  (`Covers`, `RowPrinted`); line by line a message fills consecutive rows, and a message that starts
  below the last row is a stutter. What `Clear` leaves stands behind the rows (`ClearRefines`).

A fold (`FoldLeft`, `FlattenSeq`) is reasoned about by way of the function it is defined by: that the function
exists, and what it returns, is shown for all lengths by the least length for which it would not hold,
since the induction theorems of the library cannot be applied (`Least`, `LeastOf`, `Induct`). What two modules need
of this is in **`ListProofs`**, with what the search-and-append loops of `UniqueLists` leave in a list (`AddValuesAre`).

Theorems without a run of their own, since TLC would only repeat a bound or a type, or since they hold under a
hypothesis a run of the same property does not have:
`TypeCorrect` (of `Package`, `Server`), `SlotAlwaysInBounds`, `RightSlot`, `Monotone`, `AnswersAreOfThisConfig`, `RealTimeTypeCorrect`,
`SlotsCorrect`, `FramesUntorn`, `FirstEndsByFileOnly`, and `ObjectsSeeTheSame`, whose invariant `ObjectsAgree`
the refinement of `Acquisition` includes.

Only model-checked:

* `EventuallyDispatched`, `GuiResponsive`: liveness; the prover does not reason about fairness.

## 5. Observations that no run checks

Read off the code while modelling; no comment or document promises otherwise.

* `REAL_REQ` compares the object number with `>` against `config_count`
  (`distriServer.cc:228`): the number `config_count` is answered from an old object, and at
  the full array from past it. CONFIG never compares `config_count` with the array.
* `Package::Init` leaves `data_rdy` and `error_status` as the last session left them: after
  STOP and CONFIG, REAL_REQ has status 1 and a frame of zeros until the first post.
* A first major frame may be posted from the middle of a major cycle, with empty slots.
* At the end of `TEL1.DAT` the acquisition thread keeps receiving pulses and never looks
  at `on` again; only its cancellation ends it.
* CURR_REQ before the first START is answered with zeros in the tables where -1 means
  "never seen".
* The bus file's stream is never closed: START with a new name leaves the old one open. Its `fopen` is tested
  nowhere (`distriServer.cc:106`, `:180`): a name that cannot be opened ends the server at the first message,
  or at a CURR_REQ.
* File names are copied without their terminating zero (`sercli.cpp:102`): a name keeps the rest of a
  longer one before it; one of 50 characters runs into `writeNeeded`, and on the server into `globalFileName[40]`.
* The bus file's reader takes one turn too many and decodes the trailer word as a
  command: a combination that no terminal sent is listed, and printed when nothing is
  selected. A message of 32 words is printed without words.
* `presentCheck` is set inside the search of the list, so with an empty list it has the
  value the previous file left: the second file's list may stay empty.
* `selectedCombo` is never reset while the new window's list is: combinations selected for
  an earlier file, which the window does not show, still filter what is written to `Output`.
* `rtList` and `selectedCombo` have 25 elements and no test.
* A cancelled thread that is blocked in the pipe is ended by nothing but its cancellation; `on` is not looked at there.
* `distriServer.cc:200` says "Stopping the two threads"; they are only cancelled. An
  immediate CONFIG after STOP can meet the old storage thread with a message in its
  hands, and a new object is fed it: TLC shows it of `NoStaleFeed` with `HumanPaced = FALSE`.
* `change_group` prints a statement of 58 to 80 characters into `query[60]`, which
  `fields[50][15]` follows: after a group was made, the first selected field (usually
  `rtc`) and perhaps the second have lost their names. `SelectionSound` allows for that.
* `display_fields_callback` shows the selected fields, and takes the number of items, of the
  package shown *before*: after the window was opened again the list of available fields
  is empty at first.
* `rtana_realized_callback` empties the selection (`rtana_callbacks.cpp:236`) while a new-group window may be open. Its Create
  (`:297`) then makes a group for a place no package is in, and its group list filled; fields added with it are there when the next package
  gets that place.
* `remove_fields_callback` applies an index of the available fields to the fields
  picked; `group_count` is never reset and may become -1: a second group takes the fields
  of the first along. `selected_group[20]` and `fields[50][15]` have no test.
* `remove_field` of absent names brings the count below zero, and the next `add_field` writes before `fields[]`.
* With several packages selected, the panels keep the rows of the last one answered, below
  as many blank rows as the others had; the row written for the plot mixes all packages under one
  header.
* `rtana_callbacks.cpp` allocates a buffer for every poll and frees none.
  Neither does `set_RT_buffer`.
* A normalised value is negated by its highest bit, not as two's complement; a whole number that is normalised, and any other
  `NF`, is shown as 1. A field with ID 0 is read
  from the 13th minor frame. In the shipped data the columns of server and client agree for some fields only: of `GDNIMD3`
  for all but a few that start off a word or before the data; of `Vik_F06` and `i960-F06`, whose `MI_BYTES` is 128 for frames of
  12 bytes, in the first minor frame, and behind it the client reads past the buffer. Limits that are both 0 count as no limits. `loop_value[10]` is too small for
  `%+.4f` from 1000 on.
* After a reset `setup` asks for point -1, the element before `cur_point`, which the reset
  has just cleared, and shows the average 0/0. `average[5]` is too small for what `%f` prints.
* The first point moves only `low_y`: values above 0 lie beyond the axis until a higher one comes.
  `max_x` grows by 5 once per point, however far the point lies, and the early return
  leaves a new extreme of `y` unnoticed. A reset sets `max_x` to 150 whatever the time is.
* The average shown is not brought up to date by a row that asks for a redraw.
* `ControlCheck` has no test for its 7000 points. If the FIFO ends inside a row its loop
  puts the last character into the buffer for ever, and the first row drawn by itself has no segment
  until something redraws (`two_points`, `window_callbacks.cpp:124`).

Requests and windows:

* REAL_REQ is sent twice, the second time into `reply` (`sercli.cpp:19`); the first request of a client
  goes over connection 0. `Block_Window` forgets the windows of an earlier call.
* `data_check` computes an error text that nothing prints, with two-digit numbers in `char a[2]`.
* "All combinations selected" (`dtana_callbacks.cpp:366`) is not true while the file is being read.

The live plot:

* A row shorter than the column asked for takes what an earlier row left in the buffer
  (`window_callbacks.cpp:154`). After "Invalid column number" `setup` returns and keeps the FIFO open,
  so the client blocks for ever once it is full.
* A second plot reads what the first left in the FIFO, and the old stream is never closed
  (`rtana_callbacks.cpp:392`); rows stay in a stream that is not flushed. `system("plot")` has no
  arguments, the script in the repository needs two.

Menus:

* The depth is tested by equality (`phmenu.cpp:203`), `Destroy` goes by `menu_level` and leaves
  the first menu (`:69`), `Widget_Count` is not reset after an `Init` that failed, and a tag of more than
  four characters does not fit (`:283`). After a submenu that is not closed `Main_Menu` is an inner menu (`:313`).

Combo boxes and panels:

* "Add 1 item at end" inserts at the beginning (`my_widget.cpp:849`). An empty binary file, left by a kill
  before the header, is refused for ever. A selection above 127 comes back negative, and one is set in a box without items.
* A section saved behind a line cut off in a heading is not found (`my_widget.cpp:715`, `:783`): `FirstSaveWins`
  leaves it out.
* A line that ends on the line feed of a row replaces it (`common_utils.cpp:74`). A message of line
  feeds only is dereferenced as NULL; one longer than `MAX_COLUMN` overflows `buf`. A leading line feed
  leaves `curr_row`, and `Clear` from a column other than the first clears less than it says. `Clear` ends
  what it deletes at `start + len - 1`, where `Dis` adds one because the end is not deleted: the text grows by a
  line feed at each poll.

Widgets and dialogues:

* `Get_Numeric_Float(double)` never gives the caller the number (`my_widget.cpp:140`). An object made for a
  widget that is red takes red for its own colour, and one that goes leaves the widget red: `RedHasOwner` names both. `Show_Window` does not clear the hidden bit, `Enable`
  undoes `Hide_Widget`, and `INVALID` is 255 as a `flag_t`.
* `Get_Sav_Val_File` reports a save whose `fwrite` or `fclose` failed as done (`common_utils.cpp:313`, `:320`).
* Escape presses the default button of a message box (`my_widget.cpp:501`).

## 6. Not modelled, and why

* SQLite (`sqlite3.h`, 6329 of the 14981 lines of source) and its wrapper `sqlitewrapped.h`: vendored
  libraries. Tables are external: the constants `Table`, and the variable `groupOf` of `Fields`.
* The file dialogue of the acquisition window (`callbacks.cpp:23-45`; what it chose last
  survives its being opened again), and the callbacks that keep only one of two lists
  selected (`rtana_callbacks.cpp:341-382`).
* `Set_Font`, `Set_Color` and `Show_Menu` of the menus, `Get_String_Token`, `Get_Text_Ptr`, the
  free `Dis_Msg`: they keep no state, or attributes that nothing depends on.
* The error text of `data_check`, which nobody reads.
* Generated Photon code and build files; it connects widgets to the callbacks modelled.
* The DP-566 driver: not in the repository, `dp566var.h` only declares it.
* Formatting of numbers and text, other than the words of the bus file.

## 7. Plan

1. Done: all modules above, and proofs about every component modelled.
2. Open: composition of `Server`'s objects with `Package`: the two meet in the messages an object is fed, which `Acquisition` describes.
