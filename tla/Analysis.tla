------------------------------ MODULE Analysis ------------------------------
(***************************************************************************)
(* The client: the acquisition window (firstClient/src/callbacks.cpp), the *)
(* real-time analysis windows (src/rtana_callbacks.cpp) and the MonClient  *)
(* they talk to the server with (headers/sercli.cpp).                      *)
(*                                                                         *)
(* The client is one thread, but its callbacks are reentrant: the Start of *)
(* one window and the Okay of the other do not return, they poll the       *)
(* server in a loop that handles the user's events from inside             *)
(* (PtBkgdHandlerProcess).  stack is the stack of those loops; only the    *)
(* innermost runs.                                                         *)
(*                                                                         *)
(* Requests are synchronous, so the server is seen request by request, as  *)
(* main() of distriServer.cc answers them one at a time (module Server has *)
(* what happens inside); ToSvr reconnects and sends again when a send      *)
(* fails, so a request fails only while no server runs.                    *)
(***************************************************************************)
EXTENDS Integers, Sequences

CONSTANTS
    Packages,     \* rows of the package database
    MaxPkg,       \* MAX_PKG, length of config_msg_t.pkg_details (3)
    ArraySize,    \* length of configuration[] in the server (10)
    ServerDies,   \* may the server be killed and restarted?
    OpenFails,    \* may fopen refuse a bus file whose name was typed?
    MaxLoops      \* bound: times Okay or Start is pressed

ASSUME AnalysisAssumption ==
    /\ Packages \cap {"zero", "junk", "unset"} = {}
    /\ MaxPkg \in Nat \ {0} /\ ArraySize \in Nat \ {0}
    /\ ServerDies \in BOOLEAN /\ OpenFails \in BOOLEAN /\ MaxLoops \in Nat

VARIABLES
    sel,           \* selected packages: db[0 .. pack_count - 1]
    stack,
    realOn, acq_on,
    window,        \* is the analysis window open, its Stop enabled?
    acqWindow,     \* is the acquisition window open, its Start enabled?
    msg,           \* sendToServer.msg: pkg_details and store_full_bus_data
    realtimeData,  \* sendToServer.realtimeData: the last answer to REAL_REQ
    view,          \* what the analysis window shows, and as whose
    up, on, config_count, obj, writeGlobal, globalfile,   \* the server
    loops,         \* history: loops entered
    analyses,      \* history: analysis windows opened
    upset          \* history: did the selection change under an analysis, the server die?

data == <<msg, realtimeData, view>>
history == <<loops, analyses>>
client == <<sel, stack, realOn, acq_on, window, acqWindow, data, history>>
server == <<up, on, config_count, obj, writeGlobal, globalfile>>
vars == <<client, server, upset>>

Objects == 0 .. ArraySize - 1
Contents == Packages \cup {"zero", "junk"}   \* of a frame
Unset == [pkg |-> "unset", rdy |-> 0, frame |-> "zero"]
NoWindow == [open |-> FALSE, stop |-> FALSE]
NoAcqWindow == [open |-> FALSE, start |-> FALSE]
Nothing == [pkg |-> "unset", frame |-> "zero"]
Top == stack[Len(stack)]
At(kind, at) == IF stack = <<>> THEN FALSE ELSE Top.kind = kind /\ Top.at = at
InLoop(kind) == \E d \in DOMAIN stack : stack[d].kind = kind
Goto(at, i) ==
    stack' = [stack EXCEPT ![Len(stack)] = [kind |-> @.kind, at |-> at, i |-> i, win |-> @.win]]
Push(kind, at) ==
    /\ loops < MaxLoops
    /\ loops' = loops + 1
    /\ stack' = Append(stack, [kind |-> kind, at |-> at, i |-> 0, win |-> analyses'])
Pop == stack' = SubSeq(stack, 1, Len(stack) - 1)

(* Events are handled in PtMainLoop, inside the loops and while a notice    *)
(* waits for its button.                                                    *)
HandlesEvents == IF stack = <<>> THEN TRUE ELSE Top.at \in {"events", "notice", "warning"}

(* A notice blocks the window it belongs to. *)
Notified == \E d \in DOMAIN stack : stack[d].at \in {"notice", "warning"}

-----------------------------------------------------------------------------
(* The requests, as main() of the server answers them.                     *)

(* CONFIG_MSG: register the pkg_details.  Past MAX_PKG the server reads    *)
(* what follows the message.  The file name of a CONFIG_MSG is never set,  *)
(* so the bus file it asks for cannot be opened.                           *)
Detail(j) == IF j <= MaxPkg THEN msg.pkgs[j] ELSE "junk"
ServeConfig ==
    /\ obj' = [o \in Objects |->
                 IF o \in config_count .. config_count + Len(msg.pkgs) - 1
                 THEN [obj[o] EXCEPT !.pkg = Detail(o - config_count + 1), !.frame = "zero"]
                 ELSE obj[o]]
    /\ config_count' = config_count + Len(msg.pkgs)
    /\ IF msg.store = 1 THEN writeGlobal' = 1 /\ globalfile' = "NULL"
                        ELSE UNCHANGED <<writeGlobal, globalfile>>
    /\ up' \in IF Len(msg.pkgs) > MaxPkg THEN BOOLEAN ELSE {TRUE}
    /\ UNCHANGED on

ServeStart ==
    /\ on' = IF config_count > 0 THEN 1 ELSE on
    /\ UNCHANGED <<up, config_count, obj, writeGlobal, globalfile>>

(* START_WO_MSG does not look at what fopen answers.                       *)
ServeStartWo(needed) ==
    /\ IF on = 0
       THEN /\ on' = 1
            /\ writeGlobal' = (IF needed THEN 1 ELSE 0)
            /\ IF needed THEN globalfile' \in {"open"} \cup (IF OpenFails THEN {"refused"} ELSE {})
                         ELSE UNCHANGED globalfile
       ELSE UNCHANGED <<on, writeGlobal, globalfile>>
    /\ UNCHANGED <<up, config_count, obj>>

ServeStop ==
    /\ IF on = 1
       THEN on' = 0 /\ config_count' = 0 /\ writeGlobal' = 0
       ELSE UNCHANGED <<on, config_count, writeGlobal>>
    /\ UNCHANGED <<up, obj, globalfile>>

(* What REAL_REQ for object o is answered; the frame matters to status 1. *)
RealReply(o) ==
    IF o > config_count THEN [status |-> -1, frame |-> "zero"]
    ELSE IF obj[o].rdy = 1 THEN [status |-> 1, frame |-> obj[o].frame]
    ELSE [status |-> 2, frame |-> "zero"]

(* globalfile is NULL before any file was opened, after a CONFIG that asks *)
(* for one ("NULL") and after an fopen that failed ("refused").            *)
NoBusFile == globalfile \in {"NULL", "refused"}

(* CURR_REQ: fstat of a NULL file ends the server. *)
ServeCurr ==
    /\ up' = ~(writeGlobal = 1 /\ NoBusFile)
    /\ UNCHANGED <<on, config_count, obj, writeGlobal, globalfile>>

Request(Serve) == IF up THEN Serve ELSE UNCHANGED server

-----------------------------------------------------------------------------
(* Choosing packages.                                                      *)

(* rtana_realized_callback: the window is opened with nothing selected. *)
RtanaRealized ==
    /\ HandlesEvents /\ sel # <<>>
    /\ sel' = <<>>
    /\ upset' = (upset \/ InLoop("ana"))
    /\ UNCHANGED <<stack, realOn, acq_on, window, acqWindow, data, history, server>>

AddPackage(p) ==
    /\ HandlesEvents
    /\ \A i \in DOMAIN sel : sel[i] # p
    /\ sel' = Append(sel, p)
    /\ upset' = (upset \/ InLoop("ana"))
    /\ UNCHANGED <<stack, realOn, acq_on, window, acqWindow, data, history, server>>

-----------------------------------------------------------------------------
(* packana_post_realise_callback: Okay opens the analysis window.          *)

(* addconfig appends to what earlier analyses added. *)
addconfig(packages) == msg' = [msg EXCEPT !.pkgs = @ \o packages]
Okay ==
    /\ HandlesEvents /\ ~window.open
    /\ analyses' = analyses + 1
    /\ realOn' = TRUE
    /\ window' = [open |-> TRUE, stop |-> TRUE]
    /\ addconfig(sel)
    /\ view' = Nothing
    /\ Push("ana", "config")
    /\ UNCHANGED <<sel, acq_on, acqWindow, realtimeData, server, upset>>

SetupConfig ==
    /\ At("ana", "config")
    /\ Request(ServeConfig)
    /\ Goto("start", 0)
    /\ UNCHANGED <<sel, realOn, acq_on, window, acqWindow, data, history, upset>>

SetupStart ==
    /\ At("ana", "start")
    /\ Request(ServeStart)
    /\ Goto("body", 0)
    /\ UNCHANGED <<sel, realOn, acq_on, window, acqWindow, data, history, upset>>

PollNext(i) ==
    /\ realtimeData' = IF up THEN RealReply(i + 1) ELSE realtimeData
    /\ view' = IF realtimeData'.status = 1
               THEN [pkg |-> sel[i + 1], frame |-> realtimeData'.frame] ELSE view
    /\ msg' = [msg EXCEPT !.store = i]

(* setupreal(i) writes i over store_full_bus_data: realReq and configMsg   *)
(* share the union.  When no server answers realtimeData is left as it is, *)
(* and outputbuf takes it for an answer.                                   *)
Poll(i) ==
    /\ realtimeData' = IF up THEN RealReply(i) ELSE realtimeData
    /\ view' = IF realtimeData'.status = 1
               THEN [pkg |-> sel[i + 1], frame |-> realtimeData'.frame] ELSE view
    /\ msg' = [msg EXCEPT !.store = i]
RetryUntilReady(i) ==
    IF realtimeData'.status # 1 THEN Goto("body", i)
    ELSE IF i + 1 < Len(sel) THEN Goto("body", i + 1) ELSE Goto("events", 0)
AfterPoll(i) == IF i + 1 < Len(sel) THEN Goto("body", i + 1) ELSE Goto("events", 0)

SetupReal ==
    /\ At("ana", "body")
    /\ IF Top.i < Len(sel)
       THEN Poll(Top.i) /\ AfterPoll(Top.i)
       ELSE Goto("events", 0) /\ UNCHANGED <<realtimeData, view, msg>>
    /\ UNCHANGED <<sel, realOn, acq_on, window, acqWindow, history, server, upset>>

(* packana_stop_callback. *)
PackanaStop ==
    /\ HandlesEvents /\ window.open /\ window.stop
    /\ realOn' = FALSE
    /\ Request(ServeStop)
    /\ window' = [window EXCEPT !.stop = FALSE]
    /\ UNCHANGED <<sel, stack, acq_on, acqWindow, data, history, upset>>

(* packan_ok_callback, packana_window_close_callback. *)
CloseKeepsLoop ==
    /\ HandlesEvents /\ window.open
    /\ Request(ServeStop)
    /\ window' = NoWindow
    /\ UNCHANGED <<sel, stack, realOn, acq_on, acqWindow, data, history, upset>>
CloseWithoutStop ==
    /\ HandlesEvents /\ window.open
    /\ realOn' = FALSE
    /\ window' = NoWindow
    /\ UNCHANGED <<sel, stack, acq_on, acqWindow, data, history, server, upset>>
PackanaClose ==
    /\ HandlesEvents /\ window.open
    /\ realOn' = FALSE
    /\ Request(ServeStop)
    /\ window' = NoWindow
    /\ UNCHANGED <<sel, stack, acq_on, acqWindow, data, history, upset>>

-----------------------------------------------------------------------------
(* The acquisition window.                                                 *)

OpenAcqWindow ==
    /\ HandlesEvents /\ ~acqWindow.open
    /\ acqWindow' = [open |-> TRUE, start |-> TRUE]
    /\ UNCHANGED <<sel, stack, realOn, acq_on, window, data, history, server, upset>>

(* dtana_cancel_callback: the loop, if one runs, is not told. *)
CloseAcqWindow ==
    /\ HandlesEvents /\ ~Notified /\ acqWindow.open
    /\ acqWindow' = NoAcqWindow
    /\ UNCHANGED <<sel, stack, realOn, acq_on, window, data, history, server, upset>>

(* dtacq_start_da_callback: with a file name the start is requested at     *)
(* once, without one after the notice "Acquired data will not be stored!". *)
(* acq_on is set even if there is no connection.                           *)
StartDa(needed) ==
    /\ HandlesEvents /\ ~Notified /\ acqWindow.open /\ acqWindow.start
    /\ acq_on' = TRUE
    /\ acqWindow' = [acqWindow EXCEPT !.start = ~up]
    /\ IF up /\ needed THEN ServeStartWo(TRUE) ELSE UNCHANGED server
    /\ UNCHANGED <<sel, realOn, window, data, analyses, upset>>
    /\ Push("acq", IF ~up THEN "warning" ELSE IF needed THEN "body" ELSE "notice")

Dismiss ==
    /\ \/ /\ At("acq", "warning")
          /\ Pop
          /\ UNCHANGED server
       \/ /\ At("acq", "notice")
          /\ Request(ServeStartWo(FALSE))
          /\ Goto("body", 0)
    /\ UNCHANGED <<sel, realOn, acq_on, window, acqWindow, data, history, upset>>

SetupCurrent ==
    /\ At("acq", "body")
    /\ Request(ServeCurr)
    /\ Goto("events", 0)
    /\ UNCHANGED <<sel, realOn, acq_on, window, acqWindow, data, history, upset>>

(* dtacq_stop_da_callback. *)
StopDa ==
    /\ HandlesEvents /\ ~Notified /\ acqWindow.open /\ ~acqWindow.start
    /\ acq_on' = FALSE
    /\ acqWindow' = [acqWindow EXCEPT !.start = TRUE]
    /\ Request(ServeStop)
    /\ UNCHANGED <<sel, stack, realOn, window, data, history, upset>>

(* The innermost loop has handled its events; delay, and test its flag. *)
LoopOrBreak ==
    /\ stack # <<>> /\ Top.at = "events"
    /\ IF (Top.kind = "ana" /\ realOn) \/ (Top.kind = "acq" /\ acq_on)
       THEN Goto("body", 0)
       ELSE Pop
    /\ UNCHANGED <<sel, realOn, acq_on, window, acqWindow, data, history, server, upset>>

-----------------------------------------------------------------------------
(* The server by itself.                                                   *)

(* Object o posts a major frame. *)
Post(o) ==
    /\ up /\ on = 1 /\ o < config_count
    /\ obj' = [obj EXCEPT ![o].rdy = 1, ![o].frame = obj[o].pkg]
    /\ UNCHANGED <<up, on, config_count, writeGlobal, globalfile, client, upset>>

(* write_monitor_data: fwrite of a bus message to a NULL file. *)
StoreMessage ==
    /\ up /\ on = 1 /\ writeGlobal = 1 /\ NoBusFile
    /\ up' = FALSE
    /\ UNCHANGED <<on, config_count, obj, writeGlobal, globalfile, client, upset>>

(* Bound: the server is killed once, and not after a selection changed     *)
(* under an analysis (it may still die by itself).                         *)
Kill ==
    /\ ServerDies /\ up /\ ~upset
    /\ up' = FALSE /\ upset' = TRUE
    /\ UNCHANGED <<on, config_count, obj, writeGlobal, globalfile, client>>

Restart ==
    /\ ~up
    /\ up' = TRUE /\ on' = 0 /\ config_count' = 0
    /\ writeGlobal' = 0 /\ globalfile' = "NULL"
    /\ obj' = [o \in Objects |-> Unset]
    /\ upset' = TRUE
    /\ UNCHANGED client

-----------------------------------------------------------------------------
Init ==
    /\ sel = <<>> /\ stack = <<>> /\ realOn = FALSE /\ acq_on = FALSE
    /\ window = NoWindow /\ acqWindow = NoAcqWindow
    /\ msg = [pkgs |-> <<>>, store |-> 0]
    /\ realtimeData = [status |-> 0, frame |-> "zero"]
    /\ view = Nothing
    /\ up = TRUE /\ on = 0 /\ config_count = 0
    /\ writeGlobal = 0 /\ globalfile = "NULL"
    /\ obj = [o \in Objects |-> Unset]
    /\ loops = 0 /\ analyses = 0 /\ upset = FALSE

LoopStep ==
    SetupConfig \/ SetupStart \/ SetupReal \/ SetupCurrent \/ LoopOrBreak

Event ==
    \/ RtanaRealized
    \/ \E p \in Packages : AddPackage(p)
    \/ Okay \/ PackanaStop \/ PackanaClose
    \/ OpenAcqWindow \/ CloseAcqWindow
    \/ \E needed \in BOOLEAN : StartDa(needed)
    \/ Dismiss
    \/ StopDa

ServerStep ==
    \/ \E o \in Objects : Post(o)
    \/ StoreMessage \/ Kill \/ Restart

Next == LoopStep \/ Event \/ ServerStep

(* The client's thread runs.  Nothing is assumed of the user. *)
Spec == Init /\ [][Next]_vars
Fairness == WF_vars(LoopStep)

-----------------------------------------------------------------------------
(* Properties.                                                             *)

TypeOK ==
    /\ sel \in Seq(Packages)
    /\ stack \in Seq([kind : {"ana", "acq"}, at : {"config", "start", "body", "events",
                                                      "notice", "warning"},
                      i : Objects, win : 0 .. MaxLoops])
    /\ realOn \in BOOLEAN /\ acq_on \in BOOLEAN
    /\ window \in [open : BOOLEAN, stop : BOOLEAN]
    /\ acqWindow \in [open : BOOLEAN, start : BOOLEAN]
    /\ msg.pkgs \in Seq(Packages) /\ msg.store \in Objects
    /\ realtimeData \in [status : {-1, 0, 1, 2}, frame : Contents]
    /\ view \in [pkg : Packages \cup {"unset"}, frame : Contents]
    /\ up \in BOOLEAN /\ on \in {0, 1} /\ config_count \in 0 .. ArraySize
    /\ obj \in [Objects -> [pkg : Packages \cup {"unset", "junk"}, rdy : {0, 1},
                            frame : Contents]]
    /\ writeGlobal \in {0, 1} /\ globalfile \in {"NULL", "refused", "open"}
    /\ loops \in 0 .. MaxLoops /\ analyses \in 0 .. MaxLoops /\ upset \in BOOLEAN

(* "The major cycle buffer of the corresponding object is sent to the      *)
(* client" (project report, real time data request): what the window shows *)
(* as a package's data is that package's data.                             *)
OwnFrames == view.frame \in {"zero", view.pkg}

(* It is so in the first analysis of a client, whatever the acquisition    *)
(* window does meanwhile, unless the selection changes under it or the     *)
(* server is no longer the one it was configured in.  (The last answer of  *)
(* a server that died is drawn again for the packages polled after it.)    *)
FirstAnalysisOwn == analyses <= 1 /\ ~upset /\ up => OwnFrames

(* The loop of an analysis window never draws after its window was closed, *)
(* however loops of both windows are nested and flags set again by later   *)
(* windows.                                                                *)
DrawsOpenWindow ==
    stack # <<>> /\ Top.kind = "ana" /\ Top.at # "events" =>
        window.open /\ Top.win = analyses

(* When no window polls any more the server has been stopped. *)
QuietWhenIdle == stack = <<>> /\ up => on = 0

(* The user is always listened to again, also while no server answers. *)
GuiResponsive == []<>HandlesEvents

(* "Server must never core dump" (project report, requirements). *)
ServerSurvives == up
=============================================================================
