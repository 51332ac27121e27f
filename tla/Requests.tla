------------------------------ MODULE Requests ------------------------------
(***************************************************************************)
(* MonClient::ToSvr (firstClient/headers/sercli.cpp): a request is sent,   *)
(* and if that fails the client connects again and sends once more.  The   *)
(* client object is toServer, the one of the acquisition window            *)
(* (src/callbacks.cpp): START_WO with a file name, STOP and CURR.  The     *)
(* server can die at any time, also after it did what it was asked and     *)
(* before it replied, and comes back as another one.                       *)
(*                                                                         *)
(* The request is built in one union that is never cleared, and a reply    *)
(* that does not come leaves the reply of an earlier request.  What the    *)
(* windows do with the answers is module Analysis.  Bound: nobody else     *)
(* starts or stops the acquisition.  The server answers a START_WO without *)
(* looking at what fopen said: whether there is a file of that name is in  *)
(* modules Server and Analysis.                                            *)
(***************************************************************************)
EXTENDS Integers, Sequences, SequencesExt, FiniteSetsExt

CONSTANTS
    Names,      \* file names the user types, sequences of fewer than NameSize characters
    NameSize,   \* length of start_wo_msg.filename (50)
    MaxServers  \* bound: servers, one after the other

VARIABLES
    up, server,   \* does a server run, and the how manieth is it?
    on, fileName, \* of the server: acquiring, the name it last gave to fopen
    coid,         \* the server the client is connected to, 0 for none
    acquiring,    \* is Start disabled and Stop enabled?
    at,           \* where ToSvr is
    msg, reply, currentData,
    told,         \* what the last start or stop said of itself
    typed,        \* history: the file name of this start, <<>> for none
    longest,      \* history: length of the longest name typed
    answered,     \* history: the server that answered this request, 0 for none
    calm,         \* history: did the same server run all through the request?
    wasOn         \* history: was it acquiring when the request began?

client == <<coid, acquiring, at, msg, reply, currentData, told>>
history == <<typed, longest, answered, calm, wasOn>>
vars == <<up, server, on, fileName, client, history>>

Nul == "nul"
Name(n, old) == [k \in 1 .. NameSize |-> IF k <= Len(n) THEN n[k] ELSE old[k]]
CString(f) ==
    SubSeq(f, 1, Min({k \in 1 .. NameSize : f[k] = Nul} \cup {NameSize + 1}) - 1)

-----------------------------------------------------------------------------
(* The callbacks, up to the call of ToSvr.                                 *)
Begin ==
    /\ at' = "send"
    /\ answered' = 0 /\ calm' = up /\ wasOn' = on

(* MonClient::Init: init_start, base_test_connectivity_callback. *)
Connect == coid' = IF up THEN server ELSE 0
TestConnectivity ==
    /\ at = "idle"
    /\ Connect
    /\ UNCHANGED <<up, server, on, fileName, acquiring, at, msg, reply, currentData,
                   told, history>>

(* dtacq_start_da_callback with a file name or without; setupstartwo. *)
SetStart(n) ==
    msg' = [msg EXCEPT !.type = "START_WO", !.needed = n # <<>>, !.name = Name(n, @)]
StartDa(n) ==
    /\ at = "idle" /\ ~acquiring
    /\ Connect
    /\ IF up
       THEN /\ acquiring' = TRUE
            /\ SetStart(n) /\ Begin
            /\ typed' = n /\ longest' = Max({longest, Len(n)})
       ELSE UNCHANGED <<acquiring, at, msg, history>>
    /\ UNCHANGED <<up, server, on, fileName, reply, currentData, told>>

(* dtacq_stop_da_callback. *)
StopDa ==
    /\ at = "idle" /\ acquiring
    /\ acquiring' = FALSE
    /\ msg' = [msg EXCEPT !.type = "STOP"] /\ Begin
    /\ UNCHANGED <<up, server, on, fileName, coid, reply, currentData, told, typed, longest>>

(* The loop of dtacq_start_da_callback. *)
SetupCurrent ==
    /\ at = "idle" /\ acquiring
    /\ msg' = [msg EXCEPT !.type = "CURR"] /\ Begin
    /\ UNCHANGED <<up, server, on, fileName, coid, acquiring, reply, currentData, told,
                   typed, longest>>

(* The window is closed and opened again: Start is enabled. *)
Reopen ==
    /\ at = "idle" /\ acquiring
    /\ acquiring' = FALSE
    /\ UNCHANGED <<up, server, on, fileName, coid, at, msg, reply, currentData, told, history>>

-----------------------------------------------------------------------------
(* What the server does with the request, and its reply: main() of         *)
(* distriServer.cc.                                                        *)
Handle ==
    CASE msg.type = "START_WO" ->
            /\ on' = TRUE
            /\ fileName' = IF ~on /\ msg.needed THEN CString(msg.name) ELSE fileName
      [] msg.type = "STOP" -> on' = FALSE /\ UNCHANGED fileName
      [] OTHER -> UNCHANGED <<on, fileName>>
Answer ==
    CASE msg.type = "START_WO" -> [type |-> "START_REPLY", status |-> IF on THEN 0 ELSE 1]
      [] msg.type = "STOP" -> [type |-> "STOP_REPLY", status |-> IF on THEN 1 ELSE 0]
      [] OTHER -> reply
Receive ==
    /\ reply' = Answer
    /\ currentData' = IF msg.type = "CURR" THEN server ELSE currentData
Sending == at \in {"send", "second"}
Reaches == up /\ coid = server

Reply ==
    /\ Sending /\ Reaches
    /\ Handle /\ Receive
    /\ at' = "return" /\ answered' = server
    /\ UNCHANGED <<up, server, coid, acquiring, msg, told, typed, longest, calm, wasOn>>

(* MsgSend fails: there is no such server, or it dies before the reply,    *)
(* having done what was asked or not.                                      *)
Failed == at' = IF at = "send" THEN "connect" ELSE "return"
NoServer ==
    /\ Sending /\ ~Reaches
    /\ Failed
    /\ UNCHANGED <<up, server, on, fileName, coid, acquiring, msg, reply, currentData,
                   told, history>>
Dead == up' = FALSE /\ on' = FALSE /\ fileName' = <<>> /\ calm' = FALSE
DiesBeforeReply ==
    /\ Sending /\ Reaches
    /\ Failed /\ Dead
    /\ UNCHANGED <<server, coid, acquiring, msg, reply, currentData, told, typed, longest,
                   answered, wasOn>>

ReconnectNot ==
    /\ at = "connect"
    /\ at' = "second"
    /\ UNCHANGED <<up, server, on, fileName, coid, acquiring, msg, reply, currentData,
                   told, history>>
Reconnect ==
    /\ at = "connect"
    /\ Connect
    /\ at' = "second"
    /\ UNCHANGED <<up, server, on, fileName, acquiring, msg, reply, currentData, told,
                   history>>

(* setupstartwo and setupstop look at the reply they have. *)
Said ==
    CASE msg.type = "START_WO" ->
            IF reply = [type |-> "START_REPLY", status |-> 1] THEN "started" ELSE "start failed"
      [] msg.type = "STOP" ->
            IF reply = [type |-> "STOP_REPLY", status |-> 1] THEN "stopped" ELSE "unable to stop"
      [] OTHER -> told
Return ==
    /\ at = "return"
    /\ told' = Said /\ at' = "idle"
    /\ UNCHANGED <<up, server, on, fileName, coid, acquiring, msg, reply, currentData, history>>

-----------------------------------------------------------------------------
(* The server is killed and started again. *)
Kill ==
    /\ up
    /\ Dead
    /\ UNCHANGED <<server, client, typed, longest, answered, wasOn>>
Restart ==
    /\ ~up /\ server < MaxServers
    /\ up' = TRUE /\ server' = server + 1
    /\ UNCHANGED <<on, fileName, client, history>>

Init ==
    /\ up \in BOOLEAN /\ server = 1 /\ on = FALSE /\ fileName = <<>>
    /\ coid = IF up THEN 1 ELSE 0
    /\ acquiring = FALSE /\ at = "idle"
    /\ msg = [type |-> "none", name |-> [k \in 1 .. NameSize |-> Nul], needed |-> FALSE]
    /\ reply = [type |-> "none", status |-> 0] /\ currentData = 0 /\ told = "nothing"
    /\ typed = <<>> /\ longest = 0 /\ answered = 0 /\ calm = FALSE /\ wasOn = FALSE

Next ==
    \/ TestConnectivity
    \/ \E n \in Names \cup {<<>>} : StartDa(n)
    \/ StopDa \/ SetupCurrent \/ Reopen
    \/ Reply \/ NoServer \/ DiesBeforeReply \/ Reconnect \/ Return
    \/ Kill \/ Restart

Spec == Init /\ [][Next]_vars

-----------------------------------------------------------------------------
(* Properties.                                                             *)

(* The server asks fopen for the name typed, followed by what longer names *)
(* typed before left in the union: it is always as long as the longest of  *)
(* them, and so the name typed if none was longer.                         *)
Started ==
    /\ at = "return" /\ up /\ answered = server
    /\ msg.type = "START_WO" /\ Said = "started" /\ typed # <<>>
NameOrLonger == Started => IsPrefix(typed, fileName) /\ Len(fileName) = longest

(* A request during which one server runs is answered by it, whatever      *)
(* connection earlier servers left the client with, and what setupstartwo  *)
(* and setupstop then take the reply for is what happened: a start that    *)
(* found the server at rest, or a stop that found it acquiring.  The name  *)
(* such a start gave to fopen begins with the one typed.  ToSvr.           *)
ReportIsTrue ==
    /\ (at = "return" /\ calm) =>
          /\ answered = server
          /\ msg.type = "START_WO" => (Said = "started" <=> ~wasOn)
          /\ msg.type = "STOP" => (Said = "stopped" <=> wasOn)
    /\ NameOrLonger

(* "Start failed or already running" (setupstartwo) is said of every start *)
(* that failed.                                                            *)
FailureIsSaid ==
    (at = "return" /\ msg.type = "START_WO" /\ answered = 0) => Said = "start failed"
=============================================================================
