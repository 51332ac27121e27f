------------------------------- MODULE Server -------------------------------
(***************************************************************************)
(* The server process: the request loop of main() in                       *)
(* distriServer/distriServer.cc and the two threads a START creates,       *)
(* data_acquisition and data_storage of headers/threadfunc.cpp.            *)
(*                                                                         *)
(*   bus --> data_acquisition --> pipe --> data_storage --> bus file       *)
(*                                                     \--> configuration[]*)
(*                                                                         *)
(* All the variables below are globals of the process and no lock protects *)
(* them, so an action is the largest stretch of one thread that touches    *)
(* at most one variable another thread looks at.  STOP ends the threads    *)
(* with pthread_cancel, which a thread obeys at its next cancellation      *)
(* point (MsgReceive, read, write; stdio calls may be one too).            *)
(*                                                                         *)
(* A bus message is [ses, n]: the n-th valid message of session ses, the   *)
(* number of the START that began it.  What an object does with a message  *)
(* is module Package; here an object remembers what it was fed.            *)
(***************************************************************************)
EXTENDS Integers, Sequences

CONSTANTS
    ArraySize,     \* length of configuration[] (10)
    PipeCap,       \* messages a pipe holds
    InputLength,   \* messages in TEL1.DAT
    MaxConfig,     \* bound: packages registered at one time
    MaxBatch,      \* bound: packages in one CONFIG_MSG (MAX_PKG is 3)
    MaxSession,    \* bound: acquisitions started
    MaxFile,       \* bound: bus files opened
    HumanPaced,    \* do clients leave a STOP the time to end the threads?
    StoreLate      \* may CONFIG_MSG ask for a bus file during acquisition?

ASSUME ServerAssumption ==
    /\ ArraySize \in Nat \ {0} /\ PipeCap \in Nat \ {0} /\ InputLength \in Nat
    /\ MaxConfig \in Nat /\ MaxBatch \in Nat
    /\ MaxSession \in Nat /\ MaxFile \in Nat
    /\ HumanPaced \in BOOLEAN /\ StoreLate \in BOOLEAN

VARIABLES
    on, config_count, writeGlobal,
    globalfile,    \* the bus file the pointer denotes, or a NULL: 0 or Refused
    files,         \* files[f]: what was fwritten to the f-th stream fopen gave
    obj,           \* obj[i]: configuration[i]
    session,       \* readThread, writeThread and fd belong to this START
    main,          \* the request main() is serving and how far it is
    reply,         \* status of the last reply, 0 while a request is served
    acq, sto,      \* the threads of each session
    cancelA, cancelS, \* pthread_cancel was called
    pipe,          \* what is in the pipe of each session
    crashed        \* the process died of a NULL FILE* or of an index past configuration[]

globals == <<on, config_count, writeGlobal, globalfile, obj, session>>
mainvars == <<main, reply, cancelA, cancelS>>
vars == <<globals, mainvars, files, acq, sto, pipe, crashed>>

Sessions == 1 .. MaxSession
Message  == [ses : Sessions, n : 1 .. InputLength]
NoMessage == [ses |-> 0, n |-> 0]
NoReply  == 0

(* An object as Init leaves it: nothing fed; since is the session whose    *)
(* messages it is meant for.                                               *)
Fresh == [since |-> IF on = 1 THEN session ELSE session + 1, fed |-> <<>>, rdy |-> 0]

Idle == main.at = "idle"
Running(k) == acq[k].pc \notin {"none", "dead"} \/ sto[k].pc \notin {"none", "dead"}

(* Clients are operated by hand: unless HumanPaced is FALSE, a request     *)
(* that registers packages or starts an acquisition comes after the        *)
(* threads a STOP cancelled have met a cancellation point.                 *)
Settled == HumanPaced => \A k \in Sessions : cancelS[k] => ~Running(k)

Goto(label) == main' = [main EXCEPT !.at = label]
Reply(status) ==
    /\ main' = [main EXCEPT !.at = "idle", !.store = FALSE]
    /\ reply' = status

(* The NULL a failed fopen returns, told from the one before any fopen. *)
Refused == -1

(* fopen of a bus file with mode "w": a stream of its own, or NULL, which  *)
(* nobody tests.  The stream of the file before is never closed; what two  *)
(* streams on one name leave on the disk is not in the model.              *)
OpenFile ==
    \/ /\ files' = Append(files, <<>>)
       /\ globalfile' = Len(files) + 1
    \/ /\ globalfile' = Refused
       /\ UNCHANGED files

-----------------------------------------------------------------------------
(* CONFIG_MSG: register num packages, then ask for a bus file.             *)
ReceiveConfig(num, store) ==
    /\ Idle /\ Settled
    /\ config_count + num <= MaxConfig
    /\ store => /\ Len(files) < MaxFile
                /\ on = 0 \/ StoreLate
    /\ main' = [at |-> "init", left |-> num, store |-> store]
    /\ reply' = NoReply
    /\ UNCHANGED <<globals, cancelA, cancelS, files, acq, sto, pipe, crashed>>

ConfigInit ==
    /\ main.at = "init" /\ main.left > 0
    /\ obj' = [i \in DOMAIN obj |-> IF i = config_count THEN Fresh ELSE obj[i]]
    /\ crashed' = (crashed \/ config_count >= ArraySize)
    /\ Goto("count")
    /\ UNCHANGED <<on, config_count, writeGlobal, globalfile, session,
                   reply, cancelA, cancelS, files, acq, sto, pipe>>

ConfigCount ==
    /\ main.at = "count"
    /\ config_count' = config_count + 1
    /\ main' = [main EXCEPT !.at = "init", !.left = @ - 1]
    /\ UNCHANGED <<on, writeGlobal, globalfile, obj, session,
                   reply, cancelA, cancelS, files, acq, sto, pipe, crashed>>

ConfigFlag ==
    /\ main.at = "init" /\ main.left = 0 /\ main.store
    /\ writeGlobal' = 1
    /\ Goto("open")
    /\ UNCHANGED <<on, config_count, globalfile, obj, session,
                   reply, cancelA, cancelS, files, acq, sto, pipe, crashed>>

(* fopen and MsgReply, shared with START_WO_REQ. *)
ConfigOpen ==
    /\ main.at = "open"
    /\ OpenFile
    /\ Reply(1)
    /\ UNCHANGED <<on, config_count, writeGlobal, obj, session,
                   cancelA, cancelS, acq, sto, pipe, crashed>>

ConfigReply ==
    /\ main.at = "init" /\ main.left = 0 /\ ~main.store
    /\ Reply(1)
    /\ UNCHANGED <<globals, cancelA, cancelS, files, acq, sto, pipe, crashed>>

-----------------------------------------------------------------------------
(* START_MSG and START_WO_REQ.                                             *)

(* A new pipe, that of the new session, and the two detached threads. *)
init_monitor_memory == session' = session + 1
Launch ==
    /\ on' = 1
    /\ init_monitor_memory
    /\ acq' = [acq EXCEPT ![session'] = [pc |-> "setup", n |-> 0, msg |-> NoMessage]]
    /\ sto' = [sto EXCEPT ![session'] = [pc |-> "read", msg |-> NoMessage, i |-> 0]]

StartMsg ==
    /\ Idle /\ Settled
    /\ \/ /\ on = 0 /\ config_count > 0 /\ session < MaxSession
          /\ Launch
          /\ Reply(1)
       \/ /\ config_count = 0
          /\ Reply(-1)
          /\ UNCHANGED <<on, session, acq, sto>>
       \/ /\ on = 1 /\ config_count > 0
          /\ Reply(0)
          /\ UNCHANGED <<on, session, acq, sto>>
    /\ UNCHANGED <<config_count, writeGlobal, globalfile, obj,
                   cancelA, cancelS, files, pipe, crashed>>

StartWoMsg(needed) ==
    /\ Idle /\ Settled
    /\ \/ /\ on = 0 /\ session < MaxSession
          /\ needed => Len(files) < MaxFile
          /\ Launch
          /\ main' = [at |-> "flag", left |-> 0, store |-> needed]
          /\ reply' = NoReply
       \/ /\ on = 1
          /\ Reply(0)
          /\ UNCHANGED <<on, session, acq, sto>>
    /\ UNCHANGED <<config_count, writeGlobal, globalfile, obj,
                   cancelA, cancelS, files, pipe, crashed>>

StartWoWithoutOpen ==
    /\ main.at = "flag"
    /\ writeGlobal' = (IF main.store THEN 1 ELSE 0)
    /\ Reply(1)
    /\ UNCHANGED <<on, config_count, globalfile, obj, session,
                   cancelA, cancelS, files, acq, sto, pipe, crashed>>
StartWoFlag ==
    /\ main.at = "flag"
    /\ IF main.store
       THEN writeGlobal' = 1 /\ Goto("open") /\ UNCHANGED reply
       ELSE writeGlobal' = 0 /\ Reply(1)
    /\ UNCHANGED <<on, config_count, globalfile, obj, session,
                   cancelA, cancelS, files, acq, sto, pipe, crashed>>

-----------------------------------------------------------------------------
(* STOP_MSG, in the order of its statements.  The pipe's descriptors are   *)
(* closed after both threads were cancelled, so no thread uses them again. *)
StopMsg ==
    /\ Idle
    /\ \/ /\ on = 1
          /\ on' = 0
          /\ Goto("cancelRead")
          /\ reply' = NoReply
       \/ /\ on = 0
          /\ Reply(0)
          /\ UNCHANGED on
    /\ UNCHANGED <<config_count, writeGlobal, globalfile, obj, session,
                   cancelA, cancelS, files, acq, sto, pipe, crashed>>

StopCancelRead ==
    /\ main.at = "cancelRead"
    /\ cancelA' = [cancelA EXCEPT ![session] = TRUE]
    /\ Goto("cancelWrite")
    /\ UNCHANGED <<globals, reply, cancelS, files, acq, sto, pipe, crashed>>

StopCancelsOnlyRead ==
    /\ main.at = "cancelWrite"
    /\ Goto("forget")
    /\ UNCHANGED <<globals, reply, cancelA, cancelS, files, acq, sto, pipe, crashed>>
StopCancelWrite ==
    /\ main.at = "cancelWrite"
    /\ cancelS' = [cancelS EXCEPT ![session] = TRUE]
    /\ Goto("forget")
    /\ UNCHANGED <<globals, reply, cancelA, files, acq, sto, pipe, crashed>>

StopForget ==
    /\ main.at = "forget"
    /\ config_count' = 0
    /\ Goto("nowrite")
    /\ UNCHANGED <<on, writeGlobal, globalfile, obj, session,
                   reply, cancelA, cancelS, files, acq, sto, pipe, crashed>>

StopKeepsWriting ==
    /\ main.at = "nowrite"
    /\ pipe' = [pipe EXCEPT ![session] = <<>>]
    /\ Reply(1)
    /\ UNCHANGED <<on, config_count, writeGlobal, globalfile, obj, session,
                   cancelA, cancelS, files, acq, sto, crashed>>
StopReply ==
    /\ main.at = "nowrite"
    /\ writeGlobal' = 0
    /\ pipe' = [pipe EXCEPT ![session] = <<>>]
    /\ Reply(1)
    /\ UNCHANGED <<on, config_count, globalfile, obj, session,
                   cancelA, cancelS, files, acq, sto, crashed>>

-----------------------------------------------------------------------------
(* REAL_REQ for object o: answered at once from the object.  The test is    *)
(* off by one: config_count itself is let through.                         *)
RefuseReal(o) == o > config_count

RealReq(o) ==
    /\ Idle
    /\ crashed' = (crashed \/ (~RefuseReal(o) /\ o \notin DOMAIN obj))
    /\ reply' = IF RefuseReal(o) THEN -1
                ELSE IF o \in DOMAIN obj /\ obj[o].rdy = 1 THEN 1 ELSE 2
    /\ UNCHANGED <<globals, main, cancelA, cancelS, files, acq, sto, pipe>>

(* CURR_REQ: the size of the bus file is asked for when one is written.    *)
(* The counters themselves are module BusStats.                            *)
CurrReq ==
    /\ Idle
    /\ crashed' = (crashed \/ (writeGlobal = 1 /\ globalfile < 1))
    /\ Reply(1)
    /\ UNCHANGED <<globals, cancelA, cancelS, files, acq, sto, pipe>>

MainStep ==
    \/ ConfigInit \/ ConfigCount \/ ConfigFlag \/ ConfigOpen \/ ConfigReply
    \/ StartWoFlag
    \/ StopCancelRead \/ StopCancelWrite \/ StopForget \/ StopReply

Request ==
    \/ \E num \in 0 .. MaxBatch, store \in BOOLEAN : ReceiveConfig(num, store)
    \/ StartMsg
    \/ \E needed \in BOOLEAN : StartWoMsg(needed)
    \/ StopMsg
    \/ \E o \in 0 .. ArraySize : RealReq(o)
    \/ CurrReq

-----------------------------------------------------------------------------
(* data_acquisition of session k.                                          *)
AcqGoto(k, label) == acq' = [acq EXCEPT ![k].pc = label, ![k].msg = NoMessage]
AcqEnds(k) == acq' = [acq EXCEPT ![k] = [pc |-> "dead", n |-> 0, msg |-> NoMessage]]
AcqOnly == UNCHANGED <<globals, mainvars, files, sto, crashed>>

(* Channel, timer and input file.  The first pulse comes a second later:   *)
(* the START that created the thread has been replied to by then.          *)
AcqSetup(k) ==
    /\ acq[k].pc = "setup"
    /\ session = k => main.at \notin {"flag", "open"}
    /\ AcqGoto(k, "receive")
    /\ UNCHANGED pipe /\ AcqOnly

(* MsgReceive returns a timer pulse; fread delivers the next message.  At  *)
(* the end of the input the loop goes back to MsgReceive without looking   *)
(* at on.                                                                  *)
AcqReceive(k) ==
    /\ acq[k].pc = "receive" /\ ~cancelA[k]
    /\ \/ /\ acq[k].n < InputLength
          /\ acq' = [acq EXCEPT ![k] = [pc |-> "write", n |-> @.n + 1,
                                        msg |-> [ses |-> k, n |-> @.n + 1]]]
       \/ /\ acq[k].n < InputLength   \* data_check returned -1
          /\ AcqGoto(k, "check")
       \/ /\ acq[k].n = InputLength
          /\ UNCHANGED acq
    /\ UNCHANGED pipe /\ AcqOnly

(* put_monitor_data: write blocks while the pipe is full. *)
WriteUnblocked(k) == pipe' = [pipe EXCEPT ![k] =
    IF Len(@) < PipeCap THEN Append(@, acq[k].msg) ELSE @]
WritePipe(k) ==
    /\ Len(pipe[k]) < PipeCap
    /\ pipe' = [pipe EXCEPT ![k] = Append(@, acq[k].msg)]

AcqWrite(k) ==
    /\ acq[k].pc = "write" /\ ~cancelA[k]
    /\ WritePipe(k)
    /\ AcqGoto(k, "check")
    /\ AcqOnly

AcqCheck(k) ==
    /\ acq[k].pc = "check"
    /\ IF on = 0 THEN AcqEnds(k) ELSE AcqGoto(k, "receive")
    /\ UNCHANGED pipe /\ AcqOnly

AcqCancelled(k) ==
    /\ cancelA[k] /\ acq[k].pc \in {"setup", "receive", "write"}
    /\ AcqEnds(k)
    /\ UNCHANGED pipe /\ AcqOnly

AcqStep(k) ==
    AcqSetup(k) \/ AcqReceive(k) \/ AcqWrite(k) \/ AcqCheck(k) \/ AcqCancelled(k)

-----------------------------------------------------------------------------
(* data_storage of session k: write_monitor_data, then the test of on.     *)
StoGoto(k, label) == sto' = [sto EXCEPT ![k].pc = label]
StoReset(k, label) == sto' = [sto EXCEPT ![k] = [pc |-> label, msg |-> NoMessage, i |-> 0]]
StoOnly == UNCHANGED <<on, config_count, writeGlobal, globalfile, session,
                       mainvars, acq>>

StoRead(k) ==
    /\ sto[k].pc = "read" /\ ~cancelS[k] /\ pipe[k] # <<>>
    /\ sto' = [sto EXCEPT ![k] = [pc |-> "global", msg |-> Head(pipe[k]), i |-> 0]]
    /\ pipe' = [pipe EXCEPT ![k] = Tail(@)]
    /\ UNCHANGED <<obj, files, crashed>> /\ StoOnly

StoGlobal(k) ==
    /\ sto[k].pc = "global"
    /\ StoGoto(k, IF writeGlobal = 1 THEN "fwrite" ELSE "dispatch")
    /\ UNCHANGED <<obj, files, pipe, crashed>> /\ StoOnly

StoFwrite(k) ==
    /\ sto[k].pc = "fwrite"
    /\ \/ /\ globalfile < 1
          /\ crashed' = TRUE
          /\ UNCHANGED <<files, sto>>
       \/ /\ globalfile > 0
          /\ files' = [files EXCEPT ![globalfile] = Append(@, sto[k].msg)]
          /\ StoGoto(k, "dispatch")
          /\ UNCHANGED crashed
    /\ UNCHANGED <<obj, pipe>> /\ StoOnly

(* Proc_Msg of one object; any message may complete a major frame. *)
Feed(i, m) ==
    \E rdy \in {obj[i].rdy, 1} :
        obj' = [obj EXCEPT ![i].fed = Append(@, m), ![i].rdy = rdy]

StoDispatchUntilReady(k) ==
    /\ sto[k].pc = "dispatch"
    /\ \/ /\ sto[k].i < config_count /\ sto[k].i \in DOMAIN obj
          /\ Feed(sto[k].i, sto[k].msg)
          /\ IF obj'[sto[k].i].rdy = 1 THEN StoGoto(k, "check")
             ELSE sto' = [sto EXCEPT ![k].i = @ + 1]
       \/ /\ sto[k].i >= config_count
          /\ StoGoto(k, "check")
          /\ UNCHANGED obj
    /\ UNCHANGED <<files, pipe, crashed>> /\ StoOnly
StoDispatch(k) ==
    /\ sto[k].pc = "dispatch"
    /\ \/ /\ sto[k].i < config_count /\ sto[k].i \in DOMAIN obj
          /\ Feed(sto[k].i, sto[k].msg)
          /\ sto' = [sto EXCEPT ![k].i = @ + 1]
       \/ /\ sto[k].i >= config_count
          /\ StoGoto(k, "check")
          /\ UNCHANGED obj
    /\ UNCHANGED <<files, pipe, crashed>> /\ StoOnly

StoCheckQuitsWhenEmpty(k) ==
    /\ sto[k].pc = "check"
    /\ StoReset(k, IF on = 0 \/ pipe[k] = <<>> THEN "dead" ELSE "read")
    /\ UNCHANGED <<obj, files, pipe, crashed>> /\ StoOnly
StoCheck(k) ==
    /\ sto[k].pc = "check"
    /\ StoReset(k, IF on = 0 THEN "dead" ELSE "read")
    /\ UNCHANGED <<obj, files, pipe, crashed>> /\ StoOnly

(* read is a cancellation point, fwrite to a file may be one. *)
StoCancelled(k) ==
    /\ cancelS[k] /\ sto[k].pc \in {"read", "fwrite", "dispatch"}
    /\ StoReset(k, "dead")
    /\ UNCHANGED <<obj, files, pipe, crashed>> /\ StoOnly

StoStep(k) ==
    StoRead(k) \/ StoGlobal(k) \/ StoFwrite(k) \/ StoDispatch(k) \/ StoCheck(k)
        \/ StoCancelled(k)

-----------------------------------------------------------------------------
Init ==
    /\ on = 0 /\ config_count = 0 /\ writeGlobal = 0 /\ globalfile = 0
    /\ files = <<>>
    /\ obj = [i \in 0 .. ArraySize - 1 |-> [since |-> 0, fed |-> <<>>, rdy |-> 0]]
    /\ session = 0
    /\ main = [at |-> "idle", left |-> 0, store |-> FALSE]
    /\ reply = NoReply
    /\ acq = [k \in Sessions |-> [pc |-> "none", n |-> 0, msg |-> NoMessage]]
    /\ sto = [k \in Sessions |-> [pc |-> "none", msg |-> NoMessage, i |-> 0]]
    /\ cancelA = [k \in Sessions |-> FALSE]
    /\ cancelS = [k \in Sessions |-> FALSE]
    /\ pipe = [k \in Sessions |-> <<>>]
    /\ crashed = FALSE

Next ==
    \/ /\ ~crashed
       /\ \/ Request
          \/ MainStep
          \/ \E k \in Sessions : AcqStep(k) \/ StoStep(k)
    \/ crashed /\ UNCHANGED vars   \* the process is gone

(* main() and the threads run; the 1 ms timer keeps pulsing.               *)
Fairness ==
    /\ WF_vars(~crashed /\ MainStep)
    /\ \A k \in Sessions : /\ WF_vars(~crashed /\ AcqStep(k))
                           /\ WF_vars(~crashed /\ StoStep(k))

Spec == Init /\ [][Next]_vars
FairSpec == Spec /\ Fairness

-----------------------------------------------------------------------------
(* Properties.                                                             *)

TypeOK ==
    /\ on \in {0, 1} /\ writeGlobal \in {0, 1}
    /\ config_count \in 0 .. MaxConfig
    /\ globalfile \in Refused .. Len(files) /\ files \in Seq(Seq(Message))
    /\ obj \in [0 .. ArraySize - 1 ->
                  [since : Nat, fed : Seq(Message), rdy : {0, 1}]]
    /\ session \in 0 .. MaxSession
    /\ main \in [at : {"idle", "init", "count", "flag", "open", "cancelRead",
                       "cancelWrite", "forget", "nowrite"},
                 left : 0 .. MaxBatch, store : BOOLEAN]
    /\ reply \in -1 .. 2
    /\ acq \in [Sessions -> [pc : {"none", "setup", "receive", "write", "check", "dead"},
                             n : 0 .. InputLength, msg : Message \cup {NoMessage}]]
    /\ sto \in [Sessions -> [pc : {"none", "read", "global", "fwrite", "dispatch",
                                   "check", "dead"},
                             msg : Message \cup {NoMessage}, i : 0 .. MaxConfig]]
    /\ cancelA \in [Sessions -> BOOLEAN] /\ cancelS \in [Sessions -> BOOLEAN]
    /\ pipe \in [Sessions -> Seq(Message)]
    /\ crashed \in BOOLEAN

Consecutive(s) ==
    \A j \in 1 .. Len(s) - 1 :
        s[j + 1].ses = s[j].ses /\ s[j + 1].n = s[j].n + 1

(* Between requests the flag tells the truth about the threads: they run   *)
(* when on is 1, and of the sessions before at most a cancelled thread is  *)
(* left.                                                                   *)
OnMeansRunning ==
    /\ Idle /\ on = 1 => acq[session].pc # "dead" /\ sto[session].pc # "dead"
    /\ \A k \in Sessions : Running(k) => k = session \/ (cancelA[k] /\ cancelS[k])

(* The bus messages on their way from the input to the objects. *)
InStorage(k) == IF sto[k].pc \in {"global", "fwrite", "dispatch"} THEN <<sto[k].msg>> ELSE <<>>
InAcquisition(k) == IF acq[k].pc = "write" THEN <<acq[k].msg>> ELSE <<>>
InTransit(k) == InStorage(k) \o pipe[k] \o InAcquisition(k)

(* Until it is stopped a session loses, repeats and reorders nothing: what *)
(* is in transit is exactly the tail of what was read from the bus.        *)
NothingLost ==
    on = 1 => LET t == InTransit(session)
              IN  \A j \in 1 .. Len(t) :
                     t[j] = [ses |-> session, n |-> acq[session].n - Len(t) + j]

(* distriServer.cc:200 "Stopping the two threads": an object registered    *)
(* for one acquisition is never fed a message of another one.              *)
NoStaleFeed ==
    \A i \in DOMAIN obj : \A j \in DOMAIN obj[i].fed : obj[i].fed[j].ses = obj[i].since

(* Registered objects see the same traffic: one that was fed anything is   *)
(* at most the message being dispatched ahead of one registered after it.  *)
ObjectsAgree ==
    on = 1 =>
        \A i, j \in 0 .. config_count - 1 :
            i < j /\ obj[i].fed # <<>> /\ obj[j].fed # <<>> =>
                LET a == obj[i].fed[Len(obj[i].fed)].n
                    b == obj[j].fed[Len(obj[j].fed)].n
                IN  a = b \/ (a = b + 1 /\ sto[session].pc = "dispatch")

(* A bus file is given a gap-free run of messages of one acquisition. *)
BusFileWhole == \A f \in DOMAIN files : Consecutive(files[f])

(* fopen of the bus file is not tested (distriServer.cc:106, 180), and a    *)
(* server that stores dies of the NULL.  It dies of nothing else: no FILE*  *)
(* is used before its fopen or left over from a file not asked for, and no  *)
(* object past configuration[] is touched.                                  *)
OnlyRefusedOpenCrashes == crashed => globalfile = Refused

(* The refinement: from START to STOP the server is the line of messages   *)
(* module Acquisition describes.  Each message of the bus is in the bus    *)
(* file before any package sees it, every package registered is fed all    *)
(* of them in order, none twice, and the server holds no more of them than *)
(* the pipe and one in the hands of each thread.                           *)
Storing == on = 1 /\ (IF main.at = "flag" THEN main.store ELSE writeGlobal = 1)
Taking  == IF on = 1 THEN acq[session].n ELSE 0
Line    == IF on = 1 THEN InTransit(session) ELSE <<>>
BusFile == IF Storing /\ main.at \notin {"flag", "open"} /\ globalfile > 0
           THEN files[globalfile] ELSE <<>>
Seen    == IF on = 1 THEN [i \in 1 .. config_count |-> obj[i - 1].fed] ELSE <<>>

Promise == INSTANCE Acquisition WITH
    Capacity <- PipeCap + 2, MaxPackages <- MaxConfig,
    acquiring <- on = 1, taken <- Taking, line <- Line,
    storing <- Storing, file <- BusFile, seen <- Seen
ImplementsAcquisition == Promise!ASpec

(* Every message that entered the pipe reaches all the objects, unless the *)
(* acquisition is stopped first or the server dies of a refused bus file.  *)
EventuallyDispatched ==
    \A k \in Sessions, n \in 1 .. InputLength :
        (\E j \in DOMAIN pipe[k] : pipe[k][j].n = n)
            ~> (cancelA[k] \/ crashed \/ (sto[k].pc = "check" /\ sto[k].msg.n = n))

=============================================================================
