---------------------------- MODULE ServerProofs ----------------------------
(***************************************************************************)
(* What holds of the server for any pipe, input, number of acquisitions,   *)
(* packages and bus files, and however fast its clients are: first of the  *)
(* threads and what they carry, then of the bus file, of configuration[]   *)
(* and of the registered objects; last, that all of this together is the   *)
(* line of messages of module Acquisition.                                 *)
(***************************************************************************)
EXTENDS Server, TLAPS

Carrying == {"global", "fwrite", "dispatch"}

(* A CONFIG_MSG under way still has room for the packages it brings. *)
Counting ==
    /\ main.at \in {"init", "count"} => config_count + main.left <= MaxConfig
    /\ main.at = "count" => main.left > 0

(* A thread past its read has a message. *)
Carried ==
    \A k \in Sessions :
        /\ acq[k].pc = "write" => acq[k].msg \in Message
        /\ sto[k].pc \in Carrying => sto[k].msg \in Message

Unborn(k) ==
    /\ acq[k].pc = "none" /\ sto[k].pc = "none" /\ pipe[k] = <<>>
    /\ ~cancelA[k] /\ ~cancelS[k]

(* The threads: of the acquisition under way they run, those of the ones   *)
(* before were cancelled, and of the ones to come there are none.          *)
Future == \A k \in Sessions : k > session => Unborn(k)
Past == \A k \in Sessions : k < session => cancelA[k] /\ cancelS[k]
Present ==
    on = 1 =>
        /\ session \in Sessions
        /\ ~cancelA[session] /\ ~cancelS[session]
        /\ acq[session].pc \notin {"none", "dead"} /\ sto[session].pc \notin {"none", "dead"}
        /\ main.at \notin {"cancelRead", "cancelWrite", "forget", "nowrite"}
Stopped ==
    on = 0 /\ session \in Sessions =>
        /\ main.at # "cancelRead" => cancelA[session]
        /\ main.at \notin {"cancelRead", "cancelWrite"} => cancelS[session]
Threads == Future /\ Past /\ Present /\ Stopped

(* Messages put in the pipe so far, and the numbers of those on their way. *)
Written(k) == IF acq[k].pc = "write" THEN acq[k].n - 1 ELSE acq[k].n
Numbered ==
    on = 1 =>
        /\ acq[session].pc = "write" =>
             acq[session].msg = [ses |-> session, n |-> acq[session].n]
        /\ \A j \in 1 .. Len(pipe[session]) :
             pipe[session][j] =
                 [ses |-> session, n |-> Written(session) - Len(pipe[session]) + j]
        /\ sto[session].pc \in Carrying =>
             sto[session].msg =
                 [ses |-> session, n |-> Written(session) - Len(pipe[session])]

(* The parts of TypeOK, by what an action changes together. *)
FlagsTyped ==
    /\ on \in {0, 1} /\ writeGlobal \in {0, 1} /\ crashed \in BOOLEAN
    /\ config_count \in 0 .. MaxConfig /\ session \in 0 .. MaxSession
MainTyped ==
    /\ main \in [at : {"idle", "init", "count", "flag", "open", "cancelRead",
                       "cancelWrite", "forget", "nowrite"},
                 left : 0 .. MaxBatch, store : BOOLEAN]
    /\ reply \in -1 .. 2
FilesTyped == globalfile \in Refused .. Len(files) /\ files \in Seq(Seq(Message))
ObjTyped ==
    obj \in [0 .. ArraySize - 1 -> [since : Nat, fed : Seq(Message), rdy : {0, 1}]]
AcqTyped ==
    acq \in [Sessions -> [pc : {"none", "setup", "receive", "write", "check", "dead"},
                          n : 0 .. InputLength, msg : Message \cup {NoMessage}]]
StoTyped ==
    sto \in [Sessions -> [pc : {"none", "read", "global", "fwrite", "dispatch",
                                "check", "dead"},
                          msg : Message \cup {NoMessage}, i : 0 .. MaxConfig]]
CancelTyped == cancelA \in [Sessions -> BOOLEAN] /\ cancelS \in [Sessions -> BOOLEAN]
PipeTyped == pipe \in [Sessions -> Seq(Message)]
Typed ==
    /\ FlagsTyped /\ MainTyped /\ FilesTyped /\ ObjTyped
    /\ AcqTyped /\ StoTyped /\ CancelTyped /\ PipeTyped

Inductive == Typed /\ Counting /\ Carried /\ Threads /\ Numbered

LEMMA TypedIsTypeOK == Typed <=> TypeOK
  BY DEF Typed, TypeOK, FlagsTyped, MainTyped, FilesTyped, ObjTyped, AcqTyped, StoTyped,
         CancelTyped, PipeTyped

(* What is not changed keeps its type. *)
LEMMA SameTyped ==
    /\ FilesTyped /\ UNCHANGED <<globalfile, files>> => FilesTyped'
    /\ ObjTyped /\ UNCHANGED obj => ObjTyped'
    /\ AcqTyped /\ UNCHANGED acq => AcqTyped'
    /\ StoTyped /\ UNCHANGED sto => StoTyped'
    /\ CancelTyped /\ UNCHANGED <<cancelA, cancelS>> => CancelTyped'
    /\ PipeTyped /\ UNCHANGED pipe => PipeTyped'
    /\ MainTyped /\ UNCHANGED <<main, reply>> => MainTyped'
    /\ FlagsTyped /\ UNCHANGED <<on, writeGlobal, crashed, config_count, session>> => FlagsTyped'
  BY DEF FlagsTyped, MainTyped, FilesTyped, ObjTyped, AcqTyped, StoTyped,
         CancelTyped, PipeTyped

(* The pointer denotes a bus file or one of the two NULLs. *)
LEMMA FilePointer ==
    ASSUME FilesTyped
    PROVE  /\ globalfile \in Int
           /\ globalfile < 1 <=> ~(globalfile > 0)
           /\ globalfile < 1 /\ globalfile # 0 => globalfile = Refused
  BY DEF FilesTyped, Refused

LEMMA InitInductive == Init => Inductive
<1>. SUFFICES ASSUME Init PROVE Inductive
  OBVIOUS
<1>. USE ServerAssumption DEF Init
<1>1. FlagsTyped
  <2>1. crashed \in BOOLEAN
    BY Zenon
  <2>2. on \in {0, 1} /\ writeGlobal \in {0, 1}
    OBVIOUS
  <2>3. config_count \in 0 .. MaxConfig /\ session \in 0 .. MaxSession
    OBVIOUS
  <2>. QED BY Zenon, <2>1, <2>2, <2>3 DEF FlagsTyped
<1>2. CancelTyped
  BY Zenon DEF CancelTyped
<1>3. PipeTyped
  <2>1. <<>> \in Seq(Message)
    OBVIOUS
  <2>. QED BY <2>1 DEF PipeTyped
<1>4. MainTyped /\ FilesTyped /\ ObjTyped
  BY DEF MainTyped, FilesTyped, ObjTyped, NoReply, Refused
<1>5. AcqTyped /\ StoTyped
  BY DEF AcqTyped, StoTyped, NoMessage
<1>6. Counting /\ Carried /\ Numbered
  BY DEF Counting, Carried, Carrying, Numbered
<1>7. Threads
  BY DEF Threads, Future, Past, Present, Stopped, Unborn, Sessions
<1>. QED BY <1>1, <1>2, <1>3, <1>4, <1>5, <1>6, <1>7 DEF Inductive, Typed

-----------------------------------------------------------------------------
(* main(): what each action does to the variables it serves requests with. *)

Labels == {"idle", "init", "count", "flag", "open", "cancelRead", "cancelWrite", "forget",
           "nowrite"}

LEMMA MainSteps ==
    ASSUME MainTyped
    PROVE  /\ \A label \in Labels : Goto(label) =>
                 /\ main' = [at |-> label, left |-> main.left, store |-> main.store]
                 /\ reply' \in -1 .. 2 => MainTyped'
           /\ \A status \in -1 .. 2 : Reply(status) =>
                 /\ main' = [at |-> "idle", left |-> main.left, store |-> FALSE]
                 /\ MainTyped'
<1>1. ASSUME NEW label \in Labels, Goto(label)
      PROVE  /\ main' = [at |-> label, left |-> main.left, store |-> main.store]
             /\ reply' \in -1 .. 2 => MainTyped'
  BY <1>1 DEF MainTyped, Goto, Labels
<1>2. ASSUME NEW status \in -1 .. 2, Reply(status)
      PROVE  /\ main' = [at |-> "idle", left |-> main.left, store |-> FALSE]
             /\ MainTyped'
  <2>1. main' = [at |-> "idle", left |-> main.left, store |-> FALSE] /\ reply' = status
    BY <1>2 DEF MainTyped, Reply
  <2>. QED BY <2>1 DEF MainTyped
<1>. QED BY <1>1, <1>2

LEMMA ConfigType ==
    Typed /\ Counting /\ (ConfigInit \/ ConfigCount \/ ConfigFlag \/ ConfigOpen \/ ConfigReply)
        => Typed' /\ Counting'
<1>. SUFFICES ASSUME Typed, Counting,
                     ConfigInit \/ ConfigCount \/ ConfigFlag \/ ConfigOpen \/ ConfigReply
              PROVE  Typed' /\ Counting'
  OBVIOUS
<1>. USE ServerAssumption, MainSteps DEF Typed, Labels
<1>0. reply \in -1 .. 2
  BY DEF MainTyped
<1>1. CASE ConfigInit
  <2>1. ObjTyped'
    <3>1. Fresh \in [since : Nat, fed : Seq(Message), rdy : {0, 1}]
      BY DEF FlagsTyped, Fresh
    <3>. QED BY <1>1, <3>1 DEF ConfigInit, ObjTyped
  <2>2. FlagsTyped'
    BY <1>1 DEF ConfigInit, FlagsTyped
  <2>3. MainTyped'
    BY <1>0, <1>1 DEF ConfigInit
  <2>4. Counting'
    BY <1>1 DEF ConfigInit, Counting
  <2>. QED BY <1>1, <2>1, <2>2, <2>3, <2>4, SameTyped DEF ConfigInit
<1>2. CASE ConfigCount
  <2>1. main.left \in 1 .. MaxBatch /\ config_count + main.left <= MaxConfig
    BY <1>2 DEF ConfigCount, Counting, MainTyped
  <2>2. main' = [at |-> "init", left |-> main.left - 1, store |-> main.store]
    BY <1>2 DEF ConfigCount, MainTyped
  <2>3. MainTyped'
    BY <1>2, <2>1, <2>2 DEF ConfigCount, MainTyped
  <2>4. Counting'
    BY <1>2, <2>1, <2>2 DEF ConfigCount, Counting, FlagsTyped
  <2>5. FlagsTyped'
    BY <1>2, <2>1 DEF ConfigCount, FlagsTyped
  <2>. QED BY <1>2, <2>3, <2>4, <2>5, SameTyped DEF ConfigCount
<1>3. CASE ConfigFlag
  <2>1. FlagsTyped'
    BY <1>3 DEF ConfigFlag, FlagsTyped
  <2>2. MainTyped'
    BY <1>0, <1>3 DEF ConfigFlag
  <2>3. Counting'
    BY <1>3 DEF ConfigFlag, Counting
  <2>. QED BY <1>3, <2>1, <2>2, <2>3, SameTyped DEF ConfigFlag
<1>4. CASE ConfigOpen
  <2>1. FilesTyped'
    <3>1. CASE files' = Append(files, <<>>) /\ globalfile' = Len(files) + 1
      BY <3>1 DEF FilesTyped, Refused
    <3>2. CASE globalfile' = Refused /\ UNCHANGED files
      <4>1. Refused \in Refused .. Len(files)
        BY DEF FilesTyped, Refused
      <4>. QED BY <3>2, <4>1 DEF FilesTyped
    <3>. QED BY <1>4, <3>1, <3>2 DEF ConfigOpen, OpenFile
  <2>2. MainTyped'
    BY <1>4 DEF ConfigOpen
  <2>3. Counting'
    BY <1>4 DEF ConfigOpen, Counting
  <2>. QED BY <1>4, <2>1, <2>2, <2>3, SameTyped DEF ConfigOpen
<1>5. CASE ConfigReply
  <2>1. MainTyped'
    BY <1>5 DEF ConfigReply
  <2>2. Counting'
    BY <1>5 DEF ConfigReply, Counting
  <2>. QED BY <1>5, <2>1, <2>2, SameTyped DEF ConfigReply, globals
<1>. QED BY <1>1, <1>2, <1>3, <1>4, <1>5

LEMMA LaunchType ==
    Typed /\ Launch /\ session < MaxSession /\ UNCHANGED <<writeGlobal, crashed, config_count>>
        => FlagsTyped' /\ AcqTyped' /\ StoTyped'
<1>. SUFFICES ASSUME Typed, Launch, session < MaxSession,
                     UNCHANGED <<writeGlobal, crashed, config_count>>
              PROVE  FlagsTyped' /\ AcqTyped' /\ StoTyped'
  OBVIOUS
<1>. USE ServerAssumption DEF Typed
<1>1. FlagsTyped' /\ session' \in Sessions
  BY DEF FlagsTyped, Launch, init_monitor_memory, Sessions
<1>2. AcqTyped'
  <2>. DEFINE new == [pc |-> "setup", n |-> 0, msg |-> NoMessage]
  <2>1. new \in [pc : {"none", "setup", "receive", "write", "check", "dead"},
                 n : 0 .. InputLength, msg : Message \cup {NoMessage}]
    OBVIOUS
  <2>2. acq' = [acq EXCEPT ![session'] = new]
    BY DEF Launch, init_monitor_memory
  <2>. QED BY <2>1, <2>2 DEF AcqTyped
<1>3. StoTyped'
  <2>. DEFINE new == [pc |-> "read", msg |-> NoMessage, i |-> 0]
  <2>1. new \in [pc : {"none", "read", "global", "fwrite", "dispatch", "check", "dead"},
                 msg : Message \cup {NoMessage}, i : 0 .. MaxConfig]
    OBVIOUS
  <2>2. sto' = [sto EXCEPT ![session'] = new]
    BY DEF Launch, init_monitor_memory
  <2>. QED BY <2>1, <2>2 DEF StoTyped
<1>. QED BY <1>1, <1>2, <1>3

LEMMA StartType ==
    Typed /\ Counting
      /\ (StartMsg \/ (\E needed \in BOOLEAN : StartWoMsg(needed)) \/ StartWoFlag)
        => Typed' /\ Counting'
<1>. SUFFICES ASSUME Typed, Counting,
                     StartMsg \/ (\E needed \in BOOLEAN : StartWoMsg(needed)) \/ StartWoFlag
              PROVE  Typed' /\ Counting'
  OBVIOUS
<1>. USE ServerAssumption, MainSteps DEF Typed, Labels
<1>1. CASE StartMsg
  <2>1. MainTyped' /\ main'.at = "idle"
    BY <1>1 DEF StartMsg
  <2>2. Counting'
    BY <2>1 DEF Counting
  <2>3. FlagsTyped' /\ AcqTyped' /\ StoTyped'
    BY <1>1, LaunchType, SameTyped DEF StartMsg
  <2>. QED BY <1>1, <2>1, <2>2, <2>3, SameTyped DEF StartMsg
<1>2. ASSUME NEW needed \in BOOLEAN, StartWoMsg(needed) PROVE Typed' /\ Counting'
  <2>1. MainTyped' /\ main'.at \in {"flag", "idle"}
    <3>1. CASE main' = [at |-> "flag", left |-> 0, store |-> needed] /\ reply' = NoReply
      BY <3>1 DEF MainTyped, NoReply
    <3>2. CASE Reply(0)
      BY <3>2
    <3>. QED BY <1>2, <3>1, <3>2 DEF StartWoMsg
  <2>2. Counting'
    BY <2>1 DEF Counting
  <2>3. FlagsTyped' /\ AcqTyped' /\ StoTyped'
    BY <1>2, LaunchType, SameTyped DEF StartWoMsg
  <2>. QED BY <1>2, <2>1, <2>2, <2>3, SameTyped DEF StartWoMsg
<1>3. CASE StartWoFlag
  <2>1. FlagsTyped'
    BY <1>3 DEF StartWoFlag, FlagsTyped
  <2>2. MainTyped' /\ main'.at \in {"open", "idle"}
    <3>1. CASE Goto("open") /\ UNCHANGED reply
      BY <3>1 DEF MainTyped
    <3>2. CASE Reply(1)
      BY <3>2
    <3>. QED BY <1>3, <3>1, <3>2 DEF StartWoFlag
  <2>3. Counting'
    BY <2>2 DEF Counting
  <2>. QED BY <1>3, <2>1, <2>2, <2>3, SameTyped DEF StartWoFlag
<1>. QED BY <1>1, <1>2, <1>3

LEMMA StopType ==
    Typed /\ Counting /\ (StopMsg \/ StopCancelRead \/ StopCancelWrite \/ StopForget \/ StopReply)
        => Typed' /\ Counting'
<1>. SUFFICES ASSUME Typed, Counting,
                     StopMsg \/ StopCancelRead \/ StopCancelWrite \/ StopForget \/ StopReply
              PROVE  Typed' /\ Counting'
  OBVIOUS
<1>. USE ServerAssumption, MainSteps DEF Typed, Labels
<1>0. reply \in -1 .. 2 /\ NoReply \in -1 .. 2
  BY DEF MainTyped, NoReply
<1>1. MainTyped' /\ main'.at \notin {"init", "count"}
  BY <1>0 DEF StopMsg, StopCancelRead, StopCancelWrite, StopForget, StopReply
<1>2. Counting'
  BY <1>1 DEF Counting
<1>3. FlagsTyped'
  BY DEF StopMsg, StopCancelRead, StopCancelWrite, StopForget, StopReply, FlagsTyped, globals
<1>4. CancelTyped'
  BY DEF StopMsg, StopCancelRead, StopCancelWrite, StopForget, StopReply, CancelTyped
<1>5. PipeTyped'
  <2>1. <<>> \in Seq(Message)
    OBVIOUS
  <2>. QED BY <2>1 DEF StopMsg, StopCancelRead, StopCancelWrite, StopForget, StopReply, PipeTyped
<1>6. UNCHANGED <<globalfile, files, obj, acq, sto>>
  BY DEF StopMsg, StopCancelRead, StopCancelWrite, StopForget, StopReply, globals
<1>. QED BY <1>1, <1>2, <1>3, <1>4, <1>5, <1>6, SameTyped

LEMMA RequestType ==
    Typed /\ Counting
      /\ ((\E num \in 0 .. MaxBatch, store \in BOOLEAN : ReceiveConfig(num, store))
            \/ (\E o \in 0 .. ArraySize : RealReq(o)) \/ CurrReq)
        => Typed' /\ Counting'
<1>. SUFFICES ASSUME Typed, Counting
              PROVE  /\ \A num \in 0 .. MaxBatch, store \in BOOLEAN :
                          ReceiveConfig(num, store) => Typed' /\ Counting'
                     /\ \A o \in 0 .. ArraySize : RealReq(o) => Typed' /\ Counting'
                     /\ CurrReq => Typed' /\ Counting'
  OBVIOUS
<1>. USE ServerAssumption DEF Typed
<1>1. ASSUME NEW num \in 0 .. MaxBatch, NEW store \in BOOLEAN, ReceiveConfig(num, store)
      PROVE  Typed' /\ Counting'
  <2>1. MainTyped'
    BY <1>1 DEF ReceiveConfig, MainTyped, NoReply
  <2>2. Counting'
    BY <1>1 DEF ReceiveConfig, Counting, globals
  <2>. QED BY <1>1, <2>1, <2>2, SameTyped DEF ReceiveConfig, globals
<1>2. ASSUME NEW o \in 0 .. ArraySize, RealReq(o) PROVE Typed' /\ Counting'
  <2>1. FlagsTyped'
    BY <1>2 DEF RealReq, FlagsTyped, globals
  <2>2. MainTyped'
    BY <1>2 DEF RealReq, MainTyped
  <2>3. Counting'
    BY <1>2 DEF RealReq, Counting, globals
  <2>. QED BY <1>2, <2>1, <2>2, <2>3, SameTyped DEF RealReq, globals
<1>3. CASE CurrReq
  <2>1. FlagsTyped'
    BY <1>3 DEF CurrReq, FlagsTyped, globals
  <2>2. MainTyped' /\ main'.at = "idle"
    BY <1>3, MainSteps DEF CurrReq
  <2>3. Counting'
    BY <2>2 DEF Counting
  <2>. QED BY <1>3, <2>1, <2>2, <2>3, SameTyped DEF CurrReq, globals
<1>. QED BY <1>1, <1>2, <1>3

-----------------------------------------------------------------------------
(* main() and the threads: most requests leave them alone.                 *)

LEMMA SameThreads ==
    ASSUME Typed, Carried, Threads, Numbered,
           UNCHANGED <<on, session, acq, sto, pipe, cancelA, cancelS>>,
           main.at \notin {"cancelRead", "cancelWrite"},
           main'.at \notin {"cancelRead", "cancelWrite"},
           on = 1 => main'.at \notin {"forget", "nowrite"}
    PROVE  Carried' /\ Threads' /\ Numbered'
<1>1. Carried'
  BY DEF Carried
<1>2. Future' /\ Past'
  BY DEF Threads, Future, Past, Unborn
<1>3. Present' /\ Stopped'
  BY DEF Threads, Present, Stopped
<1>4. Numbered'
  BY DEF Numbered, Written
<1>. QED BY <1>1, <1>2, <1>3, <1>4 DEF Threads

LEMMA LaunchThreads ==
    ASSUME Typed, Carried, Threads, Launch, on = 0, session < MaxSession, Idle,
           UNCHANGED <<pipe, cancelA, cancelS>>, main'.at \in {"idle", "flag"}
    PROVE  Carried' /\ Threads' /\ Numbered'
<1>1. /\ session \in Nat /\ session' = session + 1 /\ session' \in Sessions /\ on' = 1
  BY ServerAssumption DEF Typed, FlagsTyped, Launch, init_monitor_memory, Sessions
<1>2. /\ acq' = [acq EXCEPT ![session'] = [pc |-> "setup", n |-> 0, msg |-> NoMessage]]
      /\ sto' = [sto EXCEPT ![session'] = [pc |-> "read", msg |-> NoMessage, i |-> 0]]
  BY DEF Launch, init_monitor_memory
<1>3. /\ acq'[session'] = [pc |-> "setup", n |-> 0, msg |-> NoMessage]
      /\ sto'[session'] = [pc |-> "read", msg |-> NoMessage, i |-> 0]
      /\ \A k \in Sessions : k # session' => acq'[k] = acq[k] /\ sto'[k] = sto[k]
  BY <1>1, <1>2 DEF Typed, AcqTyped, StoTyped
<1>4. Unborn(session')
  BY <1>1 DEF Threads, Future
<1>5. Carried'
  BY <1>3 DEF Carried, Carrying
<1>6. Future'
  <2>. SUFFICES ASSUME NEW k \in Sessions, k > session' PROVE Unborn(k)'
    BY DEF Future
  <2>1. Unborn(k)
    BY <1>1 DEF Threads, Future, Sessions
  <2>. QED BY <1>1, <1>3, <2>1 DEF Unborn, Sessions
<1>7. Past'
  <2>. SUFFICES ASSUME NEW k \in Sessions, k < session' PROVE cancelA[k] /\ cancelS[k]
    BY DEF Past
  <2>1. k < session \/ k = session
    BY <1>1 DEF Sessions
  <2>2. CASE k < session
    BY <2>2 DEF Threads, Past
  <2>3. CASE k = session
    BY <2>3 DEF Threads, Stopped, Idle
  <2>. QED BY <2>1, <2>2, <2>3
<1>8. Present' /\ Stopped'
  <2>1. ~cancelA'[session'] /\ ~cancelS'[session']
    BY <1>4 DEF Unborn
  <2>. QED BY <1>1, <1>3, <2>1 DEF Present, Stopped
<1>9. Numbered'
  <2>1. pipe'[session'] = <<>>
    BY <1>4 DEF Unborn
  <2>. QED BY <1>1, <1>3, <2>1 DEF Numbered, Carrying
<1>. QED BY <1>5, <1>6, <1>7, <1>8, <1>9 DEF Threads

LEMMA StopThreads ==
    ASSUME Typed, Carried, Threads, Numbered,
           StopMsg \/ StopCancelRead \/ StopCancelWrite \/ StopForget \/ StopReply
    PROVE  Carried' /\ Threads' /\ Numbered'
<1>0. MainTyped /\ on \in {0, 1} /\ session \in Nat /\ CancelTyped /\ PipeTyped
  BY ServerAssumption DEF Typed, FlagsTyped
<1>1. CASE StopMsg
  <2>1. CASE on = 1 /\ on' = 0 /\ main'.at = "cancelRead"
    <3>1. UNCHANGED <<session, acq, sto, pipe, cancelA, cancelS>>
      BY <1>1 DEF StopMsg
    <3>. QED BY <2>1, <3>1 DEF Threads, Future, Past, Present, Stopped, Unborn, Carried, Numbered
  <2>2. CASE on' = on /\ main'.at = "idle"
    <3>1. UNCHANGED <<session, acq, sto, pipe, cancelA, cancelS>>
      BY <1>1 DEF StopMsg
    <3>. QED BY <1>1, <2>2, <3>1, SameThreads DEF StopMsg, Idle
  <2>. QED BY <1>0, <1>1, <2>1, <2>2, MainSteps DEF StopMsg, Labels
<1>2. CASE StopCancelRead
  <2>1. /\ UNCHANGED <<on, session, acq, sto, pipe, cancelS>> /\ main'.at = "cancelWrite"
        /\ on = 0
        /\ cancelA' = [cancelA EXCEPT ![session] = TRUE]
    BY <1>0, <1>2, MainSteps DEF StopCancelRead, Labels, globals, Threads, Present
  <2>2. /\ session \in Sessions => cancelA'[session]
        /\ \A k \in Sessions : k # session => (cancelA'[k] <=> cancelA[k])
    BY <1>0, <2>1 DEF CancelTyped
  <2>3. Carried' /\ Numbered'
    BY <2>1 DEF Carried, Numbered
  <2>4. Future' /\ Past'
    BY <1>0, <2>1, <2>2 DEF Threads, Future, Past, Unborn, Sessions
  <2>5. Present' /\ Stopped'
    BY <2>1, <2>2 DEF Present, Stopped
  <2>. QED BY <2>3, <2>4, <2>5 DEF Threads
<1>3. CASE StopCancelWrite
  <2>1. /\ UNCHANGED <<on, session, acq, sto, pipe, cancelA>> /\ main'.at = "forget"
        /\ on = 0
        /\ cancelS' = [cancelS EXCEPT ![session] = TRUE]
    BY <1>0, <1>3, MainSteps DEF StopCancelWrite, Labels, globals, Threads, Present
  <2>2. /\ session \in Sessions => cancelS'[session] /\ cancelA[session]
        /\ \A k \in Sessions : k # session => (cancelS'[k] <=> cancelS[k])
    BY <1>0, <1>3, <2>1 DEF CancelTyped, Threads, Stopped, StopCancelWrite
  <2>3. Carried' /\ Numbered'
    BY <2>1 DEF Carried, Numbered
  <2>4. Future' /\ Past'
    BY <1>0, <2>1, <2>2 DEF Threads, Future, Past, Unborn, Sessions
  <2>5. Present' /\ Stopped'
    BY <2>1, <2>2 DEF Present, Stopped
  <2>. QED BY <2>3, <2>4, <2>5 DEF Threads
<1>4. CASE StopForget
  <2>1. on = 0 /\ main'.at = "nowrite"
    BY <1>0, <1>4, MainSteps DEF StopForget, Labels, Threads, Present
  <2>. QED BY <1>4, <2>1, SameThreads DEF StopForget
<1>5. CASE StopReply
  <2>1. /\ UNCHANGED <<on, session, acq, sto, cancelA, cancelS>> /\ main'.at = "idle"
        /\ on = 0
        /\ pipe' = [pipe EXCEPT ![session] = <<>>]
    BY <1>0, <1>5, MainSteps DEF StopReply, Threads, Present
  <2>2. Future' /\ Past'
    BY <1>0, <2>1 DEF PipeTyped, Threads, Future, Past, Unborn, Sessions
  <2>3. Present' /\ Stopped'
    BY <1>5, <2>1 DEF Threads, Present, Stopped, StopReply
  <2>. QED BY <2>1, <2>2, <2>3 DEF Threads, Carried, Numbered
<1>. QED BY <1>1, <1>2, <1>3, <1>4, <1>5

LEMMA MainThreads ==
    ASSUME Typed, Carried, Threads, Numbered, Request \/ MainStep
    PROVE  Carried' /\ Threads' /\ Numbered'
<1>0. MainTyped
  BY DEF Typed
<1>. USE MainSteps DEF Labels
<1>1. CASE ConfigInit \/ ConfigCount \/ ConfigFlag \/ ConfigOpen \/ ConfigReply \/ StartWoFlag
  <2>1. UNCHANGED <<on, session, acq, sto, pipe, cancelA, cancelS>>
    BY <1>1 DEF ConfigInit, ConfigCount, ConfigFlag, ConfigOpen, ConfigReply, StartWoFlag, globals
  <2>2. main.at \in {"init", "count", "open", "flag"}
    BY <1>1 DEF ConfigInit, ConfigCount, ConfigFlag, ConfigOpen, ConfigReply, StartWoFlag
  <2>3. main'.at \in {"init", "count", "open", "idle"}
    <3>1. ConfigCount => main'.at = "init"
      BY <1>0 DEF ConfigCount, MainTyped
    <3>. QED BY <1>0, <1>1, <3>1
           DEF ConfigInit, ConfigFlag, ConfigOpen, ConfigReply, StartWoFlag
  <2>. QED BY <2>1, <2>2, <2>3, SameThreads
<1>2. CASE (\E num \in 0 .. MaxBatch, store \in BOOLEAN : ReceiveConfig(num, store))
           \/ (\E o \in 0 .. ArraySize : RealReq(o)) \/ CurrReq
  <2>1. UNCHANGED <<on, session, acq, sto, pipe, cancelA, cancelS>> /\ main.at = "idle"
    BY <1>2 DEF ReceiveConfig, RealReq, CurrReq, globals, Idle
  <2>2. main'.at \in {"idle", "init"}
    BY <1>0, <1>2 DEF ReceiveConfig, RealReq, CurrReq, Idle
  <2>. QED BY <2>1, <2>2, SameThreads
<1>3. CASE StartMsg \/ (\E needed \in BOOLEAN : StartWoMsg(needed))
  <2>1. UNCHANGED <<pipe, cancelA, cancelS>> /\ Idle /\ main'.at \in {"idle", "flag"}
    BY <1>0, <1>3 DEF StartMsg, StartWoMsg
  <2>2. \/ Launch /\ on = 0 /\ session < MaxSession
        \/ UNCHANGED <<on, session, acq, sto>>
    BY <1>3 DEF StartMsg, StartWoMsg
  <2>. QED BY <2>1, <2>2, SameThreads, LaunchThreads DEF Idle
<1>4. CASE StopMsg \/ StopCancelRead \/ StopCancelWrite \/ StopForget \/ StopReply
  BY <1>4, StopThreads
<1>. QED BY <1>1, <1>2, <1>3, <1>4 DEF Request, MainStep

-----------------------------------------------------------------------------
(* data_acquisition.                                                       *)

(* What a step of the thread leaves behind: a new place, with the message   *)
(* read, written to the pipe or given up.                                  *)
AcqAt(k, label, n, m) == acq' = [acq EXCEPT ![k] = [pc |-> label, n |-> n, msg |-> m]]
AcqMoves(k) ==
    /\ acq[k].pc \in {"setup", "receive"} \/ (acq[k].pc = "check" /\ on # 0)
    /\ \E label \in {"receive", "check"} : AcqAt(k, label, acq[k].n, NoMessage)
    /\ UNCHANGED pipe
AcqReads(k) ==
    /\ acq[k].pc = "receive" /\ acq[k].n < InputLength
    /\ AcqAt(k, "write", acq[k].n + 1, [ses |-> k, n |-> acq[k].n + 1])
    /\ UNCHANGED pipe
AcqWrites(k) ==
    /\ acq[k].pc = "write" /\ ~cancelA[k]
    /\ AcqAt(k, "check", acq[k].n, NoMessage)
    /\ pipe' = [pipe EXCEPT ![k] = Append(@, acq[k].msg)]
AcqDies(k) ==
    /\ (acq[k].pc = "check" /\ on = 0) \/ cancelA[k]
    /\ AcqAt(k, "dead", 0, NoMessage)
    /\ UNCHANGED pipe

LEMMA AcqKinds ==
    ASSUME Typed, NEW k \in Sessions, AcqStep(k)
    PROVE  /\ AcqMoves(k) \/ AcqReads(k) \/ AcqWrites(k) \/ AcqDies(k) \/ UNCHANGED <<acq, pipe>>
           /\ AcqOnly
<1>0. AcqTyped
  BY DEF Typed
<1>1. \A label : AcqGoto(k, label) => AcqAt(k, label, acq[k].n, NoMessage)
  BY <1>0 DEF AcqTyped, AcqGoto, AcqAt
<1>2. CASE AcqSetup(k)
  BY <1>1, <1>2 DEF AcqSetup, AcqMoves
<1>3. CASE AcqReceive(k)
  <2>1. CASE acq[k].n < InputLength
             /\ acq' = [acq EXCEPT ![k] = [pc |-> "write", n |-> @.n + 1,
                                           msg |-> [ses |-> k, n |-> @.n + 1]]]
    BY <1>0, <1>3, <2>1 DEF AcqReceive, AcqReads, AcqAt, AcqTyped
  <2>2. CASE AcqGoto(k, "check")
    BY <1>1, <1>3, <2>2 DEF AcqReceive, AcqMoves
  <2>3. CASE UNCHANGED acq
    BY <1>3, <2>3 DEF AcqReceive
  <2>. QED BY <1>3, <2>1, <2>2, <2>3 DEF AcqReceive
<1>4. CASE AcqWrite(k)
  BY <1>1, <1>4 DEF AcqWrite, AcqWrites, WritePipe
<1>5. CASE AcqCheck(k)
  BY <1>1, <1>5 DEF AcqCheck, AcqMoves, AcqDies, AcqEnds, AcqAt
<1>6. CASE AcqCancelled(k)
  BY <1>6 DEF AcqCancelled, AcqDies, AcqEnds, AcqAt
<1>7. AcqOnly
  BY DEF AcqStep, AcqSetup, AcqReceive, AcqWrite, AcqCheck, AcqCancelled
<1>. QED BY <1>2, <1>3, <1>4, <1>5, <1>6, <1>7 DEF AcqStep

LEMMA AcqType ==
    ASSUME Typed, Counting, Carried, NEW k \in Sessions, AcqStep(k)
    PROVE  Typed' /\ Counting'
<1>0. AcqTyped /\ PipeTyped
  BY DEF Typed
<1>1. ASSUME NEW label \in {"receive", "check", "write", "dead"}, NEW n \in 0 .. InputLength,
             NEW m \in Message \cup {NoMessage}, AcqAt(k, label, n, m)
      PROVE  AcqTyped'
  <2>. DEFINE new == [pc |-> label, n |-> n, msg |-> m]
  <2>1. new \in [pc : {"none", "setup", "receive", "write", "check", "dead"},
                 n : 0 .. InputLength, msg : Message \cup {NoMessage}]
    OBVIOUS
  <2>2. acq' = [acq EXCEPT ![k] = new]
    BY <1>1 DEF AcqAt
  <2>. QED BY <1>0, <2>1, <2>2 DEF AcqTyped
<1>2. acq[k].n \in 0 .. InputLength /\ InputLength \in Nat /\ 0 \in 0 .. InputLength
  BY <1>0, ServerAssumption DEF AcqTyped
<1>3. AcqTyped' /\ PipeTyped'
  <2>1. CASE AcqMoves(k)
    BY <1>0, <1>1, <1>2, <2>1, SameTyped DEF AcqMoves
  <2>2. CASE AcqReads(k)
    <3>1. acq[k].n + 1 \in 0 .. InputLength
          /\ [ses |-> k, n |-> acq[k].n + 1] \in Message
      BY <1>2, <2>2 DEF AcqReads, Message
    <3>. QED BY <1>0, <1>1, <2>2, <3>1, SameTyped DEF AcqReads
  <2>3. CASE AcqWrites(k)
    <3>1. AcqTyped'
      BY <1>1, <1>2, <2>3 DEF AcqWrites
    <3>2. PipeTyped'
      BY <1>0, <2>3 DEF AcqWrites, PipeTyped, Carried
    <3>. QED BY <3>1, <3>2
  <2>4. CASE AcqDies(k)
    BY <1>0, <1>1, <1>2, <2>4, SameTyped DEF AcqDies
  <2>. QED BY <1>0, <2>1, <2>2, <2>3, <2>4, AcqKinds, SameTyped
<1>4. UNCHANGED <<globals, mainvars, files, sto, crashed>>
  BY AcqKinds DEF AcqOnly
<1>5. Counting'
  BY <1>4 DEF Counting, globals, mainvars
<1>. QED BY <1>3, <1>4, <1>5, SameTyped DEF Typed, globals, mainvars

LEMMA AcqThreads ==
    ASSUME Typed, Carried, Threads, Numbered, NEW k \in Sessions, AcqStep(k)
    PROVE  Carried' /\ Threads' /\ Numbered'
<1>0. /\ AcqTyped /\ PipeTyped /\ session \in Nat /\ k \in Nat /\ InputLength \in Nat
      /\ on \in {0, 1} /\ acq[k].n \in 0 .. InputLength
  BY ServerAssumption DEF Typed, FlagsTyped, Sessions, AcqTyped
<1>1. UNCHANGED <<on, session, sto, cancelA, cancelS, main>>
  BY AcqKinds DEF AcqOnly, globals, mainvars
<1>2. AcqMoves(k) \/ AcqReads(k) \/ AcqWrites(k) \/ AcqDies(k) \/ UNCHANGED <<acq, pipe>>
  BY AcqKinds
<1>3. CASE UNCHANGED <<acq, pipe>>
  BY <1>1, <1>3 DEF Carried, Threads, Future, Past, Present, Stopped, Unborn, Numbered, Written
<1>4. ASSUME AcqMoves(k) \/ AcqReads(k) \/ AcqWrites(k) \/ AcqDies(k)
      PROVE  k <= session /\ (k # session \/ on = 0 \/ ~AcqDies(k))
  <2>1. acq[k].pc # "none" \/ cancelA[k]
    BY <1>4 DEF AcqMoves, AcqReads, AcqWrites, AcqDies
  <2>. QED BY <1>0, <2>1 DEF Threads, Future, Unborn, Present, AcqDies
<1>5. ASSUME AcqMoves(k) \/ AcqReads(k) \/ AcqWrites(k) \/ AcqDies(k)
      PROVE  /\ \A i \in Sessions : i # k => acq'[i] = acq[i] /\ pipe'[i] = pipe[i]
             /\ AcqDies(k) \/ acq'[k].pc \in {"receive", "check", "write"}
             /\ acq'[k].pc = "write" => AcqReads(k)
  BY <1>0, <1>5 DEF AcqMoves, AcqReads, AcqWrites, AcqDies, AcqAt, AcqTyped, PipeTyped
<1>6. ASSUME AcqReads(k) PROVE acq'[k].msg = [ses |-> k, n |-> acq[k].n + 1] /\ acq'[k].msg \in Message
  BY <1>0, <1>6 DEF AcqReads, AcqAt, AcqTyped, Message
<1>7. ASSUME AcqMoves(k) \/ AcqReads(k) \/ AcqWrites(k) \/ AcqDies(k)
      PROVE  Carried' /\ Threads' /\ Numbered'
  <2>1. Carried'
    BY <1>1, <1>5, <1>6, <1>7 DEF Carried
  <2>2. Future' /\ Past' /\ Stopped'
    BY <1>0, <1>1, <1>4, <1>5, <1>7 DEF Threads, Future, Past, Stopped, Unborn, Sessions
  <2>3. Present'
    BY <1>1, <1>4, <1>5, <1>7 DEF Threads, Present
  <2>4. Numbered'
    <3>1. CASE on # 1 \/ k # session
      BY <1>1, <1>5, <1>7, <3>1 DEF Numbered, Written, Threads, Present
    <3>2. CASE on = 1 /\ k = session /\ AcqMoves(k)
      BY <1>0, <1>1, <3>2 DEF Numbered, Written, AcqMoves, AcqAt, AcqTyped
    <3>3. CASE on = 1 /\ k = session /\ AcqReads(k)
      BY <1>0, <1>1, <3>3 DEF Numbered, Written, AcqReads, AcqAt, AcqTyped
    <3>4. CASE on = 1 /\ k = session /\ AcqWrites(k)
      <4>1. /\ pipe'[k] = Append(pipe[k], acq[k].msg)
            /\ Len(pipe'[k]) = Len(pipe[k]) + 1 /\ Len(pipe[k]) \in Nat
            /\ acq'[k].pc = "check" /\ acq'[k].n = acq[k].n
        BY <1>0, <3>4 DEF AcqWrites, AcqAt, AcqTyped, PipeTyped, Carried
      <4>2. Written(k) = acq[k].n - 1 /\ Written(k)' = acq[k].n
        BY <3>4, <4>1 DEF Written, AcqWrites
      <4>3. acq[k].msg = [ses |-> k, n |-> acq[k].n] /\ acq[k].msg \in Message
        BY <3>4 DEF Numbered, AcqWrites, Carried
      <4>4. ASSUME NEW j \in 1 .. Len(pipe'[k])
            PROVE  pipe'[k][j] = [ses |-> k, n |-> Written(k)' - Len(pipe'[k]) + j]
        <5>1. CASE j = Len(pipe[k]) + 1
          <6>1. pipe'[k][j] = acq[k].msg
            BY <1>0, <4>1, <4>3, <5>1 DEF PipeTyped
          <6>. QED BY <1>0, <4>1, <4>2, <4>3, <5>1, <6>1
        <5>2. CASE j \in 1 .. Len(pipe[k])
          <6>1. pipe'[k][j] = pipe[k][j]
            BY <1>0, <4>1, <4>3, <5>2 DEF PipeTyped
          <6>2. pipe[k][j] = [ses |-> k, n |-> Written(k) - Len(pipe[k]) + j]
            BY <3>4, <5>2 DEF Numbered
          <6>. QED BY <1>0, <4>1, <4>2, <5>2, <6>1, <6>2
        <5>. QED BY <4>1, <5>1, <5>2
      <4>5. sto[k].pc \in Carrying => sto[k].msg = [ses |-> k, n |-> Written(k)' - Len(pipe'[k])]
        <5>1. Written(k)' - Len(pipe'[k]) = Written(k) - Len(pipe[k])
          BY <1>0, <4>1, <4>2
        <5>. QED BY <3>4, <5>1 DEF Numbered
      <4>. QED BY <1>1, <3>4, <4>1, <4>4, <4>5 DEF Numbered
    <3>. QED BY <1>4, <1>7, <3>1, <3>2, <3>3, <3>4
  <2>. QED BY <2>1, <2>2, <2>3, <2>4 DEF Threads
<1>. QED BY <1>2, <1>3, <1>7

-----------------------------------------------------------------------------
(* data_storage.                                                           *)

StoAt(k, label, m, i) == sto' = [sto EXCEPT ![k] = [pc |-> label, msg |-> m, i |-> i]]
StoReads(k) ==
    /\ sto[k].pc = "read" /\ ~cancelS[k] /\ pipe[k] # <<>>
    /\ StoAt(k, "global", Head(pipe[k]), 0)
    /\ pipe' = [pipe EXCEPT ![k] = Tail(@)]
StoMoves(k) ==
    /\ sto[k].pc \in Carrying
    /\ \E label \in Carrying \cup {"check"}, i \in 0 .. MaxConfig : StoAt(k, label, sto[k].msg, i)
    /\ UNCHANGED pipe
StoTurns(k) ==
    /\ sto[k].pc = "check" /\ on # 0
    /\ StoAt(k, "read", NoMessage, 0)
    /\ UNCHANGED pipe
StoDies(k) ==
    /\ (sto[k].pc = "check" /\ on = 0) \/ cancelS[k]
    /\ StoAt(k, "dead", NoMessage, 0)
    /\ UNCHANGED pipe

LEMMA StoKinds ==
    ASSUME Typed, NEW k \in Sessions, StoStep(k)
    PROVE  /\ StoReads(k) \/ StoMoves(k) \/ StoTurns(k) \/ StoDies(k)
           /\ StoOnly
<1>0. StoTyped /\ config_count \in 0 .. MaxConfig /\ MaxConfig \in Nat
      /\ sto[k].i \in 0 .. MaxConfig
  BY ServerAssumption DEF Typed, FlagsTyped, StoTyped
<1>1. \A label : StoGoto(k, label) => StoAt(k, label, sto[k].msg, sto[k].i)
  BY <1>0 DEF StoTyped, StoGoto, StoAt
<1>2. \A label : StoReset(k, label) => StoAt(k, label, NoMessage, 0)
  BY DEF StoReset, StoAt
<1>3. CASE StoRead(k)
  BY <1>3 DEF StoRead, StoReads, StoAt
<1>4. CASE StoGlobal(k)
  BY <1>0, <1>1, <1>4 DEF StoGlobal, StoMoves, Carrying
<1>5. CASE StoFwrite(k)
  <2>1. CASE UNCHANGED sto
    <3>1. sto[k] = [pc |-> "fwrite", msg |-> sto[k].msg, i |-> sto[k].i]
      BY <1>0, <1>5 DEF StoFwrite, StoTyped
    <3>2. StoAt(k, "fwrite", sto[k].msg, sto[k].i)
      BY <1>0, <2>1, <3>1 DEF StoAt, StoTyped
    <3>. QED BY <1>0, <1>5, <3>2 DEF StoFwrite, StoMoves, Carrying
  <2>2. CASE StoGoto(k, "dispatch")
    BY <1>0, <1>1, <1>5, <2>2 DEF StoFwrite, StoMoves, Carrying
  <2>. QED BY <1>5, <2>1, <2>2 DEF StoFwrite
<1>6. CASE StoDispatch(k)
  <2>1. CASE sto[k].i < config_count /\ sto' = [sto EXCEPT ![k].i = @ + 1]
    <3>1. sto[k].i + 1 \in 0 .. MaxConfig
      BY <1>0, <2>1
    <3>2. sto[k].pc = "dispatch"
      BY <1>6 DEF StoDispatch
    <3>3. StoAt(k, "dispatch", sto[k].msg, sto[k].i + 1)
      <4>1. sto[k] = [pc |-> "dispatch", msg |-> sto[k].msg, i |-> sto[k].i]
        BY <1>0, <3>2 DEF StoTyped
      <4>2. sto'[k] = [pc |-> "dispatch", msg |-> sto[k].msg, i |-> sto[k].i + 1]
        BY <1>0, <2>1, <4>1 DEF StoTyped
      <4>3. sto' = [sto EXCEPT ![k] = sto'[k]]
        BY <1>0, <2>1 DEF StoTyped
      <4>. QED BY <4>2, <4>3 DEF StoAt
    <3>. QED BY <1>6, <3>1, <3>2, <3>3 DEF StoDispatch, StoMoves, Carrying
  <2>2. CASE StoGoto(k, "check")
    BY <1>0, <1>1, <1>6, <2>2 DEF StoDispatch, StoMoves, Carrying
  <2>. QED BY <1>6, <2>1, <2>2 DEF StoDispatch
<1>7. CASE StoCheck(k)
  BY <1>2, <1>7 DEF StoCheck, StoTurns, StoDies
<1>8. CASE StoCancelled(k)
  BY <1>2, <1>8 DEF StoCancelled, StoDies
<1>9. StoOnly
  BY DEF StoStep, StoRead, StoGlobal, StoFwrite, StoDispatch, StoCheck, StoCancelled
<1>. QED BY <1>3, <1>4, <1>5, <1>6, <1>7, <1>8, <1>9 DEF StoStep

LEMMA StoData ==
    ASSUME Typed, Carried, NEW k \in Sessions, StoStep(k)
    PROVE  ObjTyped' /\ FilesTyped' /\ crashed' \in BOOLEAN
<1>0. ObjTyped /\ FilesTyped /\ crashed \in BOOLEAN
  BY DEF Typed, FlagsTyped
<1>1. CASE StoFwrite(k)
  <2>1. ObjTyped' /\ crashed' \in BOOLEAN /\ UNCHANGED globalfile
    BY <1>0, <1>1, SameTyped DEF StoFwrite, StoOnly
  <2>2. CASE UNCHANGED files
    BY <1>0, <2>1, <2>2, SameTyped
  <2>3. CASE globalfile > 0
             /\ files' = [files EXCEPT ![globalfile] = Append(@, sto[k].msg)]
    <3>1. globalfile \in 1 .. Len(files) /\ files \in Seq(Seq(Message))
      BY <1>0, <2>3 DEF FilesTyped
    <3>2. Append(files[globalfile], sto[k].msg) \in Seq(Message)
      BY <1>1, <3>1 DEF Carried, Carrying, StoFwrite
    <3>3. files' \in Seq(Seq(Message)) /\ Len(files') = Len(files)
      BY <2>3, <3>1, <3>2
    <3>. QED BY <1>0, <2>1, <3>3 DEF FilesTyped
  <2>. QED BY <1>1, <2>1, <2>2, <2>3 DEF StoFwrite
<1>2. CASE StoDispatch(k)
  <2>1. ASSUME NEW i \in DOMAIN obj, NEW m \in Message, Feed(i, m) PROVE ObjTyped'
    <3>1. PICK rdy \in {obj[i].rdy, 1} :
              obj' = [obj EXCEPT ![i].fed = Append(@, m), ![i].rdy = rdy]
      BY <2>1 DEF Feed
    <3>2. /\ i \in 0 .. ArraySize - 1 /\ rdy \in {0, 1}
          /\ obj[i].fed \in Seq(Message) /\ Append(obj[i].fed, m) \in Seq(Message)
      BY <1>0, <3>1 DEF ObjTyped
    <3>. QED BY <1>0, <3>1, <3>2 DEF ObjTyped
  <2>2. sto[k].msg \in Message
    BY <1>2 DEF StoDispatch, Carried, Carrying
  <2>3. ObjTyped'
    BY <1>0, <1>2, <2>1, <2>2, SameTyped DEF StoDispatch
  <2>. QED BY <1>0, <1>2, <2>3, SameTyped DEF StoDispatch, StoOnly
<1>3. CASE StoRead(k) \/ StoGlobal(k) \/ StoCheck(k) \/ StoCancelled(k)
  BY <1>0, <1>3, SameTyped DEF StoRead, StoGlobal, StoCheck, StoCancelled, StoOnly
<1>. QED BY <1>1, <1>2, <1>3 DEF StoStep

LEMMA StoType ==
    ASSUME Typed, Counting, Carried, NEW k \in Sessions, StoStep(k)
    PROVE  Typed' /\ Counting'
<1>0. StoTyped /\ PipeTyped /\ FlagsTyped /\ MaxConfig \in Nat
  BY ServerAssumption DEF Typed
<1>1. ASSUME NEW label \in Carrying \cup {"read", "check", "dead"},
             NEW m \in Message \cup {NoMessage}, NEW i \in 0 .. MaxConfig, StoAt(k, label, m, i)
      PROVE  StoTyped'
  <2>. DEFINE new == [pc |-> label, msg |-> m, i |-> i]
  <2>1. new \in [pc : {"none", "read", "global", "fwrite", "dispatch", "check", "dead"},
                 msg : Message \cup {NoMessage}, i : 0 .. MaxConfig]
    BY DEF Carrying
  <2>2. sto' = [sto EXCEPT ![k] = new]
    BY <1>1 DEF StoAt
  <2>. QED BY <1>0, <2>1, <2>2 DEF StoTyped
<1>2. StoTyped' /\ PipeTyped'
  <2>1. CASE StoReads(k)
    <3>1. Head(pipe[k]) \in Message /\ Tail(pipe[k]) \in Seq(Message)
      BY <1>0, <2>1 DEF StoReads, PipeTyped
    <3>2. StoTyped'
      BY <1>0, <1>1, <2>1, <3>1 DEF StoReads, Carrying
    <3>3. PipeTyped'
      BY <1>0, <2>1, <3>1 DEF StoReads, PipeTyped
    <3>. QED BY <3>2, <3>3
  <2>2. CASE StoMoves(k)
    <3>1. sto[k].msg \in Message
      BY <2>2 DEF StoMoves, Carried
    <3>. QED BY <1>0, <1>1, <2>2, <3>1, SameTyped DEF StoMoves
  <2>3. CASE StoTurns(k) \/ StoDies(k)
    BY <1>0, <1>1, <2>3, SameTyped DEF StoTurns, StoDies
  <2>. QED BY <2>1, <2>2, <2>3, StoKinds
<1>3. UNCHANGED <<on, config_count, writeGlobal, session, main, reply, cancelA, cancelS, acq>>
  BY StoKinds DEF StoOnly, mainvars
<1>4. FlagsTyped'
  BY <1>0, <1>3, StoData DEF FlagsTyped
<1>5. Counting'
  BY <1>3 DEF Counting
<1>. QED BY <1>2, <1>3, <1>4, <1>5, StoData, SameTyped DEF Typed

LEMMA StoThreads ==
    ASSUME Typed, Carried, Threads, Numbered, NEW k \in Sessions, StoStep(k)
    PROVE  Carried' /\ Threads' /\ Numbered'
<1>0. /\ StoTyped /\ AcqTyped /\ PipeTyped /\ session \in Nat /\ k \in Nat /\ on \in {0, 1}
      /\ InputLength \in Nat
  BY ServerAssumption DEF Typed, FlagsTyped, Sessions
<1>1. UNCHANGED <<on, session, acq, cancelA, cancelS, main>>
  BY StoKinds DEF StoOnly, mainvars
<1>2. StoReads(k) \/ StoMoves(k) \/ StoTurns(k) \/ StoDies(k)
  BY StoKinds
<1>3. k <= session /\ (k # session \/ on = 0 \/ ~StoDies(k))
  <2>1. sto[k].pc # "none" \/ cancelS[k]
    BY <1>2 DEF StoReads, StoMoves, StoTurns, StoDies, Carrying
  <2>. QED BY <1>0, <2>1 DEF Threads, Future, Unborn, Present, StoDies
<1>4. /\ \A i \in Sessions : i # k => sto'[i] = sto[i] /\ pipe'[i] = pipe[i]
      /\ StoDies(k) \/ sto'[k].pc \in Carrying \cup {"read", "check"}
      /\ sto'[k].pc \in Carrying => \/ StoReads(k) /\ sto'[k].msg = Head(pipe[k])
                                    \/ StoMoves(k) /\ sto'[k].msg = sto[k].msg
  BY <1>0, <1>2 DEF StoReads, StoMoves, StoTurns, StoDies, StoAt, StoTyped, PipeTyped, Carrying
<1>5. StoReads(k) => Head(pipe[k]) \in Message
  BY <1>0 DEF StoReads, PipeTyped
<1>6. Carried'
  BY <1>1, <1>4, <1>5 DEF Carried, StoMoves
<1>7. Future' /\ Past' /\ Stopped'
  BY <1>0, <1>1, <1>3, <1>4 DEF Threads, Future, Past, Stopped, Unborn, Sessions
<1>8. Present'
  BY <1>1, <1>3, <1>4 DEF Threads, Present, Carrying
<1>9. Numbered'
  <2>0. UNCHANGED Written(session) /\ (on = 1 => session \in Sessions)
    BY <1>1 DEF Written, Threads, Present
  <2>1. CASE on # 1 \/ k # session
    BY <1>1, <1>4, <2>0, <2>1 DEF Numbered
  <2>2. CASE on = 1 /\ k = session /\ ~StoReads(k)
    <3>1. pipe' = pipe
      BY <1>2, <2>2 DEF StoMoves, StoTurns, StoDies
    <3>2. sto'[k].pc \in Carrying => sto'[k].msg = sto[k].msg /\ sto[k].pc \in Carrying
      BY <1>4, <2>2 DEF StoMoves
    <3>. QED BY <1>1, <2>0, <2>2, <3>1, <3>2 DEF Numbered
  <2>3. CASE on = 1 /\ k = session /\ StoReads(k)
    <3>1. /\ pipe[k] \in Seq(Message) /\ pipe[k] # <<>> /\ pipe'[k] = Tail(pipe[k])
          /\ Written(k) \in Int
      BY <1>0, <2>3 DEF StoReads, PipeTyped, AcqTyped, Written
    <3>2. /\ Len(pipe[k]) \in Nat \ {0} /\ Len(pipe'[k]) = Len(pipe[k]) - 1
          /\ Head(pipe[k]) = pipe[k][1]
          /\ \A j \in 1 .. Len(pipe'[k]) : pipe'[k][j] = pipe[k][j + 1]
      BY <3>1
    <3>3. \A j \in 1 .. Len(pipe[k]) :
             pipe[k][j] = [ses |-> k, n |-> Written(k) - Len(pipe[k]) + j]
      BY <2>3 DEF Numbered
    <3>4. ASSUME NEW j \in 1 .. Len(pipe'[k])
          PROVE  pipe'[k][j] = [ses |-> k, n |-> Written(k) - Len(pipe'[k]) + j]
      <4>1. j + 1 \in 1 .. Len(pipe[k])
        BY <3>2
      <4>2. Written(k) - Len(pipe[k]) + (j + 1) = Written(k) - Len(pipe'[k]) + j
        BY <3>1, <3>2
      <4>. QED BY <3>2, <3>3, <4>1, <4>2
    <3>5. Head(pipe[k]) = [ses |-> k, n |-> Written(k) - Len(pipe'[k])]
      <4>1. Written(k) - Len(pipe[k]) + 1 = Written(k) - Len(pipe'[k])
        BY <3>1, <3>2
      <4>. QED BY <3>2, <3>3, <4>1
    <3>6. sto'[k].msg = Head(pipe[k]) /\ sto[k].pc = "read" /\ acq' = acq
      BY <1>0, <1>1, <2>3 DEF StoReads, StoAt, StoTyped
    <3>. QED BY <1>1, <2>0, <2>3, <3>4, <3>5, <3>6 DEF Numbered
  <2>. QED BY <2>1, <2>2, <2>3
<1>. QED BY <1>6, <1>7, <1>8, <1>9 DEF Threads

-----------------------------------------------------------------------------
(* The invariant, and what follows from it.                                *)

LEMMA NextInductive == Inductive /\ [Next]_vars => Inductive'
<1>. SUFFICES ASSUME Inductive, [Next]_vars PROVE Inductive'
  OBVIOUS
<1>. USE DEF Inductive
<1>1. CASE Request \/ MainStep
  <2>1. Typed' /\ Counting'
    BY <1>1, ConfigType, StartType, StopType, RequestType DEF Request, MainStep
  <2>. QED BY <1>1, <2>1, MainThreads
<1>2. ASSUME NEW k \in Sessions, AcqStep(k) PROVE Inductive'
  BY <1>2, AcqType, AcqThreads
<1>3. ASSUME NEW k \in Sessions, StoStep(k) PROVE Inductive'
  BY <1>3, StoType, StoThreads
<1>4. CASE UNCHANGED vars
  <2>1. Typed' /\ Counting'
    BY <1>4, SameTyped DEF vars, globals, mainvars, Typed, Counting
  <2>2. Carried' /\ Numbered'
    BY <1>4 DEF vars, globals, mainvars, Carried, Numbered, Written
  <2>3. Threads'
    BY <1>4 DEF vars, globals, mainvars, Threads, Future, Past, Present, Stopped, Unborn
  <2>. QED BY <2>1, <2>2, <2>3
<1>. QED BY <1>1, <1>2, <1>3, <1>4 DEF Next

LEMMA Invariance == Spec => []Inductive
BY InitInductive, NextInductive, PTL DEF Spec

(* The types hold whatever the sizes and bounds are. *)
THEOREM TypeCorrect == Spec => []TypeOK
<1>1. Inductive => TypeOK
  BY TypedIsTypeOK DEF Inductive
<1>. QED BY <1>1, Invariance, PTL

(* The numbers of what is on its way are those of NothingLost, in the      *)
(* order of the two threads and the pipe between them.                     *)
LEMMA NumberedIsNothingLost == Inductive => NothingLost
<1>. SUFFICES ASSUME Inductive, on = 1,
                     NEW j \in 1 .. Len(InTransit(session))
              PROVE  InTransit(session)[j] =
                       [ses |-> session, n |-> acq[session].n - Len(InTransit(session)) + j]
  BY DEF NothingLost
<1>. DEFINE a == InAcquisition(session)
            p == pipe[session]
            b == InStorage(session)
            w == Written(session)
<1>1. session \in Sessions
  BY DEF Inductive, Threads, Present
<1>2. /\ a \in Seq(Message) /\ p \in Seq(Message) /\ b \in Seq(Message)
      /\ acq[session].n \in Int /\ w \in Int
  BY <1>1, ServerAssumption
     DEF Inductive, Typed, AcqTyped, PipeTyped, Carried, Carrying, InAcquisition, InStorage, Written
<1>3. /\ Len(a) \in {0, 1} /\ w = acq[session].n - Len(a)
      /\ \A i \in 1 .. Len(a) : a[i] = [ses |-> session, n |-> w + i]
  <2>1. CASE acq[session].pc = "write"
    <3>1. Len(a) = 1 /\ a[1] = acq[session].msg /\ w = acq[session].n - 1
      BY <2>1 DEF InAcquisition, Written
    <3>2. a[1] = [ses |-> session, n |-> w + 1]
      BY <1>2, <2>1, <3>1 DEF Inductive, Numbered
    <3>. QED BY <1>2, <3>1, <3>2
  <2>2. CASE acq[session].pc # "write"
    BY <1>2, <2>2 DEF InAcquisition, Written
  <2>. QED BY <2>1, <2>2
<1>4. \A i \in 1 .. Len(p) : p[i] = [ses |-> session, n |-> w - Len(p) + i]
  BY DEF Inductive, Numbered
<1>5. /\ Len(b) \in {0, 1}
      /\ \A i \in 1 .. Len(b) : b[i] = [ses |-> session, n |-> w - Len(p)]
  BY DEF Inductive, Numbered, InStorage, Carrying
<1>6. /\ Len(p) \in Nat
      /\ Len(InTransit(session)) = Len(b) + Len(p) + Len(a)
      /\ \A i \in 1 .. Len(b) + Len(p) + Len(a) :
           InTransit(session)[i] =
             IF i <= Len(b) THEN b[i]
             ELSE IF i <= Len(b) + Len(p) THEN p[i - Len(b)]
             ELSE a[i - Len(b) - Len(p)]
  <2>. HIDE DEF a, p, b
  <2>1. /\ b \o p \in Seq(Message) /\ Len(b \o p) = Len(b) + Len(p) /\ Len(p) \in Nat
        /\ \A i \in 1 .. Len(b) + Len(p) :
             (b \o p)[i] = IF i <= Len(b) THEN b[i] ELSE p[i - Len(b)]
    BY <1>2
  <2>2. /\ Len((b \o p) \o a) = Len(b) + Len(p) + Len(a)
        /\ \A i \in 1 .. Len(b) + Len(p) + Len(a) :
             ((b \o p) \o a)[i] =
               IF i <= Len(b) + Len(p) THEN (b \o p)[i] ELSE a[i - (Len(b) + Len(p))]
    BY <1>2, <2>1
  <2>3. InTransit(session) = (b \o p) \o a
    BY DEF InTransit, a, p, b
  <2>. QED BY <1>3, <1>5, <2>1, <2>2, <2>3
<1>. HIDE DEF a, p, b, w
<1>7. /\ j \in Nat \ {0} /\ j <= Len(b) + Len(p) + Len(a)
      /\ acq[session].n - Len(InTransit(session)) + j = w - Len(b) - Len(p) + j
  <2>1. Len(a) \in Nat /\ Len(b) \in Nat
    BY <1>3, <1>5
  <2>2. j \in Nat \ {0} /\ j <= Len(b) + Len(p) + Len(a)
    BY <1>6, <2>1
  <2>3. acq[session].n = w + Len(a)
    BY <1>2, <1>3, <2>1
  <2>. QED BY <1>2, <1>6, <2>1, <2>2, <2>3
<1>8. CASE j <= Len(b)
  <2>1. InTransit(session)[j] = b[j] /\ j \in 1 .. Len(b) /\ Len(b) = j
    BY <1>5, <1>6, <1>7, <1>8
  <2>2. w - Len(b) - Len(p) + j = w - Len(p)
    BY <1>2, <1>6, <1>7, <2>1
  <2>. QED BY <1>5, <1>7, <2>1, <2>2
<1>9. CASE j > Len(b) /\ j <= Len(b) + Len(p)
  <2>1. InTransit(session)[j] = p[j - Len(b)] /\ j - Len(b) \in 1 .. Len(p)
    BY <1>5, <1>6, <1>7, <1>9
  <2>2. w - Len(b) - Len(p) + j = w - Len(p) + (j - Len(b))
    BY <1>2, <1>5, <1>6, <1>7
  <2>. QED BY <1>4, <1>7, <2>1, <2>2
<1>10. CASE j > Len(b) + Len(p)
  <2>1. /\ InTransit(session)[j] = a[j - Len(b) - Len(p)]
        /\ j - Len(b) - Len(p) \in 1 .. Len(a)
    BY <1>3, <1>5, <1>6, <1>7, <1>10
  <2>2. w - Len(b) - Len(p) + j = w + (j - Len(b) - Len(p))
    BY <1>2, <1>5, <1>6, <1>7
  <2>. QED BY <1>3, <1>7, <2>1, <2>2
<1>. QED BY <1>5, <1>6, <1>7, <1>8, <1>9, <1>10

(* Between the bus and the objects a running acquisition loses, repeats    *)
(* and reorders no message, for any pipe and however long it runs.         *)
THEOREM NoMessageLost == Spec => []NothingLost
BY NumberedIsNothingLost, Invariance, PTL

(* While on is 1 the two threads of the acquisition are there, and of any   *)
(* other only threads that were cancelled, however soon a START follows.   *)
THEOREM FlagTellsTheTruth == Spec => []OnMeansRunning
<1>1. ASSUME Inductive PROVE OnMeansRunning
  <2>1. Idle /\ on = 1 => acq[session].pc # "dead" /\ sto[session].pc # "dead"
    BY <1>1 DEF Inductive, Threads, Present
  <2>2. ASSUME NEW k \in Sessions, Running(k)
        PROVE  k = session \/ (cancelA[k] /\ cancelS[k])
    <3>1. ~(k > session)
      BY <1>1, <2>2 DEF Inductive, Threads, Future, Unborn, Running
    <3>2. k < session \/ k = session
      BY <1>1, <3>1 DEF Inductive, Typed, FlagsTyped, Sessions
    <3>. QED BY <1>1, <3>2 DEF Inductive, Threads, Past
  <2>. QED BY <2>1, <2>2 DEF OnMeansRunning
<1>. QED BY <1>1, Invariance, PTL

-----------------------------------------------------------------------------
(* NoStaleFeed, of clients that leave a STOP the time to end the threads.  *)

(* A message belongs to the session of the thread or pipe that has it. *)
Own ==
    \A k \in Sessions :
        /\ acq[k].pc = "write" => acq[k].msg.ses = k
        /\ sto[k].pc \in Carrying => sto[k].msg.ses = k
        /\ \A j \in 1 .. Len(pipe[k]) : pipe[k][j].ses = k

(* The acquisition the packages registered are for: a STOP under way has   *)
(* reset on, but not yet forgotten them.                                   *)
Meant == IF on = 1 \/ main.at \in {"cancelRead", "cancelWrite", "forget"}
         THEN session ELSE session + 1
Registered ==
    \A i \in 0 .. ArraySize - 1 :
        i < config_count \/ (main.at = "count" /\ i = config_count) => obj[i].since = Meant

(* A cancelled storage thread that still runs meets no package. *)
Live(k) == sto[k].pc \notin {"none", "dead"}
Gone ==
    \A k \in Sessions :
        cancelS[k] /\ Live(k) =>
            /\ k = session /\ on = 0
            /\ main.at \notin {"init", "count"}
            /\ config_count = 0 \/ main.at = "forget"

Paced == Own /\ Registered /\ Gone /\ NoStaleFeed

LEMMA InitPaced == Init => Paced
  BY ServerAssumption DEF Init, Paced, Own, Registered, Gone, NoStaleFeed, Live, Carrying

(* main() puts nothing into a pipe or an object. *)
LEMMA MainOwn ==
    ASSUME Inductive, Own, Request \/ MainStep
    PROVE  Own'
<1>0. AcqTyped /\ StoTyped /\ PipeTyped
  BY DEF Inductive, Typed
<1>1. CASE UNCHANGED <<acq, sto, pipe>>
  BY <1>1 DEF Own
<1>2. CASE Launch /\ UNCHANGED pipe
  BY <1>0, <1>2 DEF Own, Launch, init_monitor_memory, Carrying, AcqTyped, StoTyped
<1>3. CASE UNCHANGED <<acq, sto>> /\ pipe' = [pipe EXCEPT ![session] = <<>>]
  BY <1>0, <1>3 DEF Own, PipeTyped
<1>. QED
  BY <1>1, <1>2, <1>3
     DEF Request, MainStep, ReceiveConfig, StartMsg, StartWoMsg, StopMsg, RealReq, CurrReq,
         ConfigInit, ConfigCount, ConfigFlag, ConfigOpen, ConfigReply, StartWoFlag,
         StopCancelRead, StopCancelWrite, StopForget, StopReply

LEMMA SamePaced ==
    ASSUME Registered, Gone, NoStaleFeed,
           UNCHANGED <<on, session, sto, cancelS, obj, config_count>>,
           main.at \notin {"cancelRead", "cancelWrite", "forget", "count"},
           main'.at \notin {"cancelRead", "cancelWrite", "forget", "count"},
           main'.at = "init" => main.at = "init"
    PROVE  Registered' /\ Gone' /\ NoStaleFeed'
<1>1. Registered'
  BY DEF Registered, Meant
<1>2. Gone'
  BY DEF Gone, Live
<1>3. NoStaleFeed'
  BY DEF NoStaleFeed
<1>. QED BY <1>1, <1>2, <1>3

LEMMA SettledGone ==
    ASSUME HumanPaced, Settled, NEW k \in Sessions, cancelS[k]
    PROVE  ~Live(k)
  BY DEF Settled, Running, Live

LEMMA ConfigPaced ==
    ASSUME HumanPaced, Inductive, Paced,
           \/ \E num \in 0 .. MaxBatch, store \in BOOLEAN : ReceiveConfig(num, store)
           \/ ConfigInit \/ ConfigCount \/ ConfigFlag \/ ConfigOpen \/ ConfigReply
    PROVE  Registered' /\ Gone' /\ NoStaleFeed'
<1>0. MainTyped /\ ObjTyped /\ config_count \in Nat /\ session \in Nat /\ ArraySize \in Nat
  BY ServerAssumption DEF Inductive, Typed, FlagsTyped
<1>. USE MainSteps DEF Labels, Paced
<1>1. ASSUME NEW num \in 0 .. MaxBatch, NEW store \in BOOLEAN, ReceiveConfig(num, store)
      PROVE  Registered' /\ Gone' /\ NoStaleFeed'
  <2>1. /\ UNCHANGED <<on, session, sto, cancelS, obj, config_count>>
        /\ main.at = "idle" /\ main'.at = "init" /\ Settled
    BY <1>1 DEF ReceiveConfig, globals, Idle
  <2>2. Registered' /\ NoStaleFeed'
    BY <2>1 DEF Registered, NoStaleFeed, Meant
  <2>3. Gone'
    BY <2>1, SettledGone DEF Gone, Live
  <2>. QED BY <2>2, <2>3
<1>2. CASE ConfigInit
  <2>1. /\ UNCHANGED <<on, session, sto, cancelS, config_count>>
        /\ main.at = "init" /\ main'.at = "count"
        /\ obj' = [i \in DOMAIN obj |-> IF i = config_count THEN Fresh ELSE obj[i]]
    BY <1>0, <1>2 DEF ConfigInit
  <2>2. /\ DOMAIN obj = 0 .. ArraySize - 1 /\ DOMAIN obj' = 0 .. ArraySize - 1
        /\ \A i \in 0 .. ArraySize - 1 : obj'[i] = IF i = config_count THEN Fresh ELSE obj[i]
    BY <1>0, <2>1 DEF ObjTyped
  <2>3. Fresh.since = Meant' /\ Fresh.fed = <<>> /\ Meant' = Meant
    BY <2>1 DEF Fresh, Meant
  <2>4. Registered'
    BY <1>0, <2>1, <2>2, <2>3 DEF Registered
  <2>5. NoStaleFeed'
    BY <2>2, <2>3 DEF NoStaleFeed
  <2>6. Gone'
    BY <2>1 DEF Gone, Live
  <2>. QED BY <2>4, <2>5, <2>6
<1>3. CASE ConfigCount
  <2>1. /\ UNCHANGED <<on, session, sto, cancelS, obj>> /\ config_count' = config_count + 1
        /\ main.at = "count" /\ main'.at = "init"
    BY <1>0, <1>3 DEF ConfigCount, MainTyped
  <2>2. Registered'
    BY <1>0, <2>1 DEF Registered, Meant
  <2>3. Gone' /\ NoStaleFeed'
    BY <2>1 DEF Gone, Live, NoStaleFeed
  <2>. QED BY <2>2, <2>3
<1>4. CASE ConfigFlag \/ ConfigOpen \/ ConfigReply
  <2>1. /\ UNCHANGED <<on, session, sto, cancelS, obj, config_count>>
        /\ main.at \in {"init", "open"} /\ main'.at \in {"open", "idle"}
    BY <1>0, <1>4 DEF ConfigFlag, ConfigOpen, ConfigReply, globals
  <2>. QED BY <2>1, SamePaced
<1>. QED BY <1>1, <1>2, <1>3, <1>4

LEMMA StartPaced ==
    ASSUME HumanPaced, Inductive, Paced,
           \/ StartMsg \/ StartWoFlag \/ CurrReq
           \/ \E needed \in BOOLEAN : StartWoMsg(needed)
           \/ \E o \in 0 .. ArraySize : RealReq(o)
    PROVE  Registered' /\ Gone' /\ NoStaleFeed'
<1>0. MainTyped /\ StoTyped /\ session \in Nat
  BY ServerAssumption DEF Inductive, Typed, FlagsTyped
<1>. USE MainSteps DEF Labels, Paced
<1>1. /\ UNCHANGED <<obj, config_count, cancelS>>
      /\ main.at \in {"idle", "flag"} /\ main'.at \in {"idle", "flag", "open"}
  BY <1>0 DEF StartMsg, StartWoFlag, CurrReq, StartWoMsg, RealReq, Idle, globals
<1>2. \/ UNCHANGED <<on, session, sto>>
      \/ Launch /\ Settled /\ main.at = "idle" /\ on = 0 /\ session < MaxSession
  BY DEF StartMsg, StartWoFlag, CurrReq, StartWoMsg, RealReq, Idle, globals
<1>3. CASE UNCHANGED <<on, session, sto>>
  BY <1>1, <1>3, SamePaced
<1>4. CASE Launch /\ Settled /\ main.at = "idle" /\ on = 0 /\ session < MaxSession
  <2>1. on' = 1 /\ session' = session + 1 /\ session' \in Sessions
    BY <1>0, <1>4, ServerAssumption DEF Launch, init_monitor_memory, Sessions
  <2>2. Registered'
    BY <1>1, <1>4, <2>1 DEF Registered, Meant
  <2>3. ASSUME NEW k \in Sessions, cancelS[k] PROVE ~Live(k)'
    <3>1. k # session'
      BY <1>0, <2>1, <2>3 DEF Inductive, Threads, Future, Unborn
    <3>2. sto'[k] = sto[k]
      BY <1>0, <1>4, <3>1 DEF Launch, init_monitor_memory, StoTyped
    <3>. QED BY <1>4, <2>3, <3>2, SettledGone DEF Live
  <2>4. Gone'
    BY <1>1, <2>3 DEF Gone
  <2>5. NoStaleFeed'
    BY <1>1 DEF NoStaleFeed
  <2>. QED BY <2>2, <2>4, <2>5
<1>. QED BY <1>2, <1>3, <1>4

LEMMA StopPaced ==
    ASSUME HumanPaced, Inductive, Paced,
           StopMsg \/ StopCancelRead \/ StopCancelWrite \/ StopForget \/ StopReply
    PROVE  Registered' /\ Gone' /\ NoStaleFeed'
<1>0. MainTyped /\ CancelTyped /\ on \in {0, 1} /\ config_count \in Nat
  BY ServerAssumption DEF Inductive, Typed, FlagsTyped
<1>. USE MainSteps DEF Labels, Paced
<1>1. UNCHANGED <<session, obj, sto>>
  BY DEF StopMsg, StopCancelRead, StopCancelWrite, StopForget, StopReply, globals
<1>2. NoStaleFeed'
  BY <1>1 DEF NoStaleFeed
<1>3. CASE StopMsg
  <2>1. /\ UNCHANGED <<config_count, cancelS>> /\ main.at = "idle"
        /\ \/ on = 1 /\ on' = 0 /\ main'.at = "cancelRead"
           \/ UNCHANGED on /\ main'.at = "idle"
    BY <1>0, <1>3 DEF StopMsg, Idle
  <2>. QED BY <1>1, <1>2, <2>1 DEF Registered, Gone, Live, Meant
<1>4. CASE StopCancelRead
  <2>1. /\ UNCHANGED <<on, config_count, cancelS>>
        /\ main.at = "cancelRead" /\ main'.at = "cancelWrite"
    BY <1>0, <1>4 DEF StopCancelRead, globals
  <2>. QED BY <1>1, <1>2, <2>1 DEF Registered, Gone, Live, Meant
<1>5. CASE StopCancelWrite
  <2>1. /\ UNCHANGED <<on, config_count>> /\ on = 0
        /\ main.at = "cancelWrite" /\ main'.at = "forget"
        /\ \A k \in Sessions : k # session => (cancelS'[k] <=> cancelS[k])
    BY <1>0, <1>5 DEF StopCancelWrite, globals, CancelTyped, Inductive, Threads, Present
  <2>2. Registered'
    BY <1>1, <2>1 DEF Registered, Meant
  <2>3. Gone'
    BY <1>1, <2>1 DEF Gone, Live
  <2>. QED BY <1>2, <2>2, <2>3
<1>6. CASE StopForget
  <2>1. /\ UNCHANGED <<on, cancelS>> /\ config_count' = 0
        /\ main.at = "forget" /\ main'.at = "nowrite"
    BY <1>0, <1>6 DEF StopForget
  <2>. QED BY <1>1, <1>2, <2>1 DEF Registered, Gone, Live
<1>7. CASE StopReply
  <2>1. /\ UNCHANGED <<on, config_count, cancelS>>
        /\ main.at = "nowrite" /\ main'.at = "idle"
    BY <1>0, <1>7 DEF StopReply
  <2>. QED BY <1>1, <1>2, <2>1 DEF Registered, Gone, Live, Meant
<1>. QED BY <1>3, <1>4, <1>5, <1>6, <1>7

(* A thread hands on what it took, and main() is not involved. *)
LEMMA AcqPaced ==
    ASSUME Inductive, Paced, NEW k \in Sessions, AcqStep(k)
    PROVE  Paced'
<1>0. Typed /\ AcqTyped /\ PipeTyped /\ Carried
  BY DEF Inductive, Typed
<1>1. AcqOnly
  BY <1>0, AcqKinds
<1>2. AcqMoves(k) \/ AcqReads(k) \/ AcqWrites(k) \/ AcqDies(k) \/ UNCHANGED <<acq, pipe>>
  BY <1>0, AcqKinds
<1>3. Registered' /\ Gone' /\ NoStaleFeed'
  BY <1>1 DEF AcqOnly, globals, mainvars, Paced, Registered, Meant, Gone, Live, NoStaleFeed
<1>4. \A l \in Sessions : acq'[l].pc = "write" => acq'[l].msg.ses = l
  BY <1>0, <1>2 DEF AcqMoves, AcqReads, AcqWrites, AcqDies, AcqAt, AcqTyped, Paced, Own
<1>5. ASSUME NEW l \in Sessions PROVE \A j \in 1 .. Len(pipe'[l]) : pipe'[l][j].ses = l
  <2>1. CASE UNCHANGED pipe
    BY <2>1 DEF Paced, Own
  <2>2. CASE AcqWrites(k)
    <3>1. acq[k].msg \in Message /\ acq[k].msg.ses = k /\ pipe[l] \in Seq(Message)
      BY <1>0, <2>2 DEF AcqWrites, Carried, Paced, Own, PipeTyped
    <3>2. pipe'[l] = IF l = k THEN Append(pipe[l], acq[k].msg) ELSE pipe[l]
      BY <1>0, <2>2 DEF AcqWrites, PipeTyped
    <3>3. \A j \in 1 .. Len(pipe[l]) : pipe[l][j].ses = l
      BY DEF Paced, Own
    <3>. QED BY <3>1, <3>2, <3>3
  <2>. QED BY <1>2, <2>1, <2>2 DEF AcqMoves, AcqReads, AcqDies
<1>6. Own'
  BY <1>1, <1>4, <1>5 DEF AcqOnly, Paced, Own, Carrying
<1>. QED BY <1>3, <1>6 DEF Paced

LEMMA StoOwn ==
    ASSUME Inductive, Own, NEW k \in Sessions, StoStep(k)
    PROVE  Own'
<1>0. Typed /\ StoTyped /\ PipeTyped
  BY DEF Inductive, Typed
<1>1. UNCHANGED acq
  BY <1>0, StoKinds DEF StoOnly
<1>2. StoReads(k) \/ StoMoves(k) \/ StoTurns(k) \/ StoDies(k)
  BY <1>0, StoKinds
<1>3. CASE StoReads(k)
  <2>1. /\ pipe[k] \in Seq(Message) /\ pipe[k] # <<>>
        /\ \A j \in 1 .. Len(pipe[k]) : pipe[k][j].ses = k
    BY <1>0, <1>3 DEF StoReads, PipeTyped, Own
  <2>2. Head(pipe[k]).ses = k
    BY <2>1
  <2>3. \A j \in 1 .. Len(Tail(pipe[k])) : Tail(pipe[k])[j].ses = k
    BY <2>1
  <2>4. \A l \in Sessions : pipe'[l] = IF l = k THEN Tail(pipe[k]) ELSE pipe[l]
    BY <1>0, <1>3 DEF StoReads, PipeTyped
  <2>5. \A l \in Sessions : sto'[l].msg = IF l = k THEN Head(pipe[k]) ELSE sto[l].msg
    BY <1>0, <1>3 DEF StoReads, StoAt, StoTyped
  <2>6. \A l \in Sessions : l # k => sto'[l] = sto[l]
    BY <1>0, <1>3 DEF StoReads, StoAt, StoTyped
  <2>7. \A l \in Sessions : sto'[l].pc \in Carrying => sto'[l].msg.ses = l
    BY <2>2, <2>5, <2>6 DEF Own
  <2>8. ASSUME NEW l \in Sessions PROVE \A j \in 1 .. Len(pipe'[l]) : pipe'[l][j].ses = l
    <3>1. CASE l = k
      BY <2>3, <2>4, <3>1
    <3>2. CASE l # k
      BY <2>4, <3>2 DEF Own
    <3>. QED BY <3>1, <3>2
  <2>9. \A l \in Sessions : acq'[l].pc = "write" => acq'[l].msg.ses = l
    BY <1>1 DEF Own
  <2>. QED BY <2>7, <2>8, <2>9 DEF Own
<1>4. CASE StoMoves(k) \/ StoTurns(k) \/ StoDies(k)
  <2>1. UNCHANGED pipe
    BY <1>4 DEF StoMoves, StoTurns, StoDies
  <2>2. \A l \in Sessions : sto'[l].pc \in Carrying => sto[l].pc \in Carrying /\ sto'[l].msg = sto[l].msg
    BY <1>0, <1>4 DEF StoMoves, StoTurns, StoDies, StoAt, StoTyped, Carrying
  <2>. QED BY <1>1, <2>1, <2>2 DEF Own
<1>. QED BY <1>2, <1>3, <1>4

(* A thread that dispatches to a package was started for it. *)
LEMMA StoMeant ==
    ASSUME Inductive, Paced, NEW k \in Sessions, Live(k), config_count # 0
    PROVE  Meant = k
<1>0. session \in Nat /\ on \in {0, 1} /\ k \in Nat /\ cancelS[k] \in BOOLEAN
  BY ServerAssumption DEF Inductive, Typed, FlagsTyped, CancelTyped, Sessions
<1>1. ~(k > session)
  BY DEF Inductive, Threads, Future, Unborn, Live
<1>2. CASE cancelS[k]
  BY <1>2 DEF Paced, Gone, Meant
<1>3. CASE ~cancelS[k]
  <2>1. k = session
    BY <1>0, <1>1, <1>3 DEF Inductive, Threads, Past
  <2>2. on = 1 \/ main.at \in {"cancelRead", "cancelWrite"}
    BY <1>0, <1>3, <2>1 DEF Inductive, Threads, Stopped
  <2>. QED BY <2>1, <2>2 DEF Meant
<1>. QED BY <1>0, <1>2, <1>3

LEMMA StoPaced ==
    ASSUME Inductive, Paced, NEW k \in Sessions, StoStep(k)
    PROVE  Paced'
<1>0. Typed /\ StoTyped /\ ObjTyped /\ Carried
  BY DEF Inductive, Typed
<1>1. StoOnly /\ Own'
  BY <1>0, StoKinds, StoOwn DEF Paced
<1>2. Gone'
  <2>1. \A l \in Sessions : Live(l)' => Live(l)
    BY <1>0, StoKinds
       DEF StoReads, StoMoves, StoTurns, StoDies, StoAt, StoTyped, Live, Carrying
  <2>. QED BY <1>1, <2>1 DEF StoOnly, mainvars, Paced, Gone
<1>3. CASE UNCHANGED obj
  <2>1. Registered' /\ NoStaleFeed'
    BY <1>1, <1>3 DEF StoOnly, mainvars, Paced, Registered, Meant, NoStaleFeed
  <2>. QED BY <1>1, <1>2, <2>1 DEF Paced
<1>4. CASE /\ sto[k].pc = "dispatch" /\ sto[k].i < config_count /\ sto[k].i \in DOMAIN obj
           /\ Feed(sto[k].i, sto[k].msg)
  <2>. DEFINE o == sto[k].i
              m == sto[k].msg
  <2>1. config_count \in Nat /\ o \in 0 .. ArraySize - 1 /\ o \in Nat /\ config_count # 0
    BY <1>0, <1>4, ServerAssumption DEF Typed, FlagsTyped, StoTyped, ObjTyped
  <2>2. m \in Message /\ m.ses = k /\ Live(k)
    BY <1>0, <1>4 DEF Carried, Carrying, Live, Paced, Own
  <2>3. obj[o].since = k
    BY <1>4, <2>1, <2>2, StoMeant DEF Paced, Registered
  <2>4. PICK rdy : obj' = [obj EXCEPT ![o].fed = Append(@, m), ![o].rdy = rdy]
    BY <1>4 DEF Feed
  <2>5. /\ DOMAIN obj = 0 .. ArraySize - 1 /\ DOMAIN obj' = DOMAIN obj
        /\ \A i \in DOMAIN obj :
             /\ obj[i].fed \in Seq(Message)
             /\ obj'[i].since = obj[i].since
             /\ obj'[i].fed = IF i = o THEN Append(obj[i].fed, m) ELSE obj[i].fed
    BY <1>0, <2>1, <2>4 DEF ObjTyped
  <2>6. NoStaleFeed'
    <3>. SUFFICES ASSUME NEW i \in DOMAIN obj, NEW j \in DOMAIN obj'[i].fed
                  PROVE  obj'[i].fed[j].ses = obj'[i].since
      BY <2>5 DEF NoStaleFeed
    <3>1. CASE i # o
      BY <2>5, <3>1 DEF Paced, NoStaleFeed
    <3>2. CASE i = o
      <4>. DEFINE s == obj[o].fed
      <4>0. s \in Seq(Message) /\ obj'[i].fed = Append(s, m) /\ obj'[i].since = k
        BY <2>3, <2>5, <3>2
      <4>1. \A l \in 1 .. Len(s) : s[l].ses = k
        <5>1. \A l \in DOMAIN s : s[l].ses = k
          BY <2>1, <2>3, <2>5 DEF Paced, NoStaleFeed
        <5>. QED BY <4>0, <5>1
      <4>. HIDE DEF s, m
      <4>2. DOMAIN Append(s, m) = 1 .. Len(s) + 1 /\ Append(s, m)[Len(s) + 1] = m
            /\ \A l \in 1 .. Len(s) : Append(s, m)[l] = s[l]
        BY <2>2, <4>0
      <4>3. Len(s) \in Nat
        BY <4>0
      <4>. QED BY <2>2, <4>0, <4>1, <4>2, <4>3
    <3>. QED BY <3>1, <3>2
  <2>7. Registered'
    BY <1>1, <2>5 DEF StoOnly, mainvars, Paced, Registered, Meant
  <2>. QED BY <1>1, <1>2, <2>6, <2>7 DEF Paced
<1>. QED
  BY <1>3, <1>4
     DEF StoStep, StoRead, StoGlobal, StoFwrite, StoDispatch, StoCheck, StoCancelled

LEMMA NextPaced ==
    ASSUME HumanPaced, Inductive, Paced, [Next]_vars
    PROVE  Paced'
<1>1. CASE Request \/ MainStep
  <2>1. Own'
    BY <1>1, MainOwn DEF Paced
  <2>2. Registered' /\ Gone' /\ NoStaleFeed'
    BY <1>1, ConfigPaced, StartPaced, StopPaced DEF Request, MainStep
  <2>. QED BY <2>1, <2>2 DEF Paced
<1>2. ASSUME NEW k \in Sessions, AcqStep(k) \/ StoStep(k) PROVE Paced'
  BY <1>2, AcqPaced, StoPaced
<1>3. CASE UNCHANGED vars
  BY <1>3 DEF vars, globals, mainvars, Paced, Own, Registered, Meant, Gone, Live, NoStaleFeed
<1>. QED BY <1>1, <1>2, <1>3 DEF Next

(* distriServer.cc:200: when a STOP is left the time to end the threads,   *)
(* a package registered for one acquisition is never fed a message of      *)
(* another one, for any number of packages, messages and acquisitions.     *)
THEOREM NothingStaleFed == HumanPaced => (Spec => []NoStaleFeed)
<1>. SUFFICES ASSUME HumanPaced PROVE Spec => []NoStaleFeed
  OBVIOUS
<1>1. Inductive /\ Paced /\ [Next]_vars => Inductive' /\ Paced'
  BY NextInductive, NextPaced
<1>2. Init => Inductive /\ Paced
  BY InitInductive, InitPaced
<1>3. Paced => NoStaleFeed
  BY DEF Paced
<1>. QED BY <1>1, <1>2, <1>3, PTL DEF Spec

-----------------------------------------------------------------------------
(* OnlyRefusedOpenCrashes.                                                 *)

(* Only the threads of the last acquisition run. *)
Alone == \A k \in Sessions : Running(k) => k = session

(* While a START or a CONFIG_MSG has a bus file opened no thread moves: a  *)
(* CONFIG_MSG finds them dead, a START creates them and is done before the *)
(* first pulse of the timer.                                               *)
Asleep(k) ==
    k = session /\ on = 1 /\ acq[k].pc = "setup" /\ sto[k].pc = "read" /\ pipe[k] = <<>>
Quiet ==
    /\ main.at \in {"flag", "open"} => \A k \in Sessions : ~Running(k) \/ Asleep(k)
    /\ main.at \in {"init", "count"} /\ main.store => \A k \in Sessions : ~Running(k)

(* An fopen was tried whenever a bus file is going to be written. *)
Streams ==
    /\ writeGlobal = 1 => globalfile # 0 \/ main.at = "open"
    /\ \A k \in Sessions : sto[k].pc = "fwrite" => globalfile # 0

Opened == Alone /\ Quiet /\ Streams

LEMMA InitOpened == Init => Opened
  BY DEF Init, Opened, Alone, Quiet, Streams, Running

(* main() leaves the threads alone, but for those it creates. *)
LEMMA MainMoves ==
    ASSUME Typed, Request \/ MainStep
    PROVE  \/ UNCHANGED <<acq, sto, session>>
           \/ /\ Launch /\ Settled /\ Idle /\ on = 0 /\ session < MaxSession
              /\ main'.at \in {"idle", "flag"}
              /\ UNCHANGED <<pipe, writeGlobal, globalfile, files, cancelA, cancelS,
                             config_count, obj>>
<1>1. CASE StartMsg
  BY <1>1, MainSteps DEF StartMsg, Typed, Idle
<1>2. ASSUME NEW needed \in BOOLEAN, StartWoMsg(needed)
      PROVE  \/ UNCHANGED <<acq, sto, session>>
             \/ /\ Launch /\ Settled /\ Idle /\ on = 0 /\ session < MaxSession
                /\ main'.at = "flag"
                /\ UNCHANGED <<pipe, writeGlobal, globalfile, files, cancelA, cancelS,
                               config_count, obj>>
  BY <1>2 DEF StartWoMsg, Idle
<1>. QED
  BY <1>1, <1>2
     DEF Request, MainStep, ReceiveConfig, StopMsg, RealReq, CurrReq,
         ConfigInit, ConfigCount, ConfigFlag, ConfigOpen, ConfigReply, StartWoFlag,
         StopCancelRead, StopCancelWrite, StopForget, StopReply, globals

(* The state a Launch leaves. *)
LEMMA Launched ==
    ASSUME Inductive, Launch, on = 0, session < MaxSession, UNCHANGED <<pipe, cancelA, cancelS>>
    PROVE  /\ on' = 1 /\ session' = session + 1 /\ session' \in Sessions
           /\ acq'[session'] = [pc |-> "setup", n |-> 0, msg |-> NoMessage]
           /\ sto'[session'] = [pc |-> "read", msg |-> NoMessage, i |-> 0]
           /\ pipe'[session'] = <<>> /\ ~cancelA'[session'] /\ ~cancelS'[session']
           /\ \A k \in Sessions : k # session' => acq'[k] = acq[k] /\ sto'[k] = sto[k]
<1>1. /\ on' = 1 /\ session' = session + 1 /\ session' \in Sessions /\ session' > session
  BY ServerAssumption DEF Inductive, Typed, FlagsTyped, Launch, init_monitor_memory, Sessions
<1>2. Unborn(session')
  BY <1>1 DEF Inductive, Threads, Future
<1>3. /\ acq' = [acq EXCEPT ![session'] = [pc |-> "setup", n |-> 0, msg |-> NoMessage]]
      /\ sto' = [sto EXCEPT ![session'] = [pc |-> "read", msg |-> NoMessage, i |-> 0]]
  BY DEF Launch, init_monitor_memory
<1>4. DOMAIN acq = Sessions /\ DOMAIN sto = Sessions
  BY DEF Inductive, Typed, AcqTyped, StoTyped
<1>. QED BY <1>1, <1>2, <1>3, <1>4 DEF Unborn

(* Between acquisitions clients that pace themselves find no thread. *)
LEMMA NobodyRuns ==
    ASSUME HumanPaced, Inductive, Settled, Idle, on = 0, NEW k \in Sessions
    PROVE  ~Running(k)
<1>1. session \in Nat /\ k \in Nat /\ cancelS[k] \in BOOLEAN
  BY ServerAssumption DEF Inductive, Typed, FlagsTyped, CancelTyped, Sessions
<1>2. CASE k > session
  BY <1>2 DEF Inductive, Threads, Future, Unborn, Running
<1>3. CASE k <= session
  <2>1. cancelS[k]
    BY <1>1, <1>3 DEF Inductive, Threads, Past, Stopped, Idle
  <2>. QED BY <2>1 DEF Settled
<1>. QED BY <1>1, <1>2, <1>3

(* A thread that takes a step runs, and no other is disturbed. *)
LEMMA ThreadRuns ==
    ASSUME Typed, NEW k \in Sessions, AcqStep(k) \/ StoStep(k)
    PROVE  /\ Running(k)
           /\ \A l \in Sessions : l # k =>
                acq'[l] = acq[l] /\ sto'[l] = sto[l] /\ pipe'[l] = pipe[l]
           /\ UNCHANGED <<on, config_count, writeGlobal, globalfile, session, mainvars>>
<1>0. AcqTyped /\ StoTyped /\ PipeTyped
  BY DEF Typed
<1>1. CASE AcqStep(k)
  <2>1. Running(k)
    BY <1>1 DEF AcqStep, AcqSetup, AcqReceive, AcqWrite, AcqCheck, AcqCancelled, Running
  <2>2. \A l \in Sessions : l # k => acq'[l] = acq[l] /\ pipe'[l] = pipe[l]
    BY <1>0, <1>1, AcqKinds
       DEF AcqMoves, AcqReads, AcqWrites, AcqDies, AcqAt, AcqTyped, PipeTyped
  <2>. QED BY <1>1, <2>1, <2>2, AcqKinds DEF AcqOnly, globals
<1>2. CASE StoStep(k)
  <2>1. Running(k)
    BY <1>2 DEF StoStep, StoRead, StoGlobal, StoFwrite, StoDispatch, StoCheck, StoCancelled,
                Running
  <2>2. \A l \in Sessions : l # k => sto'[l] = sto[l] /\ pipe'[l] = pipe[l]
    BY <1>0, <1>2, StoKinds
       DEF StoReads, StoMoves, StoTurns, StoDies, StoAt, StoTyped, PipeTyped
  <2>. QED BY <1>2, <2>1, <2>2, StoKinds DEF StoOnly
<1>. QED BY <1>1, <1>2

LEMMA MainAlone ==
    ASSUME HumanPaced, Inductive, Alone, Request \/ MainStep
    PROVE  Alone'
<1>1. CASE UNCHANGED <<acq, sto, session>>
  BY <1>1 DEF Alone, Running
<1>2. CASE /\ Launch /\ Settled /\ Idle /\ on = 0 /\ session < MaxSession
           /\ UNCHANGED <<pipe, cancelA, cancelS>>
  BY <1>2, Launched, NobodyRuns DEF Alone, Running
<1>. QED BY <1>1, <1>2, MainMoves DEF Inductive

(* While main() has a file opened the threads are not there or wait. *)
LEMMA Silent ==
    ASSUME Inductive, Quiet, NEW k \in Sessions, AcqStep(k) \/ StoStep(k)
    PROVE  /\ main.at \notin {"flag", "open"}
           /\ ~(main.at \in {"init", "count"} /\ main.store)
<1>1. Running(k)
  BY ThreadRuns DEF Inductive
<1>2. ASSUME main.at \in {"flag", "open"}, Asleep(k) PROVE FALSE
  <2>1. ~cancelA[k] /\ ~cancelS[k]
    BY <1>2 DEF Asleep, Inductive, Threads, Present
  <2>. QED
    BY <1>2, <2>1
       DEF Asleep, AcqStep, AcqSetup, AcqReceive, AcqWrite, AcqCheck, AcqCancelled,
           StoStep, StoRead, StoGlobal, StoFwrite, StoDispatch, StoCheck, StoCancelled
<1>. QED BY <1>1, <1>2 DEF Quiet

LEMMA MainQuiet ==
    ASSUME HumanPaced, ~StoreLate, Inductive, Quiet, Request \/ MainStep
    PROVE  Quiet'
<1>0. MainTyped /\ Typed
  BY DEF Inductive, Typed
<1>. USE MainSteps DEF Labels
<1>1. CASE /\ Launch /\ Settled /\ Idle /\ on = 0 /\ session < MaxSession
           /\ main'.at \in {"idle", "flag"}
           /\ UNCHANGED <<pipe, cancelA, cancelS>>
  <2>1. \A k \in Sessions : ~Running(k)' \/ Asleep(k)'
    BY <1>1, Launched, NobodyRuns DEF Running, Asleep
  <2>. QED BY <1>1, <2>1 DEF Quiet
<1>2. CASE /\ UNCHANGED <<on, acq, sto, session, pipe>>
           /\ \/ main'.at \notin {"init", "count", "flag", "open"}
              \/ /\ main.at \in {"init", "count"} /\ main'.at \in {"init", "count"}
                 /\ main'.store = main.store
              \/ /\ (main.at = "init" /\ main.store) \/ main.at = "flag"
                 /\ main'.at = "open"
  BY <1>2 DEF Quiet, Running, Asleep
<1>3. CASE main'.at \notin {"init", "count", "flag", "open"}
  BY <1>3 DEF Quiet
<1>4. ASSUME NEW num \in 0 .. MaxBatch, NEW store \in BOOLEAN, ReceiveConfig(num, store)
      PROVE  Quiet'
  <2>1. /\ main'.at = "init" /\ main'.store = store /\ Settled /\ Idle
        /\ store => on = 0
        /\ UNCHANGED <<acq, sto>>
    BY <1>4 DEF ReceiveConfig
  <2>2. ASSUME store, NEW k \in Sessions PROVE ~Running(k)'
    BY <2>1, <2>2, NobodyRuns DEF Running
  <2>. QED BY <2>1, <2>2 DEF Quiet
<1>5. ASSUME NEW needed \in BOOLEAN, StartWoMsg(needed) PROVE Quiet'
  <2>1. CASE main'.at = "idle"
    BY <2>1 DEF Quiet
  <2>. QED BY <1>0, <1>1, <1>5, <2>1 DEF StartWoMsg
<1>6. CASE StartMsg \/ StopMsg \/ CurrReq
  BY <1>0, <1>3, <1>6 DEF StartMsg, StopMsg, CurrReq
<1>7. ASSUME NEW o \in 0 .. ArraySize, RealReq(o) PROVE Quiet'
  BY <1>3, <1>7 DEF RealReq, Idle
<1>8. CASE ConfigInit \/ ConfigFlag
  BY <1>0, <1>2, <1>8 DEF ConfigInit, ConfigFlag
<1>9. CASE ConfigCount
  <2>1. main' = [at |-> "init", left |-> main.left - 1, store |-> main.store]
    BY <1>0, <1>9 DEF ConfigCount, MainTyped
  <2>. QED BY <1>2, <1>9, <2>1 DEF ConfigCount
<1>10. CASE ConfigOpen \/ ConfigReply \/ StopCancelRead \/ StopCancelWrite \/ StopForget
            \/ StopReply
  BY <1>0, <1>3, <1>10
     DEF ConfigOpen, ConfigReply, StopCancelRead, StopCancelWrite, StopForget, StopReply
<1>11. CASE StartWoFlag
  <2>1. CASE Goto("open") /\ UNCHANGED reply
    BY <1>0, <1>2, <1>11, <2>1 DEF StartWoFlag
  <2>2. CASE Reply(1)
    BY <1>0, <1>3, <2>2
  <2>. QED BY <1>11, <2>1, <2>2 DEF StartWoFlag
<1>. QED
  BY <1>4, <1>5, <1>6, <1>7, <1>8, <1>9, <1>10, <1>11 DEF Request, MainStep

LEMMA MainStreams ==
    ASSUME Inductive, Streams, Request \/ MainStep
    PROVE  Streams'
<1>0. Typed /\ MainTyped /\ Len(files) \in Nat
  BY DEF Inductive, Typed, FilesTyped
<1>. USE MainSteps DEF Labels
<1>1. ASSUME UNCHANGED sto PROVE \A k \in Sessions : sto'[k].pc = "fwrite" => globalfile # 0
  BY <1>1 DEF Streams
<1>2. CASE UNCHANGED <<writeGlobal, globalfile>> /\ main.at # "open"
  <2>1. CASE UNCHANGED sto
    BY <1>1, <1>2, <2>1 DEF Streams
  <2>2. CASE Launch /\ on = 0 /\ session < MaxSession /\ UNCHANGED <<pipe, cancelA, cancelS>>
    BY <1>2, <2>2, Launched DEF Streams
  <2>. QED BY <1>0, <2>1, <2>2, MainMoves
<1>3. CASE ConfigFlag \/ StartWoFlag
  <2>1. UNCHANGED <<sto, globalfile>> /\ (writeGlobal' = 0 \/ main'.at = "open")
    BY <1>0, <1>3 DEF ConfigFlag, StartWoFlag
  <2>. QED BY <1>1, <2>1 DEF Streams
<1>4. CASE ConfigOpen
  <2>1. globalfile' # 0 /\ UNCHANGED sto
    BY <1>0, <1>4 DEF ConfigOpen, OpenFile, Refused
  <2>. QED BY <2>1 DEF Streams
<1>5. CASE StopReply
  BY <1>1, <1>5 DEF StopReply, Streams
<1>. QED
  BY <1>2, <1>3, <1>4, <1>5
     DEF Request, MainStep, ReceiveConfig, StartMsg, StartWoMsg, StopMsg, RealReq, CurrReq,
         ConfigInit, ConfigCount, ConfigReply, StopCancelRead, StopCancelWrite, StopForget,
         globals, Idle

LEMMA ThreadOpened ==
    ASSUME Inductive, Opened, NEW k \in Sessions, AcqStep(k) \/ StoStep(k)
    PROVE  Opened'
<1>0. Typed /\ StoTyped
  BY DEF Inductive, Typed
<1>1. /\ Running(k)
      /\ \A l \in Sessions : l # k =>
           acq'[l] = acq[l] /\ sto'[l] = sto[l] /\ pipe'[l] = pipe[l]
      /\ UNCHANGED <<on, writeGlobal, globalfile, session, main>>
  BY <1>0, ThreadRuns DEF mainvars
<1>2. /\ main.at \notin {"flag", "open"}
      /\ ~(main.at \in {"init", "count"} /\ main.store)
  BY Silent DEF Opened
<1>3. Alone' /\ Quiet'
  BY <1>1, <1>2 DEF Opened, Alone, Quiet, Running
<1>4. sto'[k].pc = "fwrite" => sto[k].pc = "fwrite" \/ writeGlobal = 1
  <2>1. CASE AcqStep(k)
    BY <1>0, <2>1, AcqKinds DEF AcqOnly
  <2>2. CASE StoGlobal(k)
    BY <1>0, <2>2 DEF StoGlobal, StoGoto, StoTyped
  <2>3. CASE StoRead(k) \/ StoFwrite(k) \/ StoDispatch(k) \/ StoCheck(k) \/ StoCancelled(k)
    BY <1>0, <2>3
       DEF StoRead, StoFwrite, StoDispatch, StoCheck, StoCancelled, StoGoto, StoReset, StoTyped
  <2>. QED BY <2>1, <2>2, <2>3 DEF StoStep
<1>5. Streams'
  BY <1>1, <1>2, <1>4 DEF Opened, Streams
<1>. QED BY <1>3, <1>5 DEF Opened

LEMMA NextOpened ==
    ASSUME HumanPaced, ~StoreLate, Inductive, Opened, [Next]_vars
    PROVE  Opened'
<1>1. CASE Request \/ MainStep
  BY <1>1, MainAlone, MainQuiet, MainStreams DEF Opened
<1>2. ASSUME NEW k \in Sessions, AcqStep(k) \/ StoStep(k) PROVE Opened'
  BY <1>2, ThreadOpened
<1>3. CASE UNCHANGED vars
  BY <1>3 DEF vars, globals, mainvars, Opened, Alone, Quiet, Streams, Running, Asleep
<1>. QED BY <1>1, <1>2, <1>3 DEF Next

LEMMA NextCrash ==
    ASSUME MaxConfig < ArraySize, Inductive, Opened, OnlyRefusedOpenCrashes, [Next]_vars
    PROVE  OnlyRefusedOpenCrashes'
<1>0. /\ config_count \in 0 .. MaxConfig /\ MaxConfig \in Nat /\ ArraySize \in Nat
      /\ DOMAIN obj = 0 .. ArraySize - 1 /\ main.left \in Nat /\ Typed
      /\ globalfile < 1 /\ globalfile # 0 => globalfile = Refused
  <2>1. globalfile < 1 /\ globalfile # 0 => globalfile = Refused
    BY FilePointer DEF Inductive, Typed
  <2>. QED BY <2>1, ServerAssumption DEF Inductive, Typed, FlagsTyped, ObjTyped, MainTyped
<1>. SUFFICES ASSUME ~crashed, crashed' PROVE globalfile' = Refused
  BY DEF OnlyRefusedOpenCrashes, Next, vars, globals
<1>1. ~ConfigInit
  <2>1. ASSUME ConfigInit PROVE ~(config_count >= ArraySize)
    BY <1>0, <2>1 DEF ConfigInit, Inductive, Counting
  <2>. QED BY Zenon, <2>1 DEF ConfigInit
<1>2. ASSUME NEW o \in 0 .. ArraySize PROVE ~RealReq(o)
  <2>1. ~RefuseReal(o) => o \in DOMAIN obj
    BY <1>0 DEF RefuseReal
  <2>. QED BY Zenon, <2>1 DEF RealReq
<1>3. CASE CurrReq
  <2>1. writeGlobal = 1 /\ globalfile < 1 /\ UNCHANGED globalfile /\ main.at = "idle"
    BY <1>3 DEF CurrReq, Idle, globals
  <2>. QED BY <1>0, <2>1 DEF Opened, Streams
<1>4. ASSUME NEW k \in Sessions, StoFwrite(k) PROVE globalfile' = Refused
  <2>1. sto[k].pc = "fwrite" /\ globalfile < 1 /\ UNCHANGED globalfile
    BY <1>4 DEF StoFwrite, StoOnly
  <2>. QED BY <1>0, <2>1 DEF Opened, Streams
<1>5. ASSUME Request \/ MainStep PROVE globalfile' = Refused
  BY <1>1, <1>2, <1>3, <1>5
     DEF Request, MainStep, ReceiveConfig, StartMsg, StartWoMsg, StopMsg,
         ConfigCount, ConfigFlag, ConfigOpen, ConfigReply, StartWoFlag,
         StopCancelRead, StopCancelWrite, StopForget, StopReply
<1>6. ASSUME NEW k \in Sessions, AcqStep(k) \/ StoStep(k) PROVE globalfile' = Refused
  <2>1. CASE AcqStep(k)
    BY <1>0, <2>1, AcqKinds DEF AcqOnly
  <2>2. CASE StoStep(k)
    BY <1>4, <2>2 DEF StoStep, StoRead, StoGlobal, StoDispatch, StoCheck, StoCancelled
  <2>. QED BY <1>6, <2>1, <2>2
<1>. QED BY <1>5, <1>6 DEF Next, vars

(* With room in configuration[] for the packages the clients register (one *)
(* more than they register: REAL_REQ lets config_count itself through), a   *)
(* server whose clients pace themselves and ask for a bus file before they  *)
(* start dies of nothing but the NULL of an fopen that failed: it uses no   *)
(* FILE* before its fopen, none of a file not asked for, and no object past *)
(* the array.                                                               *)
THEOREM CrashesAreRefusals ==
    HumanPaced /\ ~StoreLate /\ MaxConfig < ArraySize
        => (Spec => []OnlyRefusedOpenCrashes)
<1>. SUFFICES ASSUME HumanPaced, ~StoreLate, MaxConfig < ArraySize
              PROVE  Spec => []OnlyRefusedOpenCrashes
  OBVIOUS
<1>1. Init => Inductive /\ Opened /\ OnlyRefusedOpenCrashes
  BY InitInductive, InitOpened DEF Init, OnlyRefusedOpenCrashes
<1>2. Inductive /\ Opened /\ OnlyRefusedOpenCrashes /\ [Next]_vars
        => Inductive' /\ Opened' /\ OnlyRefusedOpenCrashes'
  BY NextInductive, NextOpened, NextCrash
<1>. QED BY <1>1, <1>2, PTL DEF Spec

-----------------------------------------------------------------------------
(* BusFileWhole.                                                           *)

(* Between acquisitions a bus file that is going to be written is new.     *)
Clean ==
    on = 0 /\ main.at \in {"idle", "init", "count"} /\ writeGlobal = 1 =>
        /\ globalfile > 0 => files[globalfile] = <<>>
        /\ \A k \in Sessions : ~Live(k)

(* Message b of session k is the last one data_storage took from the pipe. *)
Taken(k, b) ==
    /\ sto[k].pc \in Carrying => sto[k].msg = [ses |-> k, n |-> b]
    /\ ~cancelS[k] =>
         \A j \in 1 .. Len(pipe[k]) : pipe[k][j] = [ses |-> k, n |-> b + j]
    /\ ~cancelA[k] /\ acq[k].pc \notin {"none", "dead"} =>
         /\ Written(k) = b + Len(pipe[k])
         /\ acq[k].pc = "write" => acq[k].msg = [ses |-> k, n |-> acq[k].n]

(* A bus file being written ends with the message before the one in hand,  *)
(* or with that one once it is written.                                    *)
Writer(k) ==
    /\ Live(k) /\ main.at # "open" /\ globalfile > 0
    /\ writeGlobal = 1 \/ sto[k].pc = "fwrite"
Stored(k, b) ==
    Writer(k) /\ files[globalfile] # <<>> =>
        files[globalfile][Len(files[globalfile])] =
            [ses |-> k, n |-> IF sto[k].pc \in {"global", "fwrite"} THEN b - 1 ELSE b]
Chain == session # 0 => \E b \in 0 .. InputLength : Taken(session, b) /\ Stored(session, b)

Filed == Clean /\ Chain /\ BusFileWhole

LEMMA InitFiled == Init => Filed
  BY DEF Init, Filed, Clean, Chain, BusFileWhole

(* A bus file just opened is empty. *)
LEMMA OpensEmpty ==
    ASSUME FilesTyped, OpenFile
    PROVE  globalfile' > 0 => files'[globalfile'] = <<>>
<1>1. CASE files' = Append(files, <<>>) /\ globalfile' = Len(files) + 1
  BY <1>1 DEF FilesTyped
<1>2. CASE globalfile' = Refused
  BY <1>2 DEF Refused
<1>. QED BY <1>1, <1>2 DEF OpenFile

LEMMA MainClean ==
    ASSUME Inductive, Opened, Clean, Request \/ MainStep
    PROVE  Clean'
<1>0. Typed /\ MainTyped
  BY DEF Inductive, Typed
<1>. USE MainSteps DEF Labels
<1>1. CASE main'.at \notin {"idle", "init", "count"} \/ writeGlobal' = 0 \/ on' = 1
  BY <1>1 DEF Clean
<1>2. CASE /\ UNCHANGED <<on, writeGlobal, globalfile, files, sto>>
           /\ main.at \in {"idle", "init", "count"}
  BY <1>2 DEF Clean, Live
<1>3. CASE ConfigOpen
  <2>1. UNCHANGED <<on, sto>> /\ main.at = "open"
    BY <1>3 DEF ConfigOpen
  <2>2. globalfile' > 0 => files'[globalfile'] = <<>>
    BY <1>0, <1>3, OpensEmpty DEF Typed, ConfigOpen
  <2>3. on = 0 => \A k \in Sessions : ~Live(k)'
    BY <2>1 DEF Opened, Quiet, Asleep, Running, Live
  <2>. QED BY <2>1, <2>2, <2>3 DEF Clean
<1>4. CASE StopMsg
  <2>1. CASE on' = 0 /\ Goto("cancelRead")
    BY <1>0, <1>1, <2>1
  <2>2. CASE UNCHANGED on
    BY <1>2, <1>4, <2>2 DEF StopMsg, Idle
  <2>. QED BY <1>4, <2>1, <2>2 DEF StopMsg
<1>5. CASE StartWoFlag \/ StopReply \/ StopCancelRead \/ StopCancelWrite \/ StopForget \/ ConfigFlag
  BY <1>0, <1>1, <1>5
     DEF StartWoFlag, StopReply, StopCancelRead, StopCancelWrite, StopForget, ConfigFlag
<1>6. CASE StartMsg
  BY <1>1, <1>2, <1>6 DEF StartMsg, Launch, Idle
<1>7. ASSUME NEW needed \in BOOLEAN, StartWoMsg(needed) PROVE Clean'
  BY <1>1, <1>2, <1>7 DEF StartWoMsg, Launch, Idle
<1>. QED
  BY <1>2, <1>3, <1>4, <1>5, <1>6, <1>7
     DEF Request, MainStep, ReceiveConfig, RealReq, CurrReq, ConfigInit, ConfigCount,
         ConfigReply, globals, Idle

(* What main() may do to the threads, the pipe and the file of the last    *)
(* acquisition without breaking the chain.                                 *)
LEMMA SameChain ==
    ASSUME Inductive, Chain, UNCHANGED <<session, acq, sto>>,
           session \in Sessions =>
               /\ cancelA[session] => cancelA'[session]
               /\ cancelS[session] => cancelS'[session]
               /\ pipe'[session] = pipe[session] \/ (cancelA[session] /\ cancelS[session]),
           \/ main'.at = "open"
           \/ /\ UNCHANGED <<globalfile, files>> /\ main.at # "open"
              /\ writeGlobal' = writeGlobal \/ writeGlobal' = 0
           \/ globalfile' > 0 => files'[globalfile'] = <<>>
    PROVE  Chain'
<1>. SUFFICES ASSUME session # 0
              PROVE  \E b \in 0 .. InputLength : Taken(session, b)' /\ Stored(session, b)'
  BY DEF Chain
<1>0. session \in Sessions
  BY ServerAssumption DEF Inductive, Typed, FlagsTyped, Sessions
<1>1. PICK b \in 0 .. InputLength : Taken(session, b) /\ Stored(session, b)
  BY DEF Chain
<1>2. Taken(session, b)'
  BY <1>0, <1>1 DEF Taken, Written
<1>3. Stored(session, b)'
  BY <1>1 DEF Stored, Writer, Live
<1>. QED BY <1>2, <1>3

LEMMA MainChain ==
    ASSUME Inductive, Clean, Chain, Request \/ MainStep
    PROVE  Chain'
<1>0. /\ Typed /\ MainTyped /\ CancelTyped /\ PipeTyped
      /\ FilesTyped /\ InputLength \in Nat
  BY ServerAssumption DEF Inductive, Typed
<1>. USE MainSteps DEF Labels
<1>1. CASE /\ Launch /\ Idle /\ on = 0 /\ session < MaxSession
           /\ UNCHANGED <<pipe, writeGlobal, globalfile, files, cancelA, cancelS>>
  <2>1. Taken(session, 0)'
    BY <1>1, Launched DEF Taken, Written, Carrying
  <2>2. Stored(session, 0)'
    BY <1>1, Launched DEF Stored, Writer, Clean, Idle
  <2>3. 0 \in 0 .. InputLength
    BY <1>0
  <2>. QED BY <2>1, <2>2, <2>3 DEF Chain
<1>2. CASE UNCHANGED <<acq, sto, session, cancelA, cancelS, pipe, writeGlobal, globalfile, files>>
           /\ main.at # "open"
  BY <1>2, SameChain
<1>3. CASE ConfigFlag \/ StartWoFlag
  <2>1. /\ UNCHANGED <<acq, sto, session, cancelA, cancelS, pipe, globalfile, files>>
        /\ main.at # "open"
        /\ main'.at = "open" \/ writeGlobal' = 0
    BY <1>0, <1>3 DEF ConfigFlag, StartWoFlag
  <2>. QED BY <2>1, SameChain
<1>4. CASE ConfigOpen
  <2>1. UNCHANGED <<acq, sto, session, cancelA, cancelS, pipe>>
    BY <1>4 DEF ConfigOpen
  <2>2. globalfile' > 0 => files'[globalfile'] = <<>>
    BY <1>0, <1>4, OpensEmpty DEF ConfigOpen
  <2>. QED BY <2>1, <2>2, SameChain
<1>5. CASE StopCancelRead \/ StopCancelWrite
  <2>1. /\ UNCHANGED <<acq, sto, session, pipe, writeGlobal, globalfile, files>>
        /\ main.at # "open"
        /\ session \in Sessions =>
             /\ cancelA[session] => cancelA'[session]
             /\ cancelS[session] => cancelS'[session]
    BY <1>0, <1>5 DEF StopCancelRead, StopCancelWrite, globals, CancelTyped
  <2>. QED BY <2>1, SameChain
<1>6. CASE StopReply
  <2>1. /\ UNCHANGED <<acq, sto, session, cancelA, cancelS, globalfile, files>>
        /\ main.at = "nowrite" /\ writeGlobal' = 0
    BY <1>6 DEF StopReply
  <2>2. session \in Sessions => cancelA[session] /\ cancelS[session]
    <3>1. on = 0
      BY <2>1 DEF Inductive, Threads, Present, Typed, FlagsTyped
    <3>. QED BY <2>1, <3>1 DEF Inductive, Threads, Stopped
  <2>. QED BY <2>1, <2>2, SameChain
<1>7. CASE StartMsg
  BY <1>1, <1>2, <1>7 DEF StartMsg, Idle
<1>8. ASSUME NEW needed \in BOOLEAN, StartWoMsg(needed) PROVE Chain'
  BY <1>1, <1>2, <1>8 DEF StartWoMsg, Idle
<1>. QED
  BY <1>2, <1>3, <1>4, <1>5, <1>6, <1>7, <1>8
     DEF Request, MainStep, ReceiveConfig, StopMsg, RealReq, CurrReq, ConfigInit,
         ConfigCount, ConfigReply, StopForget, globals, Idle

LEMMA ThreadClean ==
    ASSUME Typed, Clean, NEW k \in Sessions, AcqStep(k) \/ StoStep(k)
    PROVE  Clean'
<1>0. StoTyped
  BY DEF Typed
<1>1. UNCHANGED <<on, writeGlobal, globalfile, main>>
  BY ThreadRuns DEF mainvars
<1>2. CASE AcqStep(k)
  BY <1>1, <1>2, AcqKinds DEF AcqOnly, Clean, Live
<1>3. CASE StoStep(k)
  <2>1. Live(k)
    BY <1>3 DEF StoStep, StoRead, StoGlobal, StoFwrite, StoDispatch, StoCheck, StoCancelled, Live
  <2>. QED BY <1>1, <2>1 DEF Clean
<1>. QED BY <1>2, <1>3

LEMMA AcqChain ==
    ASSUME Inductive, Opened, Chain, NEW k \in Sessions, AcqStep(k)
    PROVE  Chain'
<1>0. Typed /\ AcqTyped /\ PipeTyped /\ k # 0 /\ k = session
  <2>1. k = session /\ Typed
    BY ThreadRuns DEF Inductive, Opened, Alone
  <2>. QED BY <2>1, ServerAssumption DEF Typed, Sessions
<1>1. UNCHANGED <<session, cancelA, cancelS, main, writeGlobal, globalfile, files, sto>>
  BY <1>0, AcqKinds DEF AcqOnly, globals, mainvars
<1>2. PICK b \in 0 .. InputLength : Taken(k, b) /\ Stored(k, b)
  BY <1>0 DEF Chain
<1>3. Stored(k, b)'
  BY <1>1, <1>2 DEF Stored, Writer, Live
<1>4. Taken(k, b)'
  <2>0. acq[k].n \in Nat /\ pipe[k] \in Seq(Message)
    BY <1>0, ServerAssumption DEF AcqTyped, PipeTyped
  <2>1. CASE UNCHANGED <<acq, pipe>>
    BY <1>1, <1>2, <2>1 DEF Taken, Written
  <2>2. CASE AcqMoves(k)
    <3>1. /\ UNCHANGED pipe /\ acq'[k].pc \in {"receive", "check"} /\ acq'[k].n = acq[k].n
          /\ acq[k].pc \in {"setup", "receive", "check"}
      BY <1>0, <2>2 DEF AcqMoves, AcqAt, AcqTyped
    <3>. QED BY <1>1, <1>2, <3>1 DEF Taken, Written
  <2>3. CASE AcqReads(k)
    <3>1. /\ UNCHANGED pipe /\ acq[k].pc = "receive"
          /\ acq'[k] = [pc |-> "write", n |-> acq[k].n + 1,
                        msg |-> [ses |-> k, n |-> acq[k].n + 1]]
      BY <1>0, <2>3 DEF AcqReads, AcqAt, AcqTyped
    <3>. QED BY <1>1, <1>2, <2>0, <3>1 DEF Taken, Written
  <2>4. CASE AcqDies(k)
    <3>1. UNCHANGED pipe /\ acq'[k].pc = "dead"
      BY <1>0, <2>4 DEF AcqDies, AcqAt, AcqTyped
    <3>. QED BY <1>1, <1>2, <3>1 DEF Taken
  <2>5. CASE AcqWrites(k)
    <3>1. /\ acq[k].pc = "write" /\ ~cancelA[k]
          /\ acq'[k] = [pc |-> "check", n |-> acq[k].n, msg |-> NoMessage]
          /\ pipe'[k] = Append(pipe[k], acq[k].msg)
      BY <1>0, <2>5 DEF AcqWrites, AcqAt, AcqTyped, PipeTyped
    <3>2. /\ acq[k].msg = [ses |-> k, n |-> acq[k].n] /\ acq[k].n = b + Len(pipe[k]) + 1
          /\ acq[k].msg \in Message
      BY <1>2, <2>0, <3>1 DEF Taken, Written, Inductive, Carried
    <3>3. /\ Len(pipe'[k]) = Len(pipe[k]) + 1
          /\ \A j \in 1 .. Len(pipe[k]) : pipe'[k][j] = pipe[k][j]
          /\ pipe'[k][Len(pipe[k]) + 1] = acq[k].msg
      BY <2>0, <3>1, <3>2
    <3>4. ASSUME ~cancelS[k], NEW j \in 1 .. Len(pipe'[k])
          PROVE  pipe'[k][j] = [ses |-> k, n |-> b + j]
      <4>1. CASE j = Len(pipe[k]) + 1
        BY <2>0, <3>2, <3>3, <4>1
      <4>2. CASE j \in 1 .. Len(pipe[k])
        BY <1>2, <3>3, <3>4, <4>2 DEF Taken
      <4>. QED BY <2>0, <3>3, <4>1, <4>2
    <3>. QED BY <1>1, <1>2, <2>0, <3>1, <3>2, <3>3, <3>4 DEF Taken, Written
  <2>. QED BY <1>0, <2>1, <2>2, <2>3, <2>4, <2>5, AcqKinds
<1>. QED BY <1>0, <1>1, <1>2, <1>3, <1>4 DEF Chain

(* A sequence of consecutive messages may be continued by the next one. *)
LEMMA Continued ==
    ASSUME NEW s \in Seq(Message), NEW m \in Message, Consecutive(s),
           s # <<>> => s[Len(s)].ses = m.ses /\ s[Len(s)].n = m.n - 1
    PROVE  Consecutive(Append(s, m))
<1>1. /\ Len(s) \in Nat /\ Len(Append(s, m)) = Len(s) + 1 /\ Append(s, m)[Len(s) + 1] = m
      /\ \A j \in 1 .. Len(s) : Append(s, m)[j] = s[j]
  OBVIOUS
<1>2. m.n \in Nat /\ (Len(s) = 0 <=> s = <<>>)
  BY ServerAssumption DEF Message
<1>. SUFFICES ASSUME NEW j \in 1 .. Len(Append(s, m)) - 1
              PROVE  /\ Append(s, m)[j + 1].ses = Append(s, m)[j].ses
                     /\ Append(s, m)[j + 1].n = Append(s, m)[j].n + 1
  BY DEF Consecutive
<1>3. CASE j = Len(s)
  <2>1. Append(s, m)[j + 1] = m /\ Append(s, m)[j] = s[Len(s)] /\ s # <<>>
    BY <1>1, <1>2, <1>3
  <2>. QED BY <1>2, <2>1
<1>4. CASE j < Len(s)
  <2>1. Append(s, m)[j + 1] = s[j + 1] /\ Append(s, m)[j] = s[j] /\ j \in 1 .. Len(s) - 1
    BY <1>1, <1>4
  <2>. QED BY <2>1 DEF Consecutive
<1>. QED BY <1>1, <1>3, <1>4

LEMMA StoFiled ==
    ASSUME Inductive, Opened, Chain, BusFileWhole, NEW k \in Sessions, StoStep(k)
    PROVE  Chain' /\ BusFileWhole'
<1>0. /\ Typed /\ StoTyped /\ PipeTyped /\ FilesTyped /\ acq[k].n \in Nat /\ k # 0
      /\ k = session /\ InputLength \in Nat
  <2>1. k = session /\ Typed
    BY ThreadRuns DEF Inductive, Opened, Alone
  <2>. QED BY <2>1, ServerAssumption DEF Typed, Sessions, AcqTyped
<1>1. UNCHANGED <<session, cancelA, cancelS, main, writeGlobal, globalfile, acq>>
  BY <1>0, StoKinds DEF StoOnly, mainvars
<1>2. main.at # "open"
  BY Silent DEF Opened
<1>3. PICK b \in 0 .. InputLength : Taken(k, b) /\ Stored(k, b)
  BY <1>0 DEF Chain
<1>4. ASSUME UNCHANGED files PROVE BusFileWhole'
  BY <1>4 DEF BusFileWhole
<1>5. ASSUME UNCHANGED pipe,
             sto'[k].pc \in Carrying => sto[k].pc \in Carrying /\ sto'[k].msg = sto[k].msg
      PROVE  Taken(k, b)'
  BY <1>1, <1>3, <1>5 DEF Taken, Written
<1>6. ASSUME Taken(k, b)', Stored(k, b)' PROVE Chain'
  BY <1>0, <1>1, <1>6 DEF Chain
<1>7. CASE StoRead(k)
  <2>1. /\ sto[k].pc = "read" /\ ~cancelS[k] /\ pipe[k] # <<>> /\ UNCHANGED files
        /\ sto'[k] = [pc |-> "global", msg |-> Head(pipe[k]), i |-> 0]
        /\ pipe'[k] = Tail(pipe[k]) /\ pipe[k] \in Seq(Message)
    BY <1>0, <1>7 DEF StoRead, StoTyped, PipeTyped
  <2>2. /\ Len(pipe[k]) \in Nat \ {0} /\ Len(pipe'[k]) = Len(pipe[k]) - 1
        /\ Head(pipe[k]) = pipe[k][1] /\ pipe[k][1] \in Message
        /\ \A j \in 1 .. Len(pipe'[k]) : pipe'[k][j] = pipe[k][j + 1]
    BY <2>1
  <2>3. \A j \in 1 .. Len(pipe[k]) : pipe[k][j] = [ses |-> k, n |-> b + j]
    BY <1>3, <2>1 DEF Taken
  <2>4. Head(pipe[k]) = [ses |-> k, n |-> b + 1] /\ b + 1 \in 0 .. InputLength
    <3>0. 1 \in 1 .. Len(pipe[k])
      BY <2>2
    <3>1. Head(pipe[k]) = [ses |-> k, n |-> b + 1]
      BY <2>2, <2>3, <3>0
    <3>2. Head(pipe[k]).n \in 1 .. InputLength
      BY <2>2 DEF Message
    <3>. QED BY <1>0, <3>1, <3>2
  <2>5. ASSUME NEW j \in 1 .. Len(pipe'[k])
        PROVE  pipe'[k][j] = [ses |-> k, n |-> b + 1 + j]
    <3>1. j + 1 \in 1 .. Len(pipe[k]) /\ b + (j + 1) = b + 1 + j
      BY <2>2
    <3>2. pipe[k][j + 1] = [ses |-> k, n |-> b + (j + 1)]
      BY <2>3, <3>1
    <3>. QED BY <2>2, <3>1, <3>2
  <2>6. Taken(k, b + 1)'
    <3>1. Written(k)' = Written(k) /\ Written(k) \in Int
      BY <1>0, <1>1 DEF Written
    <3>2. Written(k) = b + Len(pipe[k]) => Written(k) = b + 1 + Len(pipe'[k])
      BY <2>2, <3>1
    <3>3. /\ sto'[k].msg = [ses |-> k, n |-> b + 1]
          /\ ~cancelA[k] /\ acq[k].pc \notin {"none", "dead"} =>
               /\ Written(k) = b + Len(pipe[k])
               /\ acq[k].pc = "write" => acq[k].msg = [ses |-> k, n |-> acq[k].n]
      BY <1>3, <2>1, <2>4 DEF Taken
    <3>. QED BY <1>1, <2>5, <3>1, <3>2, <3>3 DEF Taken
  <2>7. Stored(k, b + 1)'
    BY <1>1, <1>3, <2>1 DEF Stored, Writer, Live
  <2>. QED BY <1>0, <1>1, <1>4, <2>1, <2>4, <2>6, <2>7 DEF Chain
<1>8. CASE StoGlobal(k)
  <2>1. /\ UNCHANGED <<pipe, files>> /\ sto[k].pc = "global" /\ sto'[k].msg = sto[k].msg
        /\ sto'[k].pc = IF writeGlobal = 1 THEN "fwrite" ELSE "dispatch"
    BY <1>0, <1>8 DEF StoGlobal, StoGoto, StoTyped
  <2>2. Stored(k, b)'
    BY <1>1, <1>3, <2>1 DEF Stored, Writer, Live
  <2>. QED BY <1>4, <1>5, <1>6, <2>1, <2>2 DEF Carrying
<1>9. CASE StoFwrite(k) /\ globalfile > 0
  <2>1. /\ UNCHANGED pipe /\ sto[k].pc = "fwrite" /\ sto'[k].msg = sto[k].msg
        /\ sto'[k].pc = "dispatch" /\ globalfile > 0
        /\ files' = [files EXCEPT ![globalfile] = Append(@, sto[k].msg)]
    BY <1>0, <1>9, FilePointer DEF StoFwrite, StoGoto, StoTyped
  <2>2. /\ globalfile \in DOMAIN files /\ files[globalfile] \in Seq(Message)
        /\ sto[k].msg \in Message /\ sto[k].msg = [ses |-> k, n |-> b]
    BY <1>0, <1>3, <2>1 DEF FilesTyped, Taken, Carrying, Inductive, Carried
  <2>. DEFINE s == files[globalfile]
              m == sto[k].msg
  <2>3. s # <<>> => s[Len(s)] = [ses |-> k, n |-> b - 1]
    BY <1>2, <1>3, <2>1 DEF Stored, Writer, Live
  <2>4. Consecutive(Append(s, m))
    BY <2>2, <2>3, Continued DEF BusFileWhole
  <2>5. /\ DOMAIN files' = DOMAIN files /\ files'[globalfile] = Append(s, m)
        /\ \A f \in DOMAIN files : f # globalfile => files'[f] = files[f]
    BY <1>0, <2>1, <2>2 DEF FilesTyped
  <2>6. BusFileWhole'
    BY <2>4, <2>5 DEF BusFileWhole
  <2>7. Append(s, m)[Len(Append(s, m))] = m
    BY <2>2
  <2>8. Stored(k, b)'
    BY <1>1, <2>1, <2>2, <2>5, <2>7 DEF Stored
  <2>. QED BY <1>5, <1>6, <2>1, <2>6, <2>8 DEF Carrying
<1>12. CASE StoFwrite(k) /\ ~(globalfile > 0)
  <2>1. UNCHANGED <<pipe, files, sto>>
    BY <1>0, <1>12, FilePointer DEF StoFwrite
  <2>2. Stored(k, b)'
    BY <1>1, <1>3, <2>1 DEF Stored, Writer, Live
  <2>. QED BY <1>4, <1>5, <1>6, <2>1, <2>2
<1>10. CASE StoDispatch(k)
  <2>1. /\ UNCHANGED <<pipe, files>> /\ sto[k].pc = "dispatch" /\ sto'[k].msg = sto[k].msg
        /\ sto'[k].pc \in {"dispatch", "check"}
    BY <1>0, <1>10 DEF StoDispatch, StoGoto, StoTyped
  <2>2. Stored(k, b)'
    BY <1>1, <1>3, <2>1 DEF Stored, Writer, Live
  <2>. QED BY <1>4, <1>5, <1>6, <2>1, <2>2 DEF Carrying
<1>11. CASE StoCheck(k) \/ StoCancelled(k)
  <2>1. /\ UNCHANGED <<pipe, files>> /\ sto'[k].pc \in {"read", "dead"}
        /\ sto'[k].pc = "read" => sto[k].pc = "check"
    BY <1>0, <1>11 DEF StoCheck, StoCancelled, StoReset, StoTyped
  <2>2. Stored(k, b)'
    BY <1>1, <1>3, <2>1 DEF Stored, Writer, Live
  <2>. QED BY <1>4, <1>5, <1>6, <2>1, <2>2 DEF Carrying
<1>. QED BY <1>7, <1>8, <1>9, <1>10, <1>11, <1>12 DEF StoStep

LEMMA NextFiled ==
    ASSUME HumanPaced, ~StoreLate, Inductive, Opened, Filed, [Next]_vars
    PROVE  Filed'
<1>1. CASE Request \/ MainStep
  <2>1. /\ Clean' /\ Chain'
    BY <1>1, MainClean, MainChain DEF Filed
  <2>2. UNCHANGED files \/ files' = Append(files, <<>>)
    BY <1>1
       DEF Request, MainStep, ReceiveConfig, StartMsg, StartWoMsg, StopMsg, RealReq, CurrReq,
           ConfigInit, ConfigCount, ConfigFlag, ConfigOpen, ConfigReply, StartWoFlag,
           StopCancelRead, StopCancelWrite, StopForget, StopReply, OpenFile, globals
  <2>3. files \in Seq(Seq(Message)) /\ <<>> \in Seq(Message)
    BY DEF Inductive, Typed, FilesTyped
  <2>4. Consecutive(<<>>)
    BY DEF Consecutive
  <2>5. BusFileWhole'
    BY <2>2, <2>3, <2>4 DEF Filed, BusFileWhole
  <2>. QED BY <2>1, <2>5 DEF Filed
<1>2. ASSUME NEW k \in Sessions, AcqStep(k) PROVE Filed'
  <2>1. UNCHANGED files
    BY <1>2, AcqKinds DEF AcqOnly, Inductive
  <2>. QED BY <1>2, <2>1, ThreadClean, AcqChain DEF Filed, BusFileWhole, Inductive
<1>3. ASSUME NEW k \in Sessions, StoStep(k) PROVE Filed'
  BY <1>3, ThreadClean, StoFiled DEF Filed, Inductive
<1>4. CASE UNCHANGED vars
  BY <1>4 DEF vars, globals, mainvars, Filed, Clean, Chain, Taken, Stored, Writer, Live,
              Written, BusFileWhole
<1>. QED BY <1>1, <1>2, <1>3, <1>4 DEF Next

(* A bus file holds a gap-free run of messages of one acquisition, however  *)
(* long the acquisitions, the pipe and the files are.                      *)
THEOREM BusFilesWhole == HumanPaced /\ ~StoreLate => (Spec => []BusFileWhole)
<1>. SUFFICES ASSUME HumanPaced, ~StoreLate PROVE Spec => []BusFileWhole
  OBVIOUS
<1>1. Init => Inductive /\ Opened /\ Filed
  BY InitInductive, InitOpened, InitFiled
<1>2. Inductive /\ Opened /\ Filed /\ [Next]_vars => Inductive' /\ Opened' /\ Filed'
  BY NextInductive, NextOpened, NextFiled
<1>3. Filed => BusFileWhole
  BY DEF Filed
<1>. QED BY <1>1, <1>2, <1>3, PTL DEF Spec

-----------------------------------------------------------------------------
(* ObjectsAgree.                                                           *)

(* The number of the last message taken from the pipe, and the objects that *)
(* have not been handed it yet.                                            *)
Through == Written(session) - Len(pipe[session])
Behind(i) ==
    \/ sto[session].pc \in {"global", "fwrite"}
    \/ sto[session].pc = "dispatch" /\ i >= sto[session].i

(* An object is empty until its acquisition starts. *)
Unfed ==
    /\ on = 0 /\ main.at \notin {"cancelRead", "cancelWrite", "forget"} =>
         \A i \in 0 .. config_count - 1 : obj[i].fed = <<>>
    /\ main.at = "count" => obj[config_count].fed = <<>>

(* An object that was fed anything was fed the last message taken, or the  *)
(* one before if its turn is still to come.                                *)
Abreast ==
    on = 1 =>
        /\ sto[session].pc \in {"global", "fwrite"} => sto[session].i = 0
        /\ sto[session].pc = "dispatch" => sto[session].i <= config_count
        /\ \A i \in 0 .. config_count - 1 :
             obj[i].fed # <<>> =>
                 obj[i].fed[Len(obj[i].fed)].n = IF Behind(i) THEN Through - 1 ELSE Through

LEMMA InitAbreast == Init => Unfed /\ Abreast
  BY DEF Init, Unfed, Abreast

(* The objects registered, and the one about to be, are in configuration[]. *)
LEMMA ObjectsInside ==
    ASSUME Typed, Counting, MaxConfig <= ArraySize
    PROVE  /\ DOMAIN obj = 0 .. ArraySize - 1 /\ config_count \in Nat
           /\ \A i \in 0 .. config_count - 1 : i \in DOMAIN obj /\ i # config_count
           /\ main.at = "count" => config_count \in DOMAIN obj
           /\ main.at = "init" /\ main.left > 0 => config_count \in DOMAIN obj
<1>1. /\ config_count \in 0 .. MaxConfig /\ MaxConfig \in Nat /\ ArraySize \in Nat
      /\ DOMAIN obj = 0 .. ArraySize - 1 /\ main.left \in Nat
  BY ServerAssumption DEF Typed, FlagsTyped, ObjTyped, MainTyped
<1>. QED BY <1>1 DEF Counting

LEMMA MainUnfed ==
    ASSUME MaxConfig <= ArraySize, Inductive, Unfed, Request \/ MainStep
    PROVE  Unfed'
<1>0. MainTyped /\ Typed /\ Counting
  BY DEF Inductive, Typed
<1>. USE MainSteps DEF Labels
<1>1. CASE on' = 1 /\ main'.at # "count"
  BY <1>1 DEF Unfed
<1>2. CASE /\ UNCHANGED <<on, obj, config_count>>
           /\ main.at \notin {"cancelRead", "cancelWrite", "forget"} /\ main'.at # "count"
  BY <1>2 DEF Unfed
<1>3. CASE main'.at \in {"cancelRead", "cancelWrite", "forget"}
  BY <1>3 DEF Unfed
<1>4. CASE ConfigInit
  <2>1. /\ main.at = "init" /\ main.left > 0 /\ UNCHANGED <<on, config_count>>
        /\ obj' = [i \in DOMAIN obj |-> IF i = config_count THEN Fresh ELSE obj[i]]
    BY <1>4 DEF ConfigInit
  <2>2. /\ \A i \in 0 .. config_count - 1 : obj'[i] = obj[i]
        /\ obj'[config_count].fed = <<>>
    BY <1>0, <2>1, ObjectsInside DEF Fresh
  <2>. QED BY <2>1, <2>2 DEF Unfed
<1>5. CASE ConfigCount
  <2>1. /\ main.at = "count" /\ main'.at = "init" /\ UNCHANGED <<on, obj>>
        /\ config_count' = config_count + 1 /\ config_count \in Nat
    BY <1>0, <1>5, ObjectsInside DEF ConfigCount, MainTyped
  <2>2. \A i \in 0 .. config_count' - 1 : i = config_count \/ i \in 0 .. config_count - 1
    BY <2>1
  <2>. QED BY <2>1, <2>2 DEF Unfed
<1>6. CASE StopForget
  <2>1. config_count' = 0 /\ main'.at = "nowrite"
    BY <1>0, <1>6 DEF StopForget
  <2>. QED BY <2>1 DEF Unfed
<1>7. CASE StopMsg
  <2>1. CASE on' = 0 /\ Goto("cancelRead")
    BY <1>0, <1>3, <2>1
  <2>2. CASE on = 0 /\ UNCHANGED on /\ Reply(0)
    BY <1>0, <1>2, <1>7, <2>2 DEF StopMsg, Idle
  <2>. QED BY <1>7, <2>1, <2>2 DEF StopMsg
<1>8. CASE StopCancelRead \/ StopCancelWrite
  BY <1>0, <1>3, <1>8 DEF StopCancelRead, StopCancelWrite
<1>9. CASE ConfigFlag \/ ConfigOpen \/ ConfigReply \/ StartWoFlag \/ StopReply \/ CurrReq
  <2>1. main'.at # "count" /\ UNCHANGED <<on, obj, config_count>>
        /\ main.at \notin {"cancelRead", "cancelWrite", "forget"}
    BY <1>0, <1>9 DEF ConfigFlag, ConfigOpen, ConfigReply, StartWoFlag, StopReply, CurrReq,
                      globals, Idle
  <2>. QED BY <1>2, <2>1
<1>10. CASE StartMsg
  <2>1. main'.at = "idle" /\ main.at = "idle" /\ UNCHANGED <<obj, config_count>>
        /\ (on' = 1 \/ UNCHANGED on)
    BY <1>0, <1>10 DEF StartMsg, Launch, Idle
  <2>. QED BY <1>1, <1>2, <2>1
<1>11. ASSUME NEW needed \in BOOLEAN, StartWoMsg(needed) PROVE Unfed'
  <2>1. main'.at \in {"idle", "flag"} /\ main.at = "idle" /\ UNCHANGED <<obj, config_count>>
        /\ (on' = 1 \/ UNCHANGED on)
    BY <1>0, <1>11 DEF StartWoMsg, Launch, Idle
  <2>. QED BY <1>1, <1>2, <2>1
<1>12. ASSUME NEW o \in 0 .. ArraySize, RealReq(o) PROVE Unfed'
  BY <1>2, <1>12 DEF RealReq, globals, Idle
<1>13. ASSUME NEW num \in 0 .. MaxBatch, NEW store \in BOOLEAN, ReceiveConfig(num, store)
       PROVE  Unfed'
  BY <1>2, <1>13 DEF ReceiveConfig, globals, Idle
<1>. QED
  BY <1>4, <1>5, <1>6, <1>7, <1>8, <1>9, <1>10, <1>11, <1>12, <1>13 DEF Request, MainStep

LEMMA MainAbreast ==
    ASSUME MaxConfig <= ArraySize, Inductive, Unfed, Abreast, Request \/ MainStep
    PROVE  Abreast'
<1>0. /\ Typed /\ Counting /\ config_count \in Nat /\ (on = 0 \/ on = 1)
      /\ (on = 1 => sto[session].i \in Nat)
  BY ObjectsInside, ServerAssumption DEF Inductive, Typed, FlagsTyped, Threads, Present, StoTyped
<1>1. CASE /\ Launch /\ Idle /\ on = 0 /\ session < MaxSession
           /\ UNCHANGED <<pipe, cancelA, cancelS, config_count, obj>>
  <2>1. \A i \in 0 .. config_count - 1 : obj[i].fed = <<>>
    BY <1>1 DEF Unfed, Idle
  <2>2. sto'[session'].pc = "read"
    BY <1>1, Launched
  <2>. QED BY <1>1, <2>1, <2>2 DEF Abreast
<1>2. CASE on = 1 /\ UNCHANGED <<on, session, acq, sto, pipe>>
  <2>1. Through' = Through /\ \A i : Behind(i)' = Behind(i)
    BY <1>2 DEF Through, Written, Behind
  <2>2. CASE UNCHANGED <<config_count, obj>>
    BY <1>2, <2>1, <2>2 DEF Abreast
  <2>3. CASE ConfigInit
    <3>1. UNCHANGED config_count /\ \A i \in 0 .. config_count - 1 : obj'[i] = obj[i]
      BY <1>0, <2>3, ObjectsInside DEF ConfigInit
    <3>. QED BY <1>2, <2>1, <3>1 DEF Abreast
  <2>4. CASE ConfigCount
    <3>1. /\ UNCHANGED obj /\ config_count' = config_count + 1
          /\ obj[config_count].fed = <<>>
      BY <2>4 DEF ConfigCount, Unfed
    <3>2. \A i \in 0 .. config_count' - 1 : i = config_count \/ i \in 0 .. config_count - 1
      BY <1>0, <3>1
    <3>3. sto[session].pc = "dispatch" => sto[session].i <= config_count'
      BY <1>0, <1>2, <3>1 DEF Abreast
    <3>. QED BY <1>2, <2>1, <3>1, <3>2, <3>3 DEF Abreast
  <2>5. CASE StopForget
    BY <1>2, <2>5 DEF StopForget, Inductive, Threads, Present
  <2>. QED
    BY <2>2, <2>3, <2>4, <2>5
       DEF Request, MainStep, ReceiveConfig, StartMsg, StartWoMsg, StopMsg, RealReq, CurrReq,
           ConfigFlag, ConfigOpen, ConfigReply, StartWoFlag,
           StopCancelRead, StopCancelWrite, StopReply, globals
<1>3. CASE on' = 0
  BY <1>3 DEF Abreast
<1>4. CASE StopReply
  BY <1>0, <1>3, <1>4 DEF StopReply, Inductive, Threads, Present
<1>5. CASE StopMsg
  BY <1>0, <1>2, <1>3, <1>5 DEF StopMsg
<1>6. CASE StartMsg
  BY <1>0, <1>1, <1>2, <1>3, <1>6 DEF StartMsg
<1>7. ASSUME NEW needed \in BOOLEAN, StartWoMsg(needed) PROVE Abreast'
  BY <1>0, <1>1, <1>2, <1>3, <1>7 DEF StartWoMsg
<1>8. CASE UNCHANGED <<on, session, acq, sto, pipe>>
  BY <1>0, <1>2, <1>3, <1>8
<1>. QED
  BY <1>4, <1>5, <1>6, <1>7, <1>8
     DEF Request, MainStep, ReceiveConfig, RealReq, CurrReq, ConfigInit, ConfigCount,
         ConfigFlag, ConfigOpen, ConfigReply, StartWoFlag, StopCancelRead, StopCancelWrite,
         StopForget, globals

(* Only a dispatch changes an object, the one whose turn it is. *)
Fed(k) ==
    /\ sto[k].pc = "dispatch" /\ sto[k].i < config_count /\ sto[k].i \in DOMAIN obj
    /\ sto'[k].pc = "dispatch" /\ sto'[k].i = sto[k].i + 1
    /\ UNCHANGED pipe
    /\ \A i \in DOMAIN obj :
         obj'[i].fed = IF i = sto[k].i THEN Append(obj[i].fed, sto[k].msg) ELSE obj[i].fed

LEMMA StoFeeds ==
    ASSUME Typed, NEW k \in Sessions, StoStep(k)
    PROVE  \/ Fed(k)
           \/ /\ UNCHANGED obj
              /\ sto[k].pc = "dispatch" =>
                   \/ sto'[k].pc = "dead"
                   \/ sto[k].i >= config_count /\ sto'[k].pc = "check" /\ UNCHANGED pipe
<1>0. StoTyped /\ ObjTyped
  BY DEF Typed
<1>1. CASE StoDispatch(k)
  <2>1. ASSUME sto[k].i \in DOMAIN obj, Feed(sto[k].i, sto[k].msg)
        PROVE  \A i \in DOMAIN obj : obj'[i].fed = IF i = sto[k].i
                                                   THEN Append(obj[i].fed, sto[k].msg)
                                                   ELSE obj[i].fed
    <3>1. PICK rdy : obj' = [obj EXCEPT ![sto[k].i].fed = Append(@, sto[k].msg),
                                        ![sto[k].i].rdy = rdy]
      BY <2>1 DEF Feed
    <3>. QED BY <1>0, <2>1, <3>1 DEF ObjTyped
  <2>2. sto[k].pc = "dispatch" /\ sto[k].i \in Nat
    BY <1>0, <1>1, ServerAssumption DEF StoDispatch, StoTyped
  <2>3. CASE /\ sto[k].i < config_count /\ sto[k].i \in DOMAIN obj
             /\ Feed(sto[k].i, sto[k].msg) /\ sto' = [sto EXCEPT ![k].i = @ + 1]
    <3>1. sto'[k].pc = "dispatch" /\ sto'[k].i = sto[k].i + 1
      BY <1>0, <2>2, <2>3 DEF StoTyped
    <3>. QED BY <1>1, <2>1, <2>2, <2>3, <3>1 DEF Fed, StoDispatch
  <2>4. CASE sto[k].i >= config_count /\ StoGoto(k, "check") /\ UNCHANGED obj
    BY <1>0, <1>1, <2>4 DEF StoDispatch, StoGoto, StoTyped
  <2>. QED BY <1>1, <2>3, <2>4 DEF StoDispatch
<1>2. CASE StoRead(k) \/ StoGlobal(k) \/ StoFwrite(k) \/ StoCheck(k)
  BY <1>2 DEF StoRead, StoGlobal, StoFwrite, StoCheck
<1>3. CASE StoCancelled(k)
  BY <1>0, <1>3 DEF StoCancelled, StoReset, StoTyped
<1>. QED BY <1>1, <1>2, <1>3 DEF StoStep

LEMMA ThreadUnfed ==
    ASSUME HumanPaced, MaxConfig <= ArraySize, Inductive, Paced, Unfed,
           NEW k \in Sessions, AcqStep(k) \/ StoStep(k)
    PROVE  Unfed'
<1>0. Typed /\ Counting /\ session \in Nat /\ k \in Nat
  BY ServerAssumption DEF Inductive, Typed, FlagsTyped, Sessions
<1>1. UNCHANGED <<on, config_count, main>>
  BY <1>0, ThreadRuns DEF mainvars
<1>2. CASE UNCHANGED obj
  BY <1>1, <1>2 DEF Unfed
<1>3. CASE Fed(k)
  <2>0. config_count # 0
    BY <1>0, <1>3, ServerAssumption DEF Fed, Typed, StoTyped
  <2>1. Meant = k
    BY <1>3, <2>0, StoMeant DEF Fed, Live
  <2>2. ~(k > session)
    BY <1>3 DEF Inductive, Threads, Future, Unborn, Fed
  <2>3. on = 1 \/ main.at \in {"cancelRead", "cancelWrite", "forget"}
    BY <1>0, <2>1, <2>2 DEF Meant
  <2>4. main.at = "count" => obj'[config_count].fed = obj[config_count].fed
    BY <1>0, <1>3, ObjectsInside DEF Fed
  <2>. QED BY <1>1, <2>3, <2>4 DEF Unfed
<1>4. CASE AcqStep(k)
  BY <1>0, <1>2, <1>4, AcqKinds DEF AcqOnly, globals
<1>5. CASE StoStep(k)
  BY <1>0, <1>2, <1>3, <1>5, StoFeeds
<1>. QED BY <1>4, <1>5

LEMMA AcqAbreast ==
    ASSUME Inductive, Abreast, NEW k \in Sessions, AcqStep(k)
    PROVE  Abreast'
<1>. SUFFICES ASSUME on = 1 PROVE Abreast'
  BY AcqKinds DEF Inductive, AcqOnly, globals, Abreast
<1>0. /\ Typed /\ AcqTyped /\ PipeTyped /\ session \in Sessions
      /\ ~cancelA[session] /\ InputLength \in Nat
  BY ServerAssumption DEF Inductive, Typed, Threads, Present
<1>1. UNCHANGED <<on, config_count, session, obj, sto>>
  BY <1>0, AcqKinds DEF AcqOnly, globals
<1>2. Through' = Through
  <2>1. CASE k # session \/ UNCHANGED <<acq, pipe>>
    BY <1>0, <1>1, <2>1, ThreadRuns DEF Through, Written
  <2>. DEFINE p == pipe[session]
  <2>2. CASE k = session
    <3>0. acq[k].n \in Nat /\ p \in Seq(Message)
      BY <1>0 DEF AcqTyped, PipeTyped
    <3>1. CASE AcqMoves(k)
      BY <1>0, <1>1, <2>2, <3>0, <3>1 DEF AcqMoves, AcqAt, AcqTyped, Through, Written
    <3>2. CASE AcqReads(k)
      BY <1>0, <1>1, <2>2, <3>0, <3>2 DEF AcqReads, AcqAt, AcqTyped, Through, Written
    <3>3. CASE AcqWrites(k)
      <4>1. Written(k)' = acq[k].n /\ Written(k) = acq[k].n - 1 /\ pipe'[k] = Append(p, acq[k].msg)
        BY <1>0, <2>2, <3>3 DEF AcqWrites, AcqAt, AcqTyped, PipeTyped, Written
      <4>2. acq[k].msg \in Message
        BY <3>3 DEF Inductive, Carried, AcqWrites
      <4>3. Len(pipe'[k]) = Len(p) + 1
        BY <3>0, <4>1, <4>2
      <4>. QED BY <1>1, <2>2, <3>0, <4>1, <4>3 DEF Through
    <3>. QED BY <1>0, <2>1, <2>2, <3>1, <3>2, <3>3, AcqKinds DEF AcqDies
  <2>. QED BY <2>1, <2>2
<1>. QED BY <1>1, <1>2 DEF Abreast, Behind

LEMMA StoAbreast ==
    ASSUME MaxConfig <= ArraySize, Inductive, Paced, Abreast, NEW k \in Sessions, StoStep(k)
    PROVE  Abreast'
<1>. SUFFICES ASSUME on = 1 PROVE Abreast'
  BY StoKinds DEF Inductive, StoOnly, Abreast
<1>0. /\ Typed /\ StoTyped /\ PipeTyped /\ Counting /\ session \in Sessions
      /\ ~cancelS[session]
      /\ Written(session) \in Int /\ pipe[session] \in Seq(Message) /\ config_count \in Nat
      /\ DOMAIN obj = 0 .. ArraySize - 1 /\ \A i \in 0 .. config_count - 1 : i \in DOMAIN obj
      /\ \A i \in DOMAIN obj : obj[i].fed \in Seq(Message)
  <2>1. Typed /\ Counting /\ session \in Sessions /\ ~cancelS[session]
    BY DEF Inductive, Threads, Present
  <2>2. Written(session) \in Int /\ pipe[session] \in Seq(Message)
    BY <2>1, ServerAssumption DEF Typed, AcqTyped, PipeTyped, Written
  <2>3. \A i \in DOMAIN obj : obj[i].fed \in Seq(Message)
    BY <2>1 DEF Typed, ObjTyped
  <2>. QED BY <2>1, <2>2, <2>3, ObjectsInside DEF Typed
<1>1. UNCHANGED <<on, config_count, session, acq, cancelS, writeGlobal>> /\ Through \in Int
  BY <1>0, StoKinds DEF StoOnly, mainvars, Through
<1>2. Written(session)' = Written(session)
  BY <1>1 DEF Written
<1>3. CASE k # session
  <2>1. UNCHANGED obj
    <3>1. ~Fed(k)
      BY <1>0, <1>3, StoMeant DEF Fed, Live, Meant
    <3>. QED BY <1>0, <3>1, StoFeeds
  <2>2. sto'[session] = sto[session] /\ pipe'[session] = pipe[session]
    BY <1>0, <1>3, ThreadRuns
  <2>. QED BY <1>1, <1>2, <2>1, <2>2 DEF Abreast, Behind, Through
<1>4. CASE /\ k = session /\ UNCHANGED obj
           /\ sto[k].pc = "dispatch" =>
                \/ sto'[k].pc = "dead"
                \/ sto[k].i >= config_count /\ sto'[k].pc = "check" /\ UNCHANGED pipe
  <2>0. sto[k].pc = "dispatch" => sto[k].i <= config_count
    BY <1>4 DEF Abreast
  <2>1. CASE StoRead(k)
    <3>1. /\ sto[k].pc = "read" /\ sto'[k].pc = "global" /\ sto'[k].i = 0
          /\ pipe'[k] = Tail(pipe[k]) /\ pipe[k] # <<>>
      BY <1>0, <1>4, <2>1 DEF StoRead, StoTyped, PipeTyped
    <3>2. Through' = Through + 1
      <4>1. Len(pipe'[k]) = Len(pipe[k]) - 1 /\ Len(pipe[k]) \in Nat
        BY <1>0, <1>4, <3>1
      <4>. QED BY <1>0, <1>1, <1>2, <1>4, <4>1 DEF Through
    <3>3. \A i \in 0 .. config_count - 1 : Behind(i)' /\ ~Behind(i)
      BY <1>1, <1>4, <3>1 DEF Behind
    <3>4. Through' - 1 = Through
      BY <1>1, <3>2
    <3>. QED BY <1>1, <1>4, <3>1, <3>3, <3>4 DEF Abreast
  <2>2. ASSUME UNCHANGED pipe,
               sto'[k].pc \in {"global", "fwrite"} => sto'[k].i = 0,
               sto'[k].pc = "dispatch" => sto'[k].i <= config_count,
               \A i \in 0 .. config_count - 1 : Behind(i)' <=> Behind(i)
        PROVE  Abreast'
    <3>1. Through' = Through
      BY <1>1, <1>2, <2>2 DEF Through
    <3>. QED BY <1>1, <1>4, <2>2, <3>1 DEF Abreast
  <2>3. CASE StoGlobal(k) \/ StoFwrite(k)
    <3>1. /\ UNCHANGED pipe /\ sto[k].pc \in {"global", "fwrite"} /\ sto'[k].i = sto[k].i
          /\ sto'[k].pc \in {"fwrite", "dispatch"}
      BY <1>0, <1>4, <2>3 DEF StoGlobal, StoFwrite, StoGoto, StoTyped
    <3>2. sto'[k].i = 0
      BY <1>4, <3>1 DEF Abreast
    <3>. QED BY <1>0, <1>1, <1>4, <2>2, <3>1, <3>2 DEF Behind
  <2>4. CASE StoDispatch(k)
    <3>1. /\ UNCHANGED pipe /\ sto[k].pc = "dispatch" /\ sto'[k].pc = "check"
          /\ sto[k].i >= config_count
      BY <1>0, <1>4, <2>4 DEF StoDispatch, StoGoto, StoTyped
    <3>2. sto[k].i \in Nat
      BY <1>0, <1>4, ServerAssumption DEF StoTyped
    <3>3. \A i \in 0 .. config_count - 1 : ~(i >= sto[k].i)
      BY <1>0, <3>1, <3>2
    <3>. QED BY <1>1, <1>4, <2>2, <3>1, <3>3 DEF Behind
  <2>5. CASE StoCheck(k)
    <3>1. UNCHANGED pipe /\ sto[k].pc = "check" /\ sto'[k].pc \in {"read", "dead"}
      BY <1>0, <1>4, <2>5 DEF StoCheck, StoReset, StoTyped
    <3>. QED BY <1>1, <1>4, <2>2, <3>1 DEF Behind
  <2>. QED BY <1>0, <1>4, <2>1, <2>3, <2>4, <2>5 DEF StoStep, StoCancelled
<1>5. CASE k = session /\ Fed(k)
  <2>. DEFINE o == sto[k].i
              m == sto[k].msg
  <2>1. Through' = Through
    BY <1>1, <1>2, <1>5 DEF Fed, Through
  <2>2. m.n = Through /\ m \in Message
    BY <1>5 DEF Inductive, Numbered, Carried, Carrying, Fed, Through
  <2>3. o \in Nat /\ o < config_count /\ o \in DOMAIN obj
    BY <1>0, <1>5 DEF Fed
  <2>4. sto'[k].i <= config_count
    BY <1>0, <1>5, <2>3 DEF Fed
  <2>5. ASSUME NEW i \in 0 .. config_count - 1, obj'[i].fed # <<>>
        PROVE  obj'[i].fed[Len(obj'[i].fed)].n
                   = IF Behind(i)' THEN Through - 1 ELSE Through
    <3>1. Behind(i) <=> i >= o
      BY <1>5 DEF Behind, Fed
    <3>2. Behind(i)' <=> i >= o + 1
      BY <1>1, <1>5 DEF Behind, Fed
    <3>3. CASE i = o
      <4>1. obj'[i].fed = Append(obj[i].fed, m) /\ obj[i].fed \in Seq(Message)
        BY <1>0, <1>5, <3>3 DEF Fed
      <4>2. obj'[i].fed[Len(obj'[i].fed)] = m
        BY <2>2, <4>1
      <4>. QED BY <2>2, <2>3, <3>2, <3>3, <4>2
    <3>4. CASE i # o
      <4>1. obj'[i].fed = obj[i].fed
        BY <1>0, <1>5, <3>4 DEF Fed
      <4>2. Behind(i)' <=> Behind(i)
        BY <2>3, <3>1, <3>2, <3>4
      <4>3. obj[i].fed[Len(obj[i].fed)].n = IF Behind(i) THEN Through - 1 ELSE Through
        BY <2>5, <4>1 DEF Abreast
      <4>. QED BY <4>1, <4>2, <4>3
    <3>. QED BY <3>3, <3>4
  <2>6. sto'[k].pc = "dispatch"
    BY <1>5 DEF Fed
  <2>. HIDE DEF o, m
  <2>. QED BY <1>1, <1>5, <2>1, <2>4, <2>5, <2>6 DEF Abreast
<1>. QED BY <1>0, <1>3, <1>4, <1>5, StoFeeds

LEMMA AbreastAgree ==
    ASSUME Inductive, Abreast
    PROVE  ObjectsAgree
<1>. SUFFICES ASSUME on = 1, NEW i \in 0 .. config_count - 1, NEW j \in 0 .. config_count - 1,
                     i < j, obj[i].fed # <<>>, obj[j].fed # <<>>
              PROVE  LET a == obj[i].fed[Len(obj[i].fed)].n
                         b == obj[j].fed[Len(obj[j].fed)].n
                     IN  a = b \/ (a = b + 1 /\ sto[session].pc = "dispatch")
  BY DEF ObjectsAgree
<1>1. Through \in Int /\ config_count \in Nat /\ sto[session].i \in Nat
  <2>1. session \in Sessions /\ Typed
    BY DEF Inductive, Threads, Present
  <2>. QED BY <2>1, ServerAssumption
           DEF Typed, FlagsTyped, AcqTyped, StoTyped, PipeTyped, Through, Written
<1>2. Behind(i) => Behind(j)
  BY <1>1 DEF Behind
<1>3. Behind(j) /\ ~Behind(i) => sto[session].pc = "dispatch"
  BY DEF Behind
<1>4. /\ obj[i].fed[Len(obj[i].fed)].n = IF Behind(i) THEN Through - 1 ELSE Through
      /\ obj[j].fed[Len(obj[j].fed)].n = IF Behind(j) THEN Through - 1 ELSE Through
  BY DEF Abreast
<1>. HIDE DEF Through, Behind
<1>. QED BY <1>1, <1>2, <1>3, <1>4

LEMMA NextAbreast ==
    ASSUME HumanPaced, MaxConfig <= ArraySize, Inductive, Paced, Unfed, Abreast, [Next]_vars
    PROVE  Unfed' /\ Abreast'
<1>1. CASE Request \/ MainStep
  BY <1>1, MainUnfed, MainAbreast
<1>2. ASSUME NEW k \in Sessions, AcqStep(k) \/ StoStep(k) PROVE Unfed' /\ Abreast'
  BY <1>2, ThreadUnfed, AcqAbreast, StoAbreast
<1>3. CASE UNCHANGED vars
  BY <1>3 DEF vars, globals, mainvars, Unfed, Abreast, Behind, Through, Written
<1>. QED BY <1>1, <1>2, <1>3 DEF Next

(* The objects of one acquisition see the same traffic: of any two that    *)
(* were fed, the one registered first is at most the message being         *)
(* dispatched ahead, even when it was registered while the traffic ran.    *)
THEOREM ObjectsSeeTheSame ==
    HumanPaced /\ MaxConfig <= ArraySize => (Spec => []ObjectsAgree)
<1>. SUFFICES ASSUME HumanPaced, MaxConfig <= ArraySize PROVE Spec => []ObjectsAgree
  OBVIOUS
<1>. DEFINE I == Inductive /\ Paced /\ Unfed /\ Abreast
<1>1. Init => I
  BY InitInductive, InitPaced, InitAbreast
<1>2. I /\ [Next]_vars => I'
  BY NextInductive, NextPaced, NextAbreast
<1>3. I => ObjectsAgree
  BY AbreastAgree
<1>. QED BY <1>1, <1>2, <1>3, PTL DEF Spec

-----------------------------------------------------------------------------
(* ImplementsAcquisition.                                                  *)

(* The line of an acquisition: the messages up to the last one read, one   *)
(* with the storage thread, those of the pipe, one with the acquisition    *)
(* thread.                                                                 *)
Held == IF sto[session].pc \in Carrying THEN 1 ELSE 0
Queued == Held + Len(pipe[session]) + (IF acq[session].pc = "write" THEN 1 ELSE 0)

(* The line as its length and its last message give it. *)
InLine ==
    /\ InTransit(session) \in Seq(Message) /\ Len(InTransit(session)) = Queued
    /\ Queued \in Nat /\ acq[session].n \in Nat /\ session \in Sessions
    /\ \A j \in 1 .. Queued :
         InTransit(session)[j] = [ses |-> session, n |-> acq[session].n - Queued + j]

LEMMA LineIs == Inductive /\ on = 1 => InLine
<1>. SUFFICES ASSUME Inductive, on = 1 PROVE InLine
  OBVIOUS
<1>. DEFINE a == InAcquisition(session)
            p == pipe[session]
            b == InStorage(session)
<1>1. session \in Sessions
  BY DEF Inductive, Threads, Present
<1>2. /\ a \in Seq(Message) /\ p \in Seq(Message) /\ b \in Seq(Message)
      /\ acq[session].n \in Nat
  BY <1>1, ServerAssumption
     DEF Inductive, Typed, AcqTyped, PipeTyped, Carried, Carrying, InAcquisition, InStorage
<1>3. Len(b) = Held /\ Held \in Nat
  BY DEF Held, InStorage, Carrying
<1>4. Len(a) = (IF acq[session].pc = "write" THEN 1 ELSE 0) /\ Len(a) \in Nat
  BY DEF InAcquisition
<1>5. Len(p) \in Nat
  BY <1>2
<1>6. Queued = Len(b) + Len(p) + Len(a) /\ Queued \in Nat
  <2>1. CASE acq[session].pc = "write"
    BY <1>3, <1>4, <1>5, <2>1 DEF Queued
  <2>2. CASE acq[session].pc # "write"
    BY <1>3, <1>4, <1>5, <2>2 DEF Queued
  <2>. QED BY <2>1, <2>2
<1>7. InTransit(session) = (b \o p) \o a
  BY DEF InTransit
<1>. HIDE DEF a, p, b
<1>8. (b \o p) \o a \in Seq(Message) /\ Len((b \o p) \o a) = Len(b) + Len(p) + Len(a)
  BY <1>2
<1>9. InTransit(session) \in Seq(Message) /\ Len(InTransit(session)) = Queued
  BY <1>6, <1>7, <1>8
<1>10. NothingLost
  BY NumberedIsNothingLost
<1>. QED BY <1>1, <1>2, <1>6, <1>9, <1>10 DEF NothingLost, InLine

(* Two sequences are equal if they have the same length and elements. *)
LEMMA SameElements ==
    ASSUME NEW S, NEW s \in Seq(S), NEW t \in Seq(S), Len(s) = Len(t),
           \A j \in 1 .. Len(s) : s[j] = t[j]
    PROVE  s = t
  OBVIOUS

LEMMA AppendIs ==
    ASSUME NEW S, NEW s \in Seq(S), NEW t \in Seq(S), NEW x \in S, Len(t) = Len(s) + 1,
           \A j \in 1 .. Len(s) : t[j] = s[j], t[Len(t)] = x
    PROVE  t = Append(s, x)
<1>1. /\ Append(s, x) \in Seq(S) /\ Len(Append(s, x)) = Len(s) + 1 /\ Len(s) \in Nat
      /\ \A j \in 1 .. Len(s) : Append(s, x)[j] = s[j]
      /\ Append(s, x)[Len(s) + 1] = x
  OBVIOUS
<1>2. \A j \in 1 .. Len(t) : j = Len(s) + 1 \/ j \in 1 .. Len(s)
  BY <1>1
<1>3. \A j \in 1 .. Len(t) : t[j] = Append(s, x)[j]
  BY <1>1, <1>2
<1>. QED BY <1>1, <1>3, SameElements

LEMMA TailIs ==
    ASSUME NEW S, NEW s \in Seq(S), NEW t \in Seq(S), Len(s) = Len(t) + 1,
           \A j \in 1 .. Len(t) : t[j] = s[j + 1]
    PROVE  t = Tail(s)
<1>1. /\ Tail(s) \in Seq(S) /\ Len(Tail(s)) = Len(s) - 1 /\ Len(t) \in Nat
      /\ \A j \in 1 .. Len(s) - 1 : Tail(s)[j] = s[j + 1]
  OBVIOUS
<1>. QED BY <1>1, SameElements

(* How the line changes, by the numbers of messages read and queued. *)
LEMMA LineMoves ==
    ASSUME Inductive, Inductive', on = 1, on' = 1, UNCHANGED session
    PROVE  /\ acq'[session].n = acq[session].n /\ Queued' = Queued
              => InTransit(session)' = InTransit(session)
           /\ acq'[session].n = acq[session].n + 1 /\ Queued' = Queued + 1
              => InTransit(session)' = Append(InTransit(session),
                                              [ses |-> session, n |-> acq'[session].n])
           /\ acq'[session].n = acq[session].n /\ Queued' = Queued - 1
              => InTransit(session)' = Tail(InTransit(session))
<1>. DEFINE s == InTransit(session)
            t == InTransit(session)'
            n == acq[session].n
<1>1. /\ s \in Seq(Message) /\ Len(s) = Queued /\ Queued \in Nat /\ n \in Nat
      /\ session \in Sessions
      /\ \A j \in 1 .. Queued : s[j] = [ses |-> session, n |-> n - Queued + j]
  BY LineIs DEF InLine
<1>2. /\ t \in Seq(Message) /\ Len(t) = Queued' /\ Queued' \in Nat /\ acq'[session].n \in Nat
      /\ \A j \in 1 .. Queued' :
           t[j] = [ses |-> session, n |-> acq'[session].n - Queued' + j]
  <2>1. InLine'
    <3>1. Inductive' /\ (on = 1)' => InLine'
      BY LineIs, PTL
    <3>. QED BY <3>1
  <2>. QED BY <2>1 DEF InLine, Message, Sessions
<1>. HIDE DEF s, t, n
<1>3. CASE acq'[session].n = n /\ Queued' = Queued
  <2>1. t = s
    BY <1>1, <1>2, <1>3, SameElements
  <2>. QED BY <1>1, <1>2, <1>3, <2>1 DEF s, t, n
<1>4. CASE acq'[session].n = n + 1 /\ Queued' = Queued + 1
  <2>. DEFINE x == [ses |-> session, n |-> acq'[session].n]
  <2>1. Queued' \in 1 .. Queued' /\ acq'[session].n - Queued' + Queued' = acq'[session].n
    BY <1>1, <1>2, <1>4
  <2>2. t[Len(t)] = x
    BY <1>2, <2>1
  <2>3. x \in Message
    BY <1>2, <2>1, <2>2
  <2>4. \A j \in 1 .. Len(s) : t[j] = s[j]
    <3>1. ASSUME NEW j \in 1 .. Len(s) PROVE t[j] = s[j]
      <4>1. j \in 1 .. Queued' /\ acq'[session].n - Queued' + j = n - Queued + j
        BY <1>1, <1>2, <1>4
      <4>. QED BY <1>1, <1>2, <4>1
    <3>. QED BY <3>1
  <2>. HIDE DEF x
  <2>5. t = Append(s, x)
    BY <1>1, <1>2, <1>4, <2>2, <2>3, <2>4, AppendIs
  <2>. QED BY <1>1, <1>2, <1>4, <2>5 DEF s, t, n, x
<1>5. CASE acq'[session].n = n /\ Queued' = Queued - 1
  <2>1. \A j \in 1 .. Len(t) : t[j] = s[j + 1]
    <3>1. ASSUME NEW j \in 1 .. Len(t) PROVE t[j] = s[j + 1]
      <4>1. j + 1 \in 1 .. Queued /\ acq'[session].n - Queued' + j = n - Queued + (j + 1)
        BY <1>1, <1>2, <1>5
      <4>. QED BY <1>1, <1>2, <4>1
    <3>. QED BY <3>1
  <2>2. t = Tail(s)
    BY <1>1, <1>2, <1>5, <2>1, TailIs
  <2>. QED BY <1>1, <1>2, <1>5, <2>2 DEF s, t, n
<1>. QED BY <1>1, <1>3, <1>4, <1>5 DEF s, t, n

(* The storage thread has the head of the line in its hands. *)
LEMMA HeadOfLine ==
    ASSUME Inductive, on = 1, sto[session].pc \in Carrying
    PROVE  /\ InTransit(session) # <<>> /\ Head(InTransit(session)) = sto[session].msg
           /\ sto[session].msg = [ses |-> session, n |-> Through]
           /\ sto[session].msg \in Message /\ Through \in Nat
<1>1. sto[session].msg = [ses |-> session, n |-> Through]
  BY DEF Inductive, Numbered, Through
<1>2. session \in Sessions
  BY DEF Inductive, Threads, Present
<1>3. sto[session].msg \in Message
  BY <1>2 DEF Inductive, Carried
<1>4. Through \in Nat
  <2>1. [ses |-> session, n |-> Through].n \in Nat
    BY <1>1, <1>3, ServerAssumption DEF Message
  <2>. QED BY <2>1
<1>5. InStorage(session) = <<sto[session].msg>>
  BY DEF InStorage, Carrying
<1>. DEFINE r == pipe[session] \o InAcquisition(session)
            m == sto[session].msg
<1>6. pipe[session] \in Seq(Message) /\ InAcquisition(session) \in Seq(Message)
  BY <1>2 DEF Inductive, Typed, PipeTyped, Carried, InAcquisition
<1>. HIDE DEF m
<1>7. /\ InTransit(session) = (<<m>> \o pipe[session]) \o InAcquisition(session)
      /\ m \in Message
  BY <1>3, <1>5 DEF InTransit, m
<1>8. \A p, a \in Seq(Message) : (<<m>> \o p) \o a # <<>> /\ Head((<<m>> \o p) \o a) = m
  <2>1. ASSUME NEW p \in Seq(Message), NEW a \in Seq(Message)
        PROVE  (<<m>> \o p) \o a # <<>> /\ Head((<<m>> \o p) \o a) = m
    <3>1. <<m>> \o p \in Seq(Message) /\ Len(<<m>> \o p) = Len(p) + 1 /\ Len(p) \in Nat
          /\ (<<m>> \o p)[1] = m
      BY <1>7
    <3>2. /\ Len((<<m>> \o p) \o a) = Len(p) + 1 + Len(a) /\ Len(a) \in Nat
          /\ ((<<m>> \o p) \o a)[1] = (<<m>> \o p)[1]
      BY <3>1
    <3>. QED BY <3>1, <3>2
  <2>. QED BY <2>1
<1>. QED BY <1>1, <1>3, <1>4, <1>6, <1>7, <1>8 DEF m

(* What the promise needs besides: the pipe holds what it can; of the      *)
(* message being dispatched every package up to the next one has been fed, *)
(* and the bus file, if one is written, holds something.                   *)
Bounded == \A k \in Sessions : Len(pipe[k]) <= PipeCap
Turned ==
    on = 1 /\ sto[session].pc = "dispatch" =>
        \A i \in 0 .. config_count - 1 : i < sto[session].i => obj[i].fed # <<>>
Stocked ==
    on = 1 =>
        /\ sto[session].pc = "fwrite" => writeGlobal = 1
        /\ sto[session].pc = "dispatch" /\ writeGlobal = 1 =>
             globalfile > 0 /\ files[globalfile] # <<>>

Promised == Bounded /\ Turned /\ Stocked

LEMMA InitPromised == Init => Promised
<1>. SUFFICES ASSUME Init PROVE Promised
  OBVIOUS
<1>1. Bounded
  BY ServerAssumption DEF Init, Bounded
<1>. QED BY <1>1 DEF Init, Promised, Turned, Stocked

(* During an acquisition main() touches neither its threads nor its pipe,  *)
(* and opens or asks for a bus file only before they move.                 *)
LEMMA MainDuring ==
    ASSUME Inductive, Opened, Request \/ MainStep, on = 1, on' = 1
    PROVE  /\ UNCHANGED <<acq, sto, session, pipe>>
           /\ \/ UNCHANGED <<writeGlobal, globalfile, files>>
              \/ /\ main.at \in {"flag", "open"}
                 /\ sto[session].pc = "read"
<1>0. MainTyped /\ Typed /\ session \in Sessions
  BY DEF Inductive, Typed, Threads, Present
<1>1. UNCHANGED <<acq, sto, session>>
  BY <1>0, MainMoves
<1>2. main.at \notin {"cancelRead", "cancelWrite", "forget", "nowrite"}
  BY DEF Inductive, Threads, Present
<1>3. UNCHANGED pipe
  BY <1>2
     DEF Request, MainStep, ReceiveConfig, StartMsg, StartWoMsg, StopMsg, RealReq, CurrReq,
         ConfigInit, ConfigCount, ConfigFlag, ConfigOpen, ConfigReply, StartWoFlag,
         StopCancelRead, StopCancelWrite, StopForget, StopReply
<1>4. Running(session)
  BY DEF Inductive, Threads, Present, Running
<1>5. ~(main.at = "init" /\ main.store)
  BY <1>0, <1>4 DEF Opened, Quiet
<1>6. main.at \in {"flag", "open"} => sto[session].pc = "read"
  BY <1>0, <1>4 DEF Opened, Quiet, Asleep
<1>7. \/ UNCHANGED <<writeGlobal, globalfile, files>>
      \/ main.at \in {"flag", "open"}
  BY <1>2, <1>5
     DEF Request, MainStep, ReceiveConfig, StartMsg, StartWoMsg, StopMsg, RealReq, CurrReq,
         ConfigInit, ConfigCount, ConfigFlag, ConfigOpen, ConfigReply, StartWoFlag,
         StopCancelRead, StopCancelWrite, StopForget, StopReply, globals
<1>. QED BY <1>1, <1>3, <1>6, <1>7

(* The packages registered during an acquisition: main() adds one that was *)
(* fed nothing, or leaves them alone.                                      *)
LEMMA MainObjects ==
    ASSUME MaxConfig <= ArraySize, Inductive, Unfed, Request \/ MainStep, on = 1, on' = 1
    PROVE  /\ \A i \in 0 .. config_count - 1 : obj'[i].fed = obj[i].fed
           /\ \/ UNCHANGED config_count
              \/ config_count' = config_count + 1 /\ obj'[config_count].fed = <<>>
<1>0. MainTyped /\ Typed /\ Counting
  BY DEF Inductive, Typed
<1>2. main.at \notin {"cancelRead", "cancelWrite", "forget", "nowrite"}
  BY DEF Inductive, Threads, Present
<1>3. CASE ConfigInit
  <2>1. obj' = [i \in DOMAIN obj |-> IF i = config_count THEN Fresh ELSE obj[i]]
        /\ UNCHANGED config_count
    BY <1>3 DEF ConfigInit
  <2>2. \A i \in 0 .. config_count - 1 : obj'[i] = obj[i]
    BY <1>0, <2>1, ObjectsInside
  <2>. QED BY <2>1, <2>2
<1>4. CASE ConfigCount
  BY <1>4 DEF ConfigCount, Unfed
<1>5. CASE UNCHANGED <<obj, config_count>>
  BY <1>5
<1>. QED
  BY <1>2, <1>3, <1>4, <1>5
     DEF Request, MainStep, ReceiveConfig, StartMsg, StartWoMsg, StopMsg, RealReq, CurrReq,
         ConfigFlag, ConfigOpen, ConfigReply, StartWoFlag,
         StopCancelRead, StopCancelWrite, StopForget, StopReply, globals

LEMMA MainPromised ==
    ASSUME MaxConfig <= ArraySize, Inductive, Opened, Unfed, Abreast, Promised,
           Request \/ MainStep
    PROVE  Promised'
<1>0. Typed /\ MainTyped /\ PipeTyped /\ config_count \in Nat
  BY ServerAssumption DEF Inductive, Typed, FlagsTyped
<1>1. Bounded'
  <2>1. CASE UNCHANGED pipe
    BY <2>1 DEF Promised, Bounded
  <2>2. CASE StopReply
    <3>1. pipe' = [pipe EXCEPT ![session] = <<>>]
      BY <2>2 DEF StopReply
    <3>2. \A k \in Sessions : pipe'[k] = pipe[k] \/ pipe'[k] = <<>>
      BY <1>0, <3>1 DEF PipeTyped
    <3>. QED BY <3>2, ServerAssumption DEF Promised, Bounded
  <2>. QED
    BY <2>1, <2>2
       DEF Request, MainStep, ReceiveConfig, StartMsg, StartWoMsg, StopMsg, RealReq, CurrReq,
           ConfigInit, ConfigCount, ConfigFlag, ConfigOpen, ConfigReply, StartWoFlag,
           StopCancelRead, StopCancelWrite, StopForget
<1>2. CASE on' # 1
  BY <1>1, <1>2 DEF Promised, Turned, Stocked
<1>3. CASE on # 1 /\ on' = 1
  <2>1. Launch /\ on = 0 /\ session < MaxSession /\ UNCHANGED <<pipe, cancelA, cancelS>>
    BY <1>0, <1>3
       DEF Request, MainStep, ReceiveConfig, StartMsg, StartWoMsg, StopMsg, RealReq, CurrReq,
           ConfigInit, ConfigCount, ConfigFlag, ConfigOpen, ConfigReply, StartWoFlag,
           StopCancelRead, StopCancelWrite, StopForget, StopReply, globals
  <2>2. sto'[session'].pc = "read"
    BY <2>1, Launched
  <2>. QED BY <1>1, <2>2 DEF Promised, Turned, Stocked
<1>4. CASE on = 1 /\ on' = 1
  <2>1. UNCHANGED <<sto, session>>
    BY <1>4, MainDuring
  <2>2. Stocked'
    BY <1>4, <2>1, MainDuring DEF Promised, Stocked
  <2>3. Turned'
    <3>1. SUFFICES ASSUME sto[session].pc = "dispatch", NEW i \in 0 .. config_count' - 1,
                          i < sto[session].i
                   PROVE  obj'[i].fed # <<>>
      BY <2>1 DEF Turned
    <3>2. sto[session].i <= config_count
      BY <1>4, <3>1 DEF Abreast
    <3>3. sto[session].i \in Nat
      BY <1>4, ServerAssumption DEF Inductive, Typed, StoTyped, Threads, Present
    <3>4. i \in 0 .. config_count - 1
      BY <1>0, <1>4, <3>1, <3>2, <3>3, MainObjects
    <3>5. obj'[i].fed = obj[i].fed
      BY <1>4, <3>4, MainObjects
    <3>. QED BY <1>4, <3>1, <3>4, <3>5 DEF Promised, Turned
  <2>. QED BY <1>1, <2>2, <2>3 DEF Promised
<1>. QED BY <1>2, <1>3, <1>4

LEMMA AcqPromised ==
    ASSUME Inductive, Opened, Promised, NEW k \in Sessions, AcqStep(k)
    PROVE  Promised'
<1>0. Typed /\ PipeTyped /\ k = session
  BY ThreadRuns DEF Inductive, Typed, Opened, Alone
<1>1. Turned' /\ Stocked'
  BY <1>0, AcqKinds DEF AcqOnly, globals, mainvars, Promised, Turned, Stocked
<1>2. CASE UNCHANGED pipe
  BY <1>1, <1>2 DEF Promised, Bounded
<1>3. CASE AcqWrite(k)
  <2>1. /\ Len(pipe[k]) < PipeCap /\ pipe' = [pipe EXCEPT ![k] = Append(@, acq[k].msg)]
        /\ acq[k].msg \in Message
    BY <1>3 DEF AcqWrite, WritePipe, Inductive, Carried
  <2>2. Len(pipe'[k]) = Len(pipe[k]) + 1 /\ Len(pipe[k]) \in Nat
    BY <1>0, <2>1 DEF PipeTyped
  <2>3. \A l \in Sessions : l # k => pipe'[l] = pipe[l]
    BY <1>0, <2>1 DEF PipeTyped
  <2>4. Bounded'
    BY <2>1, <2>2, <2>3, ServerAssumption DEF Promised, Bounded
  <2>. QED BY <1>1, <2>4 DEF Promised
<1>. QED BY <1>2, <1>3 DEF AcqStep, AcqSetup, AcqReceive, AcqCheck, AcqCancelled

LEMMA StoPromised ==
    ASSUME MaxConfig <= ArraySize, Inductive, Opened, Abreast, Promised,
           NEW k \in Sessions, StoStep(k)
    PROVE  Promised'
<1>0. Typed /\ PipeTyped /\ StoTyped /\ FilesTyped /\ ObjTyped /\ k = session
  BY ThreadRuns DEF Inductive, Typed, Opened, Alone
<1>1. UNCHANGED <<on, session, writeGlobal, globalfile, config_count>>
  BY <1>0, StoKinds DEF StoOnly
<1>2. Bounded'
  <2>1. CASE UNCHANGED pipe
    BY <2>1 DEF Promised, Bounded
  <2>2. CASE StoReads(k)
    <3>1. Len(pipe'[k]) = Len(pipe[k]) - 1 /\ Len(pipe[k]) \in Nat
      BY <1>0, <2>2 DEF StoReads, PipeTyped
    <3>2. \A l \in Sessions : l # k => pipe'[l] = pipe[l]
      BY <1>0, <2>2 DEF StoReads, PipeTyped
    <3>. QED BY <3>1, <3>2, ServerAssumption DEF Promised, Bounded
  <2>. QED BY <1>0, <2>1, <2>2, StoKinds DEF StoMoves, StoTurns, StoDies
<1>. SUFFICES ASSUME on = 1 PROVE Turned' /\ Stocked'
  BY <1>1, <1>2 DEF Promised, Turned, Stocked
<1>3. CASE StoRead(k) \/ StoCheck(k) \/ StoCancelled(k)
  <2>1. sto'[k].pc \in {"global", "read", "dead"}
    BY <1>0, <1>3 DEF StoRead, StoCheck, StoCancelled, StoReset, StoTyped
  <2>. QED BY <1>0, <1>1, <2>1 DEF Turned, Stocked
<1>4. CASE StoGlobal(k)
  <2>1. /\ sto[k].pc = "global" /\ sto'[k].i = sto[k].i
        /\ sto'[k].pc = IF writeGlobal = 1 THEN "fwrite" ELSE "dispatch"
    BY <1>0, <1>4 DEF StoGlobal, StoGoto, StoTyped
  <2>2. sto'[k].i = 0
    BY <1>0, <2>1 DEF Abreast
  <2>. QED BY <1>0, <1>1, <2>1, <2>2 DEF Turned, Stocked
<1>5. CASE StoFwrite(k) /\ globalfile > 0
  <2>1. /\ sto[k].pc = "fwrite" /\ sto'[k].i = sto[k].i /\ sto'[k].pc = "dispatch"
    BY <1>0, <1>5, FilePointer DEF StoFwrite, StoGoto, StoTyped
  <2>2. sto'[k].i = 0
    BY <1>0, <2>1 DEF Abreast
  <2>3. globalfile \in 1 .. Len(files) /\ files \in Seq(Seq(Message))
    BY <1>0, <1>5 DEF FilesTyped
  <2>4. files' = [files EXCEPT ![globalfile] = Append(@, sto[k].msg)]
    BY <1>5, <2>3 DEF StoFwrite
  <2>5. sto[k].msg \in Message
    BY <2>1 DEF Inductive, Carried, Carrying
  <2>6. files'[globalfile] # <<>>
    <3>1. /\ files'[globalfile] = Append(files[globalfile], sto[k].msg)
          /\ files[globalfile] \in Seq(Message)
      BY <2>3, <2>4
    <3>. DEFINE f == files[globalfile]
                m == sto[k].msg
    <3>2. f \in Seq(Message) /\ m \in Message /\ files'[globalfile] = Append(f, m)
      BY <2>5, <3>1
    <3>. HIDE DEF f, m
    <3>3. Append(f, m) # <<>>
      BY <3>2
    <3>. QED BY <3>2, <3>3
  <2>. QED BY <1>0, <1>1, <1>5, <2>1, <2>2, <2>6 DEF Turned, Stocked
<1>7. CASE StoFwrite(k) /\ ~(globalfile > 0)
  <2>1. UNCHANGED <<files, obj, sto>>
    BY <1>0, <1>7, FilePointer DEF StoFwrite
  <2>. QED BY <1>0, <1>1, <2>1 DEF Promised, Turned, Stocked
<1>6. CASE StoDispatch(k)
  <2>1. UNCHANGED files /\ sto[k].pc = "dispatch"
    BY <1>6 DEF StoDispatch
  <2>2. Stocked'
    <3>1. sto'[k].pc \in {"dispatch", "check"}
      BY <1>0, <1>6 DEF StoDispatch, StoGoto, StoTyped
    <3>. QED BY <1>0, <1>1, <2>1, <3>1 DEF Promised, Stocked
  <2>3. CASE UNCHANGED obj /\ sto'[k].pc \in {"dead", "check"}
    BY <1>0, <1>1, <2>2, <2>3 DEF Turned
  <2>4. CASE Fed(k)
    <3>1. ASSUME NEW i \in 0 .. config_count - 1, i < sto'[k].i PROVE obj'[i].fed # <<>>
      <4>1. i \in DOMAIN obj /\ obj[i].fed \in Seq(Message)
        BY <1>0, ObjectsInside DEF ObjTyped, Inductive
      <4>2. sto[k].msg \in Message
        BY <2>1 DEF Inductive, Carried, Carrying
      <4>3. CASE i = sto[k].i
        <5>1. obj'[i].fed = Append(obj[i].fed, sto[k].msg)
          BY <2>4, <4>1, <4>3 DEF Fed
        <5>. QED BY <4>1, <4>2, <5>1
      <4>4. CASE i # sto[k].i
        <5>0. sto[k].i \in Nat
          BY <1>0, ServerAssumption DEF StoTyped
        <5>1. obj'[i].fed = obj[i].fed /\ i < sto[k].i
          BY <2>4, <3>1, <4>1, <4>4, <5>0 DEF Fed
        <5>. QED BY <1>0, <2>1, <5>1 DEF Promised, Turned
      <4>. QED BY <4>3, <4>4
    <3>. QED BY <1>0, <1>1, <2>2, <3>1 DEF Turned
  <2>. QED BY <1>0, <2>1, <2>3, <2>4, StoFeeds
<1>. QED BY <1>3, <1>4, <1>5, <1>6, <1>7 DEF StoStep

LEMMA NextPromised ==
    ASSUME MaxConfig <= ArraySize, Inductive, Opened, Unfed, Abreast, Promised, [Next]_vars
    PROVE  Promised'
<1>1. CASE Request \/ MainStep
  BY <1>1, MainPromised
<1>2. ASSUME NEW k \in Sessions, AcqStep(k) \/ StoStep(k) PROVE Promised'
  BY <1>2, AcqPromised, StoPromised
<1>3. CASE UNCHANGED vars
  BY <1>3 DEF vars, globals, mainvars, Promised, Bounded, Turned, Stocked
<1>. QED BY <1>1, <1>2, <1>3 DEF Next

(* What is not changed of the line and of what was handed out. *)
Handed == <<Storing, BusFile, Seen>>
LEMMA Unmoved ==
    ASSUME UNCHANGED <<session, on, Taking, Line, Handed>>
    PROVE  UNCHANGED Promise!avars
  BY DEF Promise!avars, Handed

LEMMA SeenIs ==
    ASSUME MaxConfig <= ArraySize, Inductive, on = 1
    PROVE  /\ Seen \in Seq(Seq(Message)) /\ Len(Seen) = config_count /\ config_count \in Nat
           /\ DOMAIN Seen = 1 .. config_count
           /\ \A i \in 1 .. config_count :
                Seen[i] = obj[i - 1].fed /\ i - 1 \in DOMAIN obj /\ Seen[i] \in Seq(Message)
<1>1. /\ DOMAIN obj = 0 .. ArraySize - 1 /\ config_count \in Nat /\ ObjTyped
      /\ \A i \in 0 .. config_count - 1 : i \in DOMAIN obj
  BY ObjectsInside DEF Inductive, Typed
<1>2. Seen = [i \in 1 .. config_count |-> obj[i - 1].fed]
  BY DEF Seen
<1>3. ASSUME NEW i \in 1 .. config_count
      PROVE  i - 1 \in DOMAIN obj /\ obj[i - 1].fed \in Seq(Message)
  <2>1. i - 1 \in 0 .. config_count - 1
    BY <1>1
  <2>2. i - 1 \in 0 .. ArraySize - 1
    BY <1>1, <2>1
  <2>. QED BY <1>1, <2>2 DEF ObjTyped
<1>4. Seen \in [1 .. config_count -> Seq(Message)]
  BY <1>2, <1>3
<1>. QED BY <1>1, <1>2, <1>3, <1>4

LEMMA InitPromise == Init => Promise!AInit
  BY DEF Init, Promise!AInit, Taking, Line, Storing, BusFile, Seen

(* main() before and after an acquisition. *)
LEMMA MainBegins ==
    ASSUME HumanPaced, ~StoreLate, MaxConfig <= ArraySize,
           Inductive, Inductive', Opened, Filed, Unfed, Request \/ MainStep, on = 0, on' = 1
    PROVE  Promise!Begin(config_count)
<1>0. Typed /\ MainTyped
  BY DEF Inductive, Typed
<1>1. /\ Launch /\ Settled /\ Idle /\ session < MaxSession
      /\ UNCHANGED <<pipe, writeGlobal, globalfile, files, cancelA, cancelS, config_count, obj>>
      /\ main'.at = "flag" \/ main'.at = "idle"
  <2>1. ~UNCHANGED on
    OBVIOUS
  <2>2. ~UNCHANGED <<acq, sto, session>>
    BY <2>1 DEF Request, MainStep, ReceiveConfig, StartMsg, StartWoMsg, StopMsg, RealReq, CurrReq,
         ConfigInit, ConfigCount, ConfigFlag, ConfigOpen, ConfigReply, StartWoFlag,
         StopCancelRead, StopCancelWrite, StopForget, StopReply, globals,
         Launch, init_monitor_memory, Inductive, Typed, FlagsTyped
  <2>. QED BY <1>0, <2>2, MainMoves
<1>2. /\ session' = session + 1
      /\ acq'[session'] = [pc |-> "setup", n |-> 0, msg |-> NoMessage]
      /\ sto'[session'] = [pc |-> "read", msg |-> NoMessage, i |-> 0]
      /\ pipe'[session'] = <<>>
  BY <1>1, Launched
<1>3. Taking = 0 /\ Line = <<>> /\ BusFile = <<>>
  BY DEF Taking, Line, BusFile, Storing
<1>4. Taking' = 0 /\ Line' = <<>>
  <2>1. Taking' = 0
    BY <1>2 DEF Taking
  <2>2. InTransit(session)' = (<<>> \o <<>>) \o <<>>
    BY <1>2 DEF InTransit, InStorage, InAcquisition
  <2>. QED BY <2>1, <2>2 DEF Line
<1>5. BusFile' = <<>>
  <2>1. writeGlobal = 1 /\ globalfile > 0 => files[globalfile] = <<>>
    BY <1>1 DEF Filed, Clean, Idle
  <2>. QED BY <1>1, <2>1 DEF BusFile, Storing
<1>6. Storing' \in BOOLEAN
  <2>1. MainTyped'
    BY DEF Inductive, Typed
  <2>. QED BY <2>1 DEF Storing, MainTyped
<1>7. Seen' = [i \in 1 .. config_count |-> <<>>]
  <2>1. Seen' = [i \in 1 .. config_count |-> obj[i - 1].fed]
    BY <1>1 DEF Seen
  <2>2. ASSUME NEW i \in 1 .. config_count PROVE obj[i - 1].fed = <<>>
    <3>1. i - 1 \in 0 .. config_count - 1
      BY DEF Inductive, Typed, FlagsTyped
    <3>. QED BY <1>1, <3>1 DEF Unfed, Idle
  <2>. QED BY <2>1, <2>2
<1>. QED BY <1>2, <1>3, <1>4, <1>5, <1>6, <1>7 DEF Promise!Begin

LEMMA MainEnds ==
    ASSUME Inductive, Request \/ MainStep, on = 1, on' = 0
    PROVE  Promise!End
<1>1. UNCHANGED session
  BY DEF Request, MainStep, ReceiveConfig, StartMsg, StartWoMsg, StopMsg, RealReq, CurrReq,
         ConfigInit, ConfigCount, ConfigFlag, ConfigOpen, ConfigReply, StartWoFlag,
         StopCancelRead, StopCancelWrite, StopForget, StopReply, globals, Launch
<1>2. Taking' = 0 /\ Line' = <<>> /\ Storing' = FALSE /\ BusFile' = <<>> /\ Seen' = <<>>
  BY DEF Taking, Line, Storing, BusFile, Seen
<1>. QED BY <1>1, <1>2 DEF Promise!End

(* main() during an acquisition: the file a START opens is empty. *)
LEMMA MainFile ==
    ASSUME Inductive, Opened, Request \/ MainStep, on = 1, on' = 1
    PROVE  UNCHANGED <<Storing, BusFile>>
<1>0. MainTyped /\ Typed /\ session \in Sessions /\ FilesTyped
  BY DEF Inductive, Typed, Threads, Present
<1>1. ~(main.at = "init" /\ main.store)
  BY <1>0 DEF Opened, Quiet, Inductive, Threads, Present, Running
<1>2. CASE StartWoFlag
  <2>1. CASE main.store
    <3>1. main'.at = "open" /\ writeGlobal' = 1 /\ main.at = "flag"
      BY <1>0, <1>2, <2>1, MainSteps DEF StartWoFlag, Labels
    <3>. QED BY <2>1, <3>1 DEF Storing, BusFile
  <2>2. CASE ~main.store
    <3>1. main'.at = "idle" /\ writeGlobal' = 0 /\ main.at = "flag"
      BY <1>0, <1>2, <2>2, MainSteps DEF StartWoFlag
    <3>. QED BY <2>2, <3>1 DEF Storing, BusFile
  <2>. QED BY <2>1, <2>2
<1>3. CASE ConfigOpen
  <2>1. main.at = "open" /\ main'.at = "idle" /\ UNCHANGED writeGlobal
    BY <1>0, <1>3, MainSteps DEF ConfigOpen
  <2>2. globalfile' > 0 => files'[globalfile'] = <<>>
    BY <1>0, <1>3, OpensEmpty DEF ConfigOpen
  <2>. QED BY <2>1, <2>2 DEF Storing, BusFile
<1>4. CASE /\ UNCHANGED <<writeGlobal, globalfile, files>>
           /\ main.at \notin {"flag", "open"} /\ main'.at \notin {"flag", "open"}
  BY <1>4 DEF Storing, BusFile
<1>5. main.at \notin {"cancelRead", "cancelWrite", "forget", "nowrite"}
  BY DEF Inductive, Threads, Present
<1>6. CASE StartMsg \/ CurrReq \/ ConfigReply
  <2>1. main.at \in {"idle", "init"} /\ main'.at = "idle"
    BY <1>0, <1>6, MainSteps DEF StartMsg, CurrReq, ConfigReply, Idle
  <2>2. UNCHANGED <<writeGlobal, globalfile, files>>
    BY <1>6 DEF StartMsg, CurrReq, ConfigReply, globals
  <2>. QED BY <1>4, <2>1, <2>2
<1>7. ASSUME NEW needed \in BOOLEAN, StartWoMsg(needed) PROVE UNCHANGED <<Storing, BusFile>>
  <2>1. main.at = "idle" /\ Reply(0)
    BY <1>0, <1>7 DEF StartWoMsg, Idle
  <2>2. main'.at = "idle"
    BY <1>0, <2>1, MainSteps
  <2>. QED BY <1>4, <1>7, <2>1, <2>2 DEF StartWoMsg
<1>8. ASSUME NEW o \in 0 .. ArraySize, RealReq(o) PROVE UNCHANGED <<Storing, BusFile>>
  BY <1>4, <1>8 DEF RealReq, globals, Idle
<1>9. ASSUME NEW num \in 0 .. MaxBatch, NEW store \in BOOLEAN, ReceiveConfig(num, store)
      PROVE  UNCHANGED <<Storing, BusFile>>
  BY <1>4, <1>9 DEF ReceiveConfig, globals, Idle
<1>10. CASE ConfigInit \/ ConfigCount
  <2>1. main.at \in {"init", "count"} /\ main'.at \in {"init", "count"}
    <3>1. CASE ConfigInit
      BY <1>0, <3>1, MainSteps DEF ConfigInit, Labels
    <3>2. CASE ConfigCount
      BY <1>0, <3>2 DEF ConfigCount, MainTyped
    <3>. QED BY <1>10, <3>1, <3>2
  <2>2. UNCHANGED <<writeGlobal, globalfile, files>>
    BY <1>10 DEF ConfigInit, ConfigCount
  <2>. QED BY <1>4, <2>1, <2>2
<1>11. ~ConfigFlag /\ ~StopMsg
  BY <1>1 DEF ConfigFlag, StopMsg
<1>. QED
  BY <1>2, <1>3, <1>5, <1>6, <1>7, <1>8, <1>9, <1>10, <1>11
     DEF Request, MainStep, StopCancelRead, StopCancelWrite, StopForget, StopReply

(* A package registered during an acquisition joins it. *)
LEMMA MainRegisters ==
    ASSUME MaxConfig <= ArraySize, Inductive, Inductive', Unfed, Request \/ MainStep,
           on = 1, on' = 1
    PROVE  UNCHANGED Seen \/ Seen' = Append(Seen, <<>>)
<1>1. /\ Seen \in Seq(Seq(Message)) /\ Len(Seen) = config_count /\ config_count \in Nat
      /\ \A i \in 1 .. config_count : Seen[i] = obj[i - 1].fed /\ Seen[i] \in Seq(Message)
  BY SeenIs
<1>2. \A i \in 1 .. config_count : obj'[i - 1].fed = obj[i - 1].fed
  <2>1. \A i \in 1 .. config_count : i - 1 \in 0 .. config_count - 1
    BY <1>1
  <2>. QED BY <2>1, MainObjects
<1>3. Seen' = [i \in 1 .. config_count' |-> obj'[i - 1].fed]
  BY DEF Seen
<1>4. CASE UNCHANGED config_count
  <2>1. Seen = [i \in 1 .. config_count |-> obj[i - 1].fed]
    BY DEF Seen
  <2>. QED BY <1>2, <1>3, <1>4, <2>1
<1>5. CASE config_count' = config_count + 1 /\ obj'[config_count].fed = <<>>
  <2>1. \A i \in 1 .. config_count + 1 : i \in 1 .. config_count \/ i = config_count + 1
    BY <1>1
  <2>2. ASSUME NEW i \in 1 .. config_count + 1 PROVE obj'[i - 1].fed \in Seq(Message)
    <3>1. CASE i \in 1 .. config_count
      <4>1. obj'[i - 1].fed = Seen[i] /\ Seen[i] \in Seq(Message)
        BY <1>1, <1>2, <3>1
      <4>. QED BY <4>1
    <3>2. CASE i = config_count + 1
      <4>1. obj'[i - 1].fed = <<>>
        BY <1>1, <1>5, <3>2
      <4>. QED BY <4>1
    <3>. QED BY <2>1, <3>1, <3>2
  <2>3. /\ Seen' \in Seq(Seq(Message)) /\ Len(Seen') = config_count + 1
        /\ \A i \in 1 .. config_count + 1 : Seen'[i] = obj'[i - 1].fed
    <3>1. Seen' \in [1 .. config_count + 1 -> Seq(Message)]
      BY <1>3, <1>5, <2>2
    <3>. QED BY <1>1, <1>3, <1>5, <3>1
  <2>4. Seen'[Len(Seen')] = <<>>
    BY <1>1, <1>5, <2>3
  <2>5. \A i \in 1 .. Len(Seen) : Seen'[i] = Seen[i]
    <3>1. ASSUME NEW i \in 1 .. config_count PROVE Seen'[i] = Seen[i]
      <4>1. i \in 1 .. config_count + 1
        BY <1>1
      <4>2. Seen'[i] = obj'[i - 1].fed
        BY <2>3, <4>1
      <4>. QED BY <1>1, <1>2, <4>2
    <3>. QED BY <1>1, <3>1
  <2>6. <<>> \in Seq(Message)
    OBVIOUS
  <2>. QED BY <1>1, <2>3, <2>4, <2>5, <2>6, AppendIs
<1>. QED BY <1>4, <1>5, MainObjects

LEMMA MainPromise ==
    ASSUME HumanPaced, ~StoreLate, MaxConfig <= ArraySize,
           Inductive, Inductive', Opened, Filed, Unfed, Request \/ MainStep
    PROVE  [Promise!ANext]_(Promise!avars)
<1>0. on \in {0, 1} /\ on' \in {0, 1} /\ config_count \in 0 .. MaxConfig /\ Typed
  BY DEF Inductive, Typed, FlagsTyped
<1>1. CASE on = 0 /\ on' = 1
  BY <1>0, <1>1, MainBegins DEF Promise!ANext
<1>2. CASE on = 1 /\ on' = 0
  BY <1>2, MainEnds DEF Promise!ANext
<1>3. CASE on = 0 /\ on' = 0
  <2>1. UNCHANGED session
    BY <1>0, <1>3, MainMoves DEF Launch
  <2>2. UNCHANGED <<Taking, Line, Handed>>
    BY <1>3 DEF Taking, Line, Handed, Storing, BusFile, Seen
  <2>. QED BY <1>3, <2>1, <2>2, Unmoved
<1>4. CASE on = 1 /\ on' = 1
  <2>1. UNCHANGED <<session, acq, sto, pipe>>
    BY <1>4, MainDuring
  <2>2. UNCHANGED <<Taking, Line>>
    BY <1>4, <2>1 DEF Taking, Line, InTransit, InStorage, InAcquisition
  <2>3. UNCHANGED <<Storing, BusFile>>
    BY <1>4, MainFile
  <2>4. CASE UNCHANGED Seen
    BY <1>4, <2>1, <2>2, <2>3, <2>4, Unmoved DEF Handed
  <2>5. CASE Seen' = Append(Seen, <<>>)
    BY <1>4, <2>1, <2>2, <2>3, <2>5 DEF Promise!ANext, Promise!Register
  <2>. QED BY <1>4, <2>4, <2>5, MainRegisters
<1>. QED BY <1>0, <1>1, <1>2, <1>3, <1>4

(* data_acquisition: a message read joins the line, which has room for it; *)
(* one written to the pipe keeps its place.                                *)
LEMMA AcqPromise ==
    ASSUME MaxConfig <= ArraySize, Inductive, Inductive', Opened, Promised,
           NEW k \in Sessions, AcqStep(k), on = 1
    PROVE  [Promise!ANext]_(Promise!avars)
<1>0. /\ Typed /\ AcqTyped /\ PipeTyped /\ k = session /\ ~cancelA[k] /\ on' = 1
      /\ acq[k].n \in Nat /\ pipe[k] \in Seq(Message) /\ Len(pipe[k]) \in Nat
  <2>1. /\ Typed /\ k = session /\ ~cancelA[k] /\ on' = 1
    BY ThreadRuns DEF Inductive, Opened, Alone, Threads, Present
  <2>. QED BY <2>1, ServerAssumption DEF Typed, AcqTyped, PipeTyped
<1>1. UNCHANGED <<session, on, main, writeGlobal, globalfile, files, config_count, obj, sto>>
  BY <1>0, AcqKinds DEF AcqOnly, globals, mainvars
<1>2. UNCHANGED Handed
  BY <1>1 DEF Handed, Storing, BusFile, Seen
<1>3. UNCHANGED Held
  BY <1>1 DEF Held
<1>4. ASSUME acq'[k].n = acq[k].n, Queued' = Queued
      PROVE  UNCHANGED Promise!avars
  <2>1. Line' = Line /\ Taking' = Taking
    BY <1>0, <1>1, <1>4, LineMoves DEF Line, Taking
  <2>. QED BY <1>1, <1>2, <2>1, Unmoved
<1>5. CASE UNCHANGED <<acq, pipe>>
  BY <1>0, <1>1, <1>3, <1>4, <1>5 DEF Queued
<1>6. CASE AcqMoves(k)
  <2>1. /\ UNCHANGED pipe /\ acq'[k].pc # "write" /\ acq'[k].n = acq[k].n /\ acq[k].pc # "write"
    BY <1>0, <1>6 DEF AcqMoves, AcqAt, AcqTyped
  <2>. QED BY <1>0, <1>1, <1>3, <1>4, <2>1 DEF Queued
<1>7. CASE AcqWrites(k)
  <2>1. /\ acq[k].pc = "write" /\ acq'[k].pc = "check" /\ acq'[k].n = acq[k].n
        /\ pipe'[k] = Append(pipe[k], acq[k].msg) /\ acq[k].msg \in Message
    BY <1>0, <1>7 DEF AcqWrites, AcqAt, AcqTyped, PipeTyped, Inductive, Carried
  <2>2. Len(pipe'[k]) = Len(pipe[k]) + 1
    BY <1>0, <2>1
  <2>3. Queued' = Queued
    <3>1. Held \in Nat
      BY DEF Held
    <3>2. Queued = Held + Len(pipe[k]) + 1 /\ Queued' = Held + Len(pipe'[k]) + 0
      BY <1>0, <1>1, <1>3, <2>1 DEF Queued
    <3>. QED BY <1>0, <2>2, <3>1, <3>2
  <2>. QED BY <1>4, <2>1, <2>3
<1>8. CASE AcqReads(k)
  <2>1. /\ UNCHANGED pipe /\ acq[k].pc = "receive" /\ acq'[k].pc = "write"
        /\ acq'[k].n = acq[k].n + 1
    BY <1>0, <1>8 DEF AcqReads, AcqAt, AcqTyped
  <2>2. Queued' = Queued + 1 /\ Queued = Held + Len(pipe[k])
    BY <1>0, <1>1, <1>3, <2>1 DEF Queued, Held
  <2>3. Line' = Append(Line, [ses |-> session, n |-> acq'[k].n])
    BY <1>0, <1>1, <2>1, <2>2, LineMoves DEF Line
  <2>4. Taking' = Taking + 1 /\ Taking' = acq'[k].n
    BY <1>0, <1>1, <2>1 DEF Taking
  <2>5. Len(Line) < PipeCap + 2
    <3>1. Len(Line) = Queued
      BY LineIs DEF InLine, Line
    <3>2. Len(pipe[k]) <= PipeCap /\ Held \in {0, 1}
      BY DEF Promised, Bounded, Held
    <3>. QED BY <1>0, <2>2, <3>1, <3>2, ServerAssumption
  <2>. QED BY <1>1, <1>2, <2>3, <2>4, <2>5 DEF Promise!ANext, Promise!Receive, Handed
<1>. QED BY <1>0, <1>5, <1>6, <1>7, <1>8, AcqKinds DEF AcqDies

(* While a message is dispatched it is in the bus file, if one is written. *)
LEMMA DispatchedFiled ==
    ASSUME Inductive, Opened, Filed, Promised, on = 1, sto[session].pc = "dispatch"
    PROVE  /\ main.at \notin {"flag", "open"}
           /\ Promise!InFile
<1>0. /\ session \in Sessions /\ session # 0 /\ InputLength \in Nat
  BY ServerAssumption DEF Inductive, Threads, Present, Sessions
<1>1. Running(session) /\ main.at \notin {"flag", "open"}
  BY <1>0 DEF Running, Opened, Quiet, Asleep
<1>2. InTransit(session) # <<>> /\ Head(InTransit(session)) = sto[session].msg
  BY HeadOfLine DEF Carrying
<1>3. PICK b \in 0 .. InputLength : Taken(session, b) /\ Stored(session, b)
  BY <1>0 DEF Filed, Chain
<1>4. sto[session].msg = [ses |-> session, n |-> b]
  BY <1>3 DEF Taken, Carrying
<1>5. SUFFICES ASSUME Storing PROVE Promise!Given(BusFile, Head(Line))
  BY <1>1 DEF Promise!InFile
<1>6. writeGlobal = 1 /\ globalfile > 0 /\ BusFile = files[globalfile]
  BY <1>1, <1>5 DEF Storing, BusFile, Promised, Stocked
<1>7. files[globalfile] # <<>>
  BY <1>6 DEF Promised, Stocked
<1>8. files[globalfile][Len(files[globalfile])] = [ses |-> session, n |-> b]
  BY <1>1, <1>3, <1>6, <1>7 DEF Stored, Writer, Live
<1>. QED BY <1>2, <1>4, <1>6, <1>7, <1>8 DEF Promise!Given, Line

(* Of the message being dispatched: the packages up to the next one were   *)
(* given it, and it is the next one of all others that were fed anything.  *)
LEMMA DispatchedSeen ==
    ASSUME MaxConfig <= ArraySize, Inductive, Paced, Abreast, Promised,
           on = 1, sto[session].pc = "dispatch", NEW i \in 1 .. config_count
    PROVE  /\ i - 1 < sto[session].i => Promise!Given(Seen[i], Head(Line))
           /\ ~(i - 1 < sto[session].i) => Promise!Follows(Head(Line), Seen[i])
<1>0. /\ Seen[i] = obj[i - 1].fed /\ i - 1 \in DOMAIN obj /\ Seen[i] \in Seq(Message)
      /\ config_count \in Nat
  BY SeenIs
<1>1. /\ Head(Line) = sto[session].msg /\ Through \in Nat
      /\ sto[session].msg = [ses |-> session, n |-> Through]
  BY HeadOfLine DEF Carrying, Line
<1>2. sto[session].i \in Nat
  BY ServerAssumption DEF Inductive, Typed, StoTyped, Threads, Present
<1>3. i - 1 \in 0 .. config_count - 1
  BY <1>0
<1>4. ASSUME Seen[i] # <<>>
      PROVE  Seen[i][Len(Seen[i])] =
                 [ses |-> session, n |-> IF i - 1 < sto[session].i THEN Through ELSE Through - 1]
  <2>. DEFINE m == Seen[i][Len(Seen[i])]
  <2>1. Behind(i - 1) <=> ~(i - 1 < sto[session].i)
    BY <1>2, <1>3 DEF Behind
  <2>2. m.n = IF Behind(i - 1) THEN Through - 1 ELSE Through
    BY <1>0, <1>3, <1>4 DEF Abreast
  <2>3. Len(Seen[i]) \in DOMAIN Seen[i] /\ m \in Message
    BY <1>0, <1>4
  <2>4. m.ses = session
    <3>1. obj[i - 1].since = session
      <4>1. i - 1 \in 0 .. ArraySize - 1 /\ i - 1 < config_count
        BY <1>0, <1>3 DEF Inductive, Typed, ObjTyped
      <4>. QED BY <4>1 DEF Paced, Registered, Meant
    <3>2. m.ses = obj[i - 1].since
      BY <1>0, <2>3 DEF Paced, NoStaleFeed
    <3>. QED BY <3>1, <3>2
  <2>5. m = [ses |-> m.ses, n |-> m.n]
    BY <2>3 DEF Message
  <2>. HIDE DEF m
  <2>6. m = [ses |-> session, n |-> IF i - 1 < sto[session].i THEN Through ELSE Through - 1]
    BY <2>1, <2>2, <2>4, <2>5
  <2>. QED BY <2>6 DEF m
<1>5. CASE i - 1 < sto[session].i
  <2>1. Seen[i] # <<>>
    BY <1>0, <1>3, <1>5 DEF Promised, Turned
  <2>2. Seen[i][Len(Seen[i])] = [ses |-> session, n |-> Through]
    BY <1>4, <1>5, <2>1
  <2>. QED BY <1>1, <1>5, <2>1, <2>2 DEF Promise!Given
<1>6. CASE ~(i - 1 < sto[session].i)
  <2>1. CASE Seen[i] = <<>>
    BY <1>6, <2>1 DEF Promise!Follows
  <2>2. CASE Seen[i] # <<>>
    <3>1. Seen[i][Len(Seen[i])] = [ses |-> session, n |-> Through - 1]
      BY <1>4, <1>6, <2>2
    <3>2. [[ses |-> session, n |-> Through - 1] EXCEPT !.n = @ + 1]
              = [ses |-> session, n |-> Through]
      BY <1>1
    <3>. QED BY <1>1, <1>6, <3>1, <3>2 DEF Promise!Follows
  <2>. QED BY <2>1, <2>2
<1>. QED BY <1>5, <1>6

(* data_storage: a message moves from the pipe to the thread's hands, into *)
(* the bus file, to one package after the other, and out of the line.      *)
LEMMA StoPromise ==
    ASSUME MaxConfig <= ArraySize, Inductive, Inductive', Paced, Opened, Filed, Abreast, Promised,
           NEW k \in Sessions, StoStep(k), on = 1
    PROVE  [Promise!ANext]_(Promise!avars)
<1>0. /\ Typed /\ StoTyped /\ PipeTyped /\ FilesTyped /\ ObjTyped /\ k = session /\ ~cancelS[k]
      /\ pipe[k] \in Seq(Message) /\ Len(pipe[k]) \in Nat /\ sto[k].i \in Nat
  <2>1. Typed /\ k = session /\ ~cancelS[k]
    BY ThreadRuns DEF Inductive, Opened, Alone, Threads, Present
  <2>. QED BY <2>1, ServerAssumption DEF Typed, StoTyped, PipeTyped
<1>1. UNCHANGED <<session, on, main, writeGlobal, globalfile, config_count, acq>>
  BY <1>0, StoKinds DEF StoOnly, mainvars
<1>2. UNCHANGED <<Taking, Storing>>
  BY <1>1 DEF Taking, Storing
<1>3. ASSUME Queued' = Queued PROVE UNCHANGED Line
  BY <1>0, <1>1, <1>3, LineMoves DEF Line
<1>4. UNCHANGED files => UNCHANGED BusFile
  BY <1>1 DEF BusFile, Storing
<1>5. UNCHANGED obj => UNCHANGED Seen
  BY <1>1 DEF Seen
<1>6. ASSUME Queued' = Queued, UNCHANGED <<files, obj>> PROVE UNCHANGED Promise!avars
  BY <1>1, <1>2, <1>3, <1>4, <1>5, <1>6, Unmoved DEF Handed
<1>7. ASSUME UNCHANGED pipe, (sto[k].pc \in Carrying) = (sto'[k].pc \in Carrying)
      PROVE  Queued' = Queued
  BY <1>0, <1>1, <1>7 DEF Queued, Held
<1>8. CASE StoRead(k)
  <2>1. /\ UNCHANGED <<files, obj>> /\ sto[k].pc = "read" /\ sto'[k].pc = "global"
        /\ pipe'[k] = Tail(pipe[k]) /\ pipe[k] # <<>>
    BY <1>0, <1>8 DEF StoRead, StoTyped, PipeTyped
  <2>2. Len(pipe'[k]) = Len(pipe[k]) - 1
    BY <1>0, <2>1
  <2>3. Held = 0 /\ Held' = 1
    BY <1>0, <1>1, <2>1 DEF Held, Carrying
  <2>4. Queued' = Queued
    BY <1>0, <1>1, <2>2, <2>3 DEF Queued
  <2>. QED BY <1>6, <2>1, <2>4
<1>9. CASE StoGlobal(k)
  <2>1. /\ UNCHANGED <<files, obj, pipe>> /\ sto[k].pc \in Carrying /\ sto'[k].pc \in Carrying
    BY <1>0, <1>9 DEF StoGlobal, StoGoto, StoTyped, Carrying
  <2>. QED BY <1>6, <1>7, <2>1
<1>10. CASE StoCheck(k)
  <2>1. /\ UNCHANGED <<files, obj, pipe>> /\ sto[k].pc \notin Carrying /\ sto'[k].pc \notin Carrying
    BY <1>0, <1>10 DEF StoCheck, StoReset, StoTyped, Carrying
  <2>. QED BY <1>6, <1>7, <2>1
<1>11. CASE StoFwrite(k) /\ globalfile > 0
  <2>1. /\ UNCHANGED <<obj, pipe>> /\ sto[k].pc = "fwrite" /\ sto'[k].pc = "dispatch"
    BY <1>0, <1>11, FilePointer DEF StoFwrite, StoGoto, StoTyped
  <2>2. /\ Line # <<>> /\ Head(Line) = sto[k].msg /\ sto[k].msg \in Message
        /\ sto[k].msg = [ses |-> session, n |-> Through] /\ Through \in Nat
    BY <1>0, <2>1, HeadOfLine DEF Carrying, Line
  <2>3. UNCHANGED Line
    <3>1. sto[k].pc \in Carrying /\ sto'[k].pc \in Carrying
      BY <2>1 DEF Carrying
    <3>. QED BY <1>3, <1>7, <2>1, <3>1
  <2>4. globalfile > 0 /\ writeGlobal = 1
    BY <1>0, <1>11, <2>1 DEF Promised, Stocked
  <2>5. main.at \notin {"flag", "open"}
    BY <1>0, <2>1 DEF Opened, Quiet, Asleep, Running
  <2>6. Storing /\ BusFile = files[globalfile] /\ BusFile' = files'[globalfile]
    BY <1>1, <2>4, <2>5 DEF Storing, BusFile
  <2>7. BusFile' = Append(BusFile, Head(Line))
    <3>1. files' = [files EXCEPT ![globalfile] = Append(@, sto[k].msg)]
      BY <1>0, <1>11, <2>4, FilePointer DEF StoFwrite
    <3>2. globalfile \in DOMAIN files
      BY <1>0, <2>4 DEF FilesTyped
    <3>. QED BY <2>2, <2>6, <3>1, <3>2
  <2>8. Promise!Follows(Head(Line), BusFile)
    <3>0. session # 0 /\ InputLength \in Nat
      BY <1>0, ServerAssumption DEF Sessions
    <3>1. PICK b \in 0 .. InputLength : Taken(session, b) /\ Stored(session, b)
      BY <3>0 DEF Filed, Chain
    <3>2. sto[k].msg = [ses |-> session, n |-> b] /\ b \in Int
      BY <1>0, <2>1, <3>0, <3>1 DEF Taken, Carrying
    <3>3. BusFile # <<>> => BusFile[Len(BusFile)] = [ses |-> session, n |-> b - 1]
      BY <1>0, <2>1, <2>4, <2>5, <2>6, <3>1 DEF Stored, Writer, Live
    <3>4. [[ses |-> session, n |-> b - 1] EXCEPT !.n = @ + 1] = [ses |-> session, n |-> b]
      BY <3>2
    <3>. QED BY <2>2, <3>2, <3>3, <3>4 DEF Promise!Follows
  <2>9. UNCHANGED Seen
    BY <1>5, <2>1
  <2>. QED BY <1>1, <1>2, <2>2, <2>3, <2>6, <2>7, <2>8, <2>9 DEF Promise!ANext, Promise!Store
<1>12. CASE StoDispatch(k)
  <2>1. UNCHANGED <<files, pipe>> /\ sto[k].pc = "dispatch"
    BY <1>12 DEF StoDispatch
  <2>2. /\ Line # <<>> /\ Head(Line) = sto[k].msg /\ sto[k].msg \in Message
    BY <1>0, <2>1, HeadOfLine DEF Carrying, Line
  <2>3. Promise!InFile
    BY <1>0, <2>1, DispatchedFiled
  <2>4. UNCHANGED BusFile
    BY <1>4, <2>1
  <2>5. /\ Seen \in Seq(Seq(Message)) /\ Len(Seen) = config_count /\ config_count \in Nat
        /\ DOMAIN Seen = 1 .. config_count
        /\ \A i \in 1 .. config_count : Seen[i] = obj[i - 1].fed /\ i - 1 \in DOMAIN obj
    BY SeenIs
  <2>6. CASE Fed(k)
    <3>. DEFINE i == sto[k].i + 1
    <3>1. /\ i \in 1 .. config_count /\ i - 1 = sto[k].i
      <4>1. sto[k].i < config_count
        BY <2>6 DEF Fed
      <4>. QED BY <1>0, <2>5, <4>1
    <3>2. UNCHANGED Line
      <4>1. sto[k].pc \in Carrying /\ sto'[k].pc \in Carrying
        BY <2>1, <2>6 DEF Carrying, Fed
      <4>. QED BY <1>3, <1>7, <2>1, <4>1
    <3>3. Promise!Follows(Head(Line), Seen[i])
      <4>1. ~(i - 1 < sto[session].i)
        BY <1>0, <3>1
      <4>. QED BY <1>0, <2>1, <3>1, <4>1, DispatchedSeen
    <3>4. ASSUME NEW j \in 1 .. i - 1 PROVE Promise!Given(Seen[j], Head(Line))
      <4>1. j \in 1 .. config_count /\ j - 1 < sto[session].i
        BY <1>0, <2>5, <3>1
      <4>. QED BY <1>0, <2>1, <4>1, DispatchedSeen
    <3>5. Seen' = [Seen EXCEPT ![i] = Append(@, Head(Line))]
      <4>1. Seen = [j \in 1 .. config_count |-> obj[j - 1].fed]
            /\ Seen' = [j \in 1 .. config_count |-> obj'[j - 1].fed]
        BY <1>1 DEF Seen
      <4>2. ASSUME NEW j \in 1 .. config_count
            PROVE  obj'[j - 1].fed = IF j = i THEN Append(Seen[j], Head(Line)) ELSE Seen[j]
        <5>1. j - 1 = sto[k].i <=> j = i
          BY <1>0, <2>5
        <5>. QED BY <2>2, <2>5, <2>6, <5>1 DEF Fed
      <4>. HIDE DEF i
      <4>3. [Seen EXCEPT ![i] = Append(@, Head(Line))]
              = [j \in 1 .. config_count |-> IF j = i THEN Append(Seen[j], Head(Line)) ELSE Seen[j]]
        BY <2>5, <3>1
      <4>. QED BY <4>1, <4>2, <4>3
    <3>. HIDE DEF i
    <3>6. Promise!Feed(i)
      BY <1>1, <1>2, <2>2, <2>3, <2>4, <3>2, <3>3, <3>4, <3>5 DEF Promise!Feed
    <3>. QED BY <2>5, <3>1, <3>6 DEF Promise!ANext
  <2>7. CASE UNCHANGED obj /\ sto[k].i >= config_count /\ sto'[k].pc = "check"
    <3>1. ASSUME NEW i \in DOMAIN Seen PROVE Promise!Given(Seen[i], Head(Line))
      <4>1. i \in 1 .. config_count /\ i - 1 < sto[session].i
        BY <1>0, <2>5, <2>7
      <4>. QED BY <1>0, <2>1, <4>1, DispatchedSeen
    <3>2. Line' = Tail(Line)
      <4>1. Held = 1 /\ Held' = 0
        BY <1>0, <1>1, <2>1, <2>7 DEF Held, Carrying
      <4>2. Queued' = Queued - 1
        <5>1. CASE acq[session].pc = "write"
          BY <1>0, <1>1, <2>1, <4>1, <5>1 DEF Queued
        <5>2. CASE acq[session].pc # "write"
          BY <1>0, <1>1, <2>1, <4>1, <5>2 DEF Queued
        <5>. QED BY <5>1, <5>2
      <4>. QED BY <1>0, <1>1, <4>2, LineMoves DEF Line
    <3>. QED BY <1>1, <1>2, <1>5, <2>2, <2>3, <2>4, <2>7, <3>1, <3>2
             DEF Promise!ANext, Promise!Finish
  <2>8. sto'[k].pc # "dead"
    BY <1>0, <1>12 DEF StoDispatch, StoGoto, StoTyped
  <2>. QED BY <1>0, <2>1, <2>6, <2>7, <2>8, StoFeeds
<1>14. CASE StoFwrite(k) /\ ~(globalfile > 0)
  <2>1. UNCHANGED <<files, obj, pipe, sto>>
    BY <1>0, <1>14, FilePointer DEF StoFwrite
  <2>. QED BY <1>6, <1>7, <2>1
<1>13. ~StoCancelled(k)
  BY <1>0 DEF StoCancelled
<1>. QED BY <1>8, <1>9, <1>10, <1>11, <1>12, <1>13, <1>14 DEF StoStep

LEMMA NextPromise ==
    ASSUME HumanPaced, ~StoreLate, MaxConfig <= ArraySize, Inductive, Inductive',
           Paced, Opened, Filed, Unfed, Abreast, Promised, [Next]_vars
    PROVE  [Promise!ANext]_(Promise!avars)
<1>1. CASE Request \/ MainStep
  BY <1>1, MainPromise
<1>2. ASSUME NEW k \in Sessions, AcqStep(k) \/ StoStep(k)
      PROVE  [Promise!ANext]_(Promise!avars)
  <2>1. CASE on = 1
    BY <1>2, <2>1, AcqPromise, StoPromise
  <2>2. CASE on # 1
    <3>1. UNCHANGED <<on, session>>
      BY <1>2, ThreadRuns DEF Inductive
    <3>2. UNCHANGED <<Taking, Line, Handed>>
      BY <2>2, <3>1 DEF Taking, Line, Handed, Storing, BusFile, Seen
    <3>. QED BY <3>1, <3>2, Unmoved
  <2>. QED BY <2>1, <2>2
<1>3. CASE UNCHANGED vars
  <2>1. UNCHANGED <<on, session, Taking, Line, Handed>>
    BY <1>3
       DEF vars, globals, mainvars, Taking, Line, Handed, Storing, BusFile, Seen,
           InTransit, InStorage, InAcquisition
  <2>. QED BY <2>1, Unmoved
<1>. QED BY <1>1, <1>2, <1>3 DEF Next

(* From START to STOP the server is a line: each message of the bus is in  *)
(* the bus file before any package sees it, every registered package is    *)
(* fed all of them, in order and none twice, and no more of them are held  *)
(* than the pipe takes and one in the hands of each thread.  This needs    *)
(* clients that leave a STOP its time and ask for a bus file before they   *)
(* start, and room in configuration[] for the packages.                    *)
THEOREM AcquisitionImplemented ==
    HumanPaced /\ ~StoreLate /\ MaxConfig <= ArraySize => (Spec => ImplementsAcquisition)
<1>. SUFFICES ASSUME HumanPaced, ~StoreLate, MaxConfig <= ArraySize
              PROVE  Spec => ImplementsAcquisition
  OBVIOUS
<1>. DEFINE I == /\ Inductive /\ Paced /\ Opened /\ Filed
                 /\ Unfed /\ Abreast /\ Promised
<1>1. Init => I
  BY InitInductive, InitPaced, InitOpened, InitFiled, InitAbreast, InitPromised
<1>2. I /\ [Next]_vars => I'
  BY NextInductive, NextPaced, NextOpened, NextFiled, NextAbreast, NextPromised
<1>3. I /\ I' /\ [Next]_vars => [Promise!ANext]_(Promise!avars)
  BY NextPromise
<1>4. Init => Promise!AInit
  BY InitPromise
<1>. HIDE DEF I
<1>. QED BY <1>1, <1>2, <1>3, <1>4, PTL DEF Spec, ImplementsAcquisition, Promise!ASpec

=============================================================================
