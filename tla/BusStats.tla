------------------------------ MODULE BusStats ------------------------------
(***************************************************************************)
(* The bus statistics of the server: the global Current, counted up by     *)
(* data_check (distriServer/headers/threadfunc.cpp) in the acquisition     *)
(* thread, reset by START and copied to the client by CURR_REQ in main()   *)
(* (distriServer/distriServer.cc), with no lock between the two.           *)
(*                                                                         *)
(* One acquisition thread at a time: a START follows the STOP before it by *)
(* a human's reaction time, after the cancelled thread met a cancellation  *)
(* point (module Server treats the other case).                            *)
(***************************************************************************)
EXTENDS Integers, FiniteSets

CONSTANTS
    RTs,          \* remote terminal addresses (0..31)
    SAs,          \* subaddresses (0..31)
    MaxMessages   \* bound: messages in one acquisition

ASSUME StatsAssumption ==
    /\ IsFiniteSet(RTs) /\ RTs # {} /\ SAs # {}
    /\ MaxMessages \in Nat

VARIABLES
    noRTAlive, noOfMessages, noOfValidMessages, noOfInvalidMessages,
    rtSub,      \* Current.rtSubAddrMessageCount
    rtInvalid,  \* Current.rtInvalidSubAddrMessageCount
    acq,        \* where in data_check the acquisition thread is
    tag,        \* the message it is checking
    on,
    main,       \* what main() copies next for a CURR_REQ
    snap        \* the reply under way, or the last one

counters == <<noRTAlive, noOfMessages, noOfValidMessages, noOfInvalidMessages,
              rtSub, rtInvalid>>
vars == <<counters, acq, tag, on, main, snap>>

Boxes  == RTs \X SAs
Tables == [Boxes -> Int]
Tags   == [rt : RTs, sa : SAs, ok : BOOLEAN]
Box(t) == <<t.rt, t.sa>>

(* A terminal is alive once one of its subaddresses left -1. *)
Alive(table) == {r \in RTs : \E s \in SAs : table[<<r, s>>] # -1}

-----------------------------------------------------------------------------
(* data_check, one action per counter it touches.                          *)

(* A pulse came and fread returned t. *)
Receive(t) ==
    /\ acq = "receive" /\ on = 1 /\ noOfMessages < MaxMessages
    /\ tag' = t
    /\ acq' = "message"
    /\ UNCHANGED <<counters, on, main, snap>>

CountMessage ==
    /\ acq = "message"
    /\ noOfMessages' = noOfMessages + 1
    /\ acq' = IF tag.ok THEN "valid" ELSE "invalidBox"
    /\ UNCHANGED <<noRTAlive, noOfValidMessages, noOfInvalidMessages, rtSub, rtInvalid,
                   tag, on, main, snap>>

CountInvalidBox ==
    /\ acq = "invalidBox"
    /\ rtInvalid' = [rtInvalid EXCEPT ![Box(tag)] = @ + 1]
    /\ acq' = "invalid"
    /\ UNCHANGED <<noRTAlive, noOfMessages, noOfValidMessages, noOfInvalidMessages,
                   rtSub, tag, on, main, snap>>

CountInvalid ==
    /\ acq = "invalid"
    /\ noOfInvalidMessages' = noOfInvalidMessages + 1
    /\ acq' = "receive"
    /\ UNCHANGED <<noRTAlive, noOfMessages, noOfValidMessages, rtSub, rtInvalid,
                   tag, on, main, snap>>

CountValid ==
    /\ acq = "valid"
    /\ noOfValidMessages' = noOfValidMessages + 1
    /\ acq' = "scan"
    /\ UNCHANGED <<noRTAlive, noOfMessages, noOfInvalidMessages, rtSub, rtInvalid,
                   tag, on, main, snap>>

(* The loop over the 32 subaddresses: is the terminal new?  Testing only   *)
(* the box of the message itself would count it once per subaddress.       *)
BoxIsNew(t) == rtSub[Box(t)] = -1
TerminalIsNew(t) == \A s \in SAs : rtSub[<<t.rt, s>>] = -1

CountAlive ==
    /\ acq = "scan"
    /\ noRTAlive' = noRTAlive + (IF TerminalIsNew(tag) THEN 1 ELSE 0)
    /\ acq' = "box"
    /\ UNCHANGED <<noOfMessages, noOfValidMessages, noOfInvalidMessages, rtSub, rtInvalid,
                   tag, on, main, snap>>

CountBox ==
    /\ acq = "box"
    /\ rtSub' = [rtSub EXCEPT ![Box(tag)] = @ + 1]
    /\ acq' = "receive"
    /\ UNCHANGED <<noRTAlive, noOfMessages, noOfValidMessages, noOfInvalidMessages,
                   rtInvalid, tag, on, main, snap>>

-----------------------------------------------------------------------------
(* main().                                                                 *)

NoCounts == [b \in Boxes |-> -1]
NoSnap == [noRTAlive |-> 0, noOfMessages |-> 0, noOfValidMessages |-> 0,
           noOfInvalidMessages |-> 0, rtSub |-> NoCounts, rtInvalid |-> NoCounts]

(* START_MSG and START_WO_REQ reset Current after creating the thread; its *)
(* first pulse comes a second later.                                       *)
Start ==
    /\ main = "idle" /\ on = 0 /\ acq = "none"
    /\ on' = 1 /\ acq' = "receive"
    /\ noRTAlive' = 0 /\ noOfMessages' = 0
    /\ noOfValidMessages' = 0 /\ noOfInvalidMessages' = 0
    /\ rtSub' = NoCounts /\ rtInvalid' = NoCounts
    /\ UNCHANGED <<tag, main, snap>>

(* STOP: the thread ends where it next waits for a pulse. *)
Stop ==
    /\ main = "idle" /\ on = 1
    /\ on' = 0
    /\ UNCHANGED <<counters, acq, tag, main, snap>>

AcqEnds ==
    /\ on = 0 /\ acq = "receive"
    /\ acq' = "none"
    /\ UNCHANGED <<counters, tag, on, main, snap>>

(* CURR_REQ: MsgReply copies Current from the lowest address up, while     *)
(* data_check goes on: the four totals, then the two tables.               *)
CurrReq ==
    /\ main = "idle"
    /\ snap' = [snap EXCEPT !.noRTAlive = noRTAlive]
    /\ main' = "messages"
    /\ UNCHANGED <<counters, acq, tag, on>>

CopyMessages ==
    /\ main = "messages"
    /\ snap' = [snap EXCEPT !.noOfMessages = noOfMessages]
    /\ main' = "valid"
    /\ UNCHANGED <<counters, acq, tag, on>>

CopyValid ==
    /\ main = "valid"
    /\ snap' = [snap EXCEPT !.noOfValidMessages = noOfValidMessages]
    /\ main' = "invalid"
    /\ UNCHANGED <<counters, acq, tag, on>>

CopyInvalid ==
    /\ main = "invalid"
    /\ snap' = [snap EXCEPT !.noOfInvalidMessages = noOfInvalidMessages]
    /\ main' = "rtSub"
    /\ UNCHANGED <<counters, acq, tag, on>>

CopySub ==
    /\ main = "rtSub"
    /\ snap' = [snap EXCEPT !.rtSub = rtSub]
    /\ main' = "rtInvalid"
    /\ UNCHANGED <<counters, acq, tag, on>>

CopyTotalsAgain ==
    /\ main = "rtInvalid"
    /\ snap' = [snap EXCEPT !.rtInvalid = rtInvalid,
                            !.noOfMessages = noOfMessages,
                            !.noOfValidMessages = noOfValidMessages]
    /\ main' = "reply"
    /\ UNCHANGED <<counters, acq, tag, on>>

CopyInvalidTable ==
    /\ main = "rtInvalid"
    /\ snap' = [snap EXCEPT !.rtInvalid = rtInvalid]
    /\ main' = "reply"
    /\ UNCHANGED <<counters, acq, tag, on>>

(* The client has the reply; the model forgets it. *)
ReplyTaken ==
    /\ main = "reply"
    /\ snap' = NoSnap
    /\ main' = "idle"
    /\ UNCHANGED <<counters, acq, tag, on>>

-----------------------------------------------------------------------------
(* Current is a global without initialiser: all its bytes are zero.        *)
Init ==
    /\ noRTAlive = 0 /\ noOfMessages = 0
    /\ noOfValidMessages = 0 /\ noOfInvalidMessages = 0
    /\ rtSub = [b \in Boxes |-> 0] /\ rtInvalid = [b \in Boxes |-> 0]
    /\ acq = "none"
    /\ tag \in {t \in Tags : t.ok}
    /\ on = 0
    /\ main = "idle"
    /\ snap = NoSnap

DataCheck ==
    \/ \E t \in Tags : Receive(t)
    \/ CountMessage
    \/ CountInvalidBox \/ CountInvalid
    \/ CountValid \/ CountAlive \/ CountBox

CopyStep ==
    CopyMessages \/ CopyValid \/ CopyInvalid \/ CopySub \/ CopyInvalidTable \/ ReplyTaken

Next == DataCheck \/ AcqEnds \/ Start \/ Stop \/ CurrReq \/ CopyStep

Spec == Init /\ [][Next]_vars

-----------------------------------------------------------------------------
(* Properties.                                                             *)

Snapshots == [noRTAlive : Nat, noOfMessages : Nat, noOfValidMessages : Nat,
              noOfInvalidMessages : Nat, rtSub : Tables, rtInvalid : Tables]

TypeOK ==
    /\ noRTAlive \in Nat /\ noOfMessages \in Nat
    /\ noOfValidMessages \in Nat /\ noOfInvalidMessages \in Nat
    /\ rtSub \in [Boxes -> Nat \cup {-1}] /\ rtInvalid \in [Boxes -> Nat \cup {-1}]
    /\ acq \in {"none", "receive", "message", "valid", "scan", "box",
                "invalidBox", "invalid"}
    /\ tag \in Tags
    /\ on \in {0, 1}
    /\ main \in {"idle", "messages", "valid", "invalid", "rtSub", "rtInvalid", "reply"}
    /\ snap \in Snapshots

(* Every message is counted exactly once as valid or invalid, except the   *)
(* one the thread is between the two increments of.                        *)
MessagesAddUp ==
    noOfMessages = noOfValidMessages + noOfInvalidMessages
                     + (IF acq \in {"valid", "invalidBox", "invalid"} THEN 1 ELSE 0)

(* During an acquisition the number of live terminals is the number of     *)
(* terminals with a count in the table; it is ahead by one only between    *)
(* the scan that found a new terminal and the increment of its box.        *)
AliveExact ==
    on = 1 \/ acq # "none" =>
        noRTAlive = Cardinality(Alive(rtSub))
                      + (IF acq = "box" /\ TerminalIsNew(tag) THEN 1 ELSE 0)

(* The counters agree with each other and with the table at every step of  *)
(* data_check.                                                             *)
CountersAddUp == MessagesAddUp /\ AliveExact

(* A reply is torn, but in a known direction: because data_check counts    *)
(* the totals first and the reply copies them first, no total in a reply   *)
(* is ahead of the parts it should be the sum of by more than the one      *)
(* message being counted when it was copied.                               *)
SnapshotOrdered ==
    main = "reply" =>
        /\ snap.noOfMessages <= snap.noOfValidMessages + snap.noOfInvalidMessages + 1
        /\ snap.noRTAlive <= Cardinality(Alive(snap.rtSub)) + 1
=============================================================================
