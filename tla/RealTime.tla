------------------------------ MODULE RealTime ------------------------------
(***************************************************************************)
(* The buffer between an acquisition object and the real-time requests:    *)
(* global_buf_ptr and data_rdy of class Package.  Put_Major_Data posts a   *)
(* finished major frame into it in the storage thread, getRealTime copies  *)
(* it into a reply in main(), each with one memcpy, and nothing keeps the  *)
(* two apart (Package.cpp:196 "protect here with mutex???").               *)
(*                                                                         *)
(* A memcpy moves one slot after the other in an order of its own choice;  *)
(* a slot stands for the largest piece that is moved at once.  Major       *)
(* frames are numbered; what they contain is module Package.               *)
(*                                                                         *)
(* After a STOP a CONFIG_MSG initialises the object again: a new buffer of *)
(* zeros, but the data_rdy of the last acquisition.                        *)
(***************************************************************************)
EXTENDS Integers

CONSTANTS
    Slots,     \* the pieces of a major frame
    MaxMajor   \* bound: major frames posted

ASSUME RealTimeAssumption == Slots # {} /\ MaxMajor \in Nat

VARIABLES
    global_buf,  \* number of the frame each slot is of, 0 after memset
    data_rdy,
    posting,     \* is the storage thread in Put_Major_Data's post?
    begun,       \* frame it posts, or posted last
    base,        \* history: the frames posted before the buffer was allocated
    todo,        \* slots its memcpy has still to move
    answering,   \* main() and REAL_REQ: "idle", "copy" in getRealTime, "reply" before MsgReply
    left,        \* slots getRealTime has still to move
    reply,       \* main()'s realTime.reply, overwritten by each request
    status,      \* realTime.status
    low          \* history: the last frame posted when REAL_REQ was received

storage == <<global_buf, data_rdy, posting, begun, base, todo>>
request == <<answering, left, reply, status, low>>
realTimeVars == <<storage, request>>

(* What the buffer has of frame n, and of the last one posted completely:  *)
(* zeros, if that was into an earlier buffer.                              *)
Stored(n) == IF n > base THEN n ELSE 0
done == Stored(IF posting THEN begun - 1 ELSE begun)

-----------------------------------------------------------------------------
(* Storage thread: the last slot of a major frame was filled.              *)

PostBegins ==
    /\ ~posting /\ begun < MaxMajor
    /\ posting' = TRUE /\ begun' = begun + 1 /\ todo' = Slots
    /\ UNCHANGED <<global_buf, data_rdy, base, request>>

PostSlot(s) ==
    /\ posting /\ s \in todo
    /\ global_buf' = [global_buf EXCEPT ![s] = begun]
    /\ todo' = todo \ {s}
    /\ UNCHANGED <<data_rdy, posting, begun, base, request>>

PostOneSlotOnly ==
    /\ posting /\ todo # Slots
    /\ data_rdy' = 1 /\ posting' = FALSE /\ todo' = {}
    /\ UNCHANGED <<global_buf, begun, base, request>>
PostEnds ==
    /\ posting /\ todo = {}
    /\ data_rdy' = 1 /\ posting' = FALSE
    /\ UNCHANGED <<global_buf, begun, base, todo, request>>

-----------------------------------------------------------------------------
(* main().                                                                 *)

(* CONFIG_MSG, after a STOP that had the time to end the storage thread    *)
(* (HumanPaced of module Server): Package::Init.                           *)
Configure ==
    /\ answering = "idle" /\ ~posting
    /\ global_buf' = [s \in Slots |-> 0]
    /\ base' = begun
    /\ UNCHANGED <<data_rdy, posting, begun, todo, request>>

(* REAL_REQ for a configured object. *)
RealReq ==
    /\ answering = "idle"
    /\ \/ /\ data_rdy = 1
          /\ answering' = "copy" /\ left' = Slots /\ low' = done
          /\ UNCHANGED status
       \/ /\ data_rdy # 1
          /\ answering' = "reply" /\ status' = 2
          /\ UNCHANGED <<left, low>>
    /\ UNCHANGED <<storage, reply>>

CopySlot(s) ==
    /\ answering = "copy" /\ s \in left
    /\ reply' = [reply EXCEPT ![s] = global_buf[s]]
    /\ left' = left \ {s}
    /\ IF left' = {} THEN answering' = "reply" /\ status' = 1 ELSE UNCHANGED <<answering, status>>
    /\ UNCHANGED <<storage, low>>

MsgReply ==
    /\ answering = "reply"
    /\ answering' = "idle" /\ status' = 0
    /\ UNCHANGED <<storage, left, reply, low>>

RealTimeInit ==
    /\ global_buf = [s \in Slots |-> 0] /\ data_rdy = 0
    /\ posting = FALSE /\ begun = 0 /\ base = 0 /\ todo = {}
    /\ answering = "idle" /\ left = {} /\ status = 0 /\ low = 0
    /\ reply = [s \in Slots |-> 0]

RealTimeNext ==
    \/ PostBegins \/ PostEnds
    \/ \E s \in Slots : PostSlot(s) \/ CopySlot(s)
    \/ Configure \/ RealReq \/ MsgReply

RealTimeSpec == RealTimeInit /\ [][RealTimeNext]_realTimeVars

-----------------------------------------------------------------------------
(* Properties.                                                             *)

RealTimeTypeOK ==
    /\ global_buf \in [Slots -> Nat] /\ data_rdy \in {0, 1}
    /\ posting \in BOOLEAN /\ begun \in Nat /\ base \in Nat /\ todo \in SUBSET Slots
    /\ answering \in {"idle", "copy", "reply"} /\ left \in SUBSET Slots
    /\ reply \in [Slots -> Nat] /\ status \in {0, 1, 2} /\ low \in Nat

Answered == answering = "reply" /\ status = 1

(* Is a slot of frame n an answer to the request being answered? *)
Recent(n) == n \in low .. begun /\ (n = low \/ n > base)

(* The refinement: what a client is answered is what FrameRegister         *)
(* promises, for any overlap of posts and requests.  In particular no slot *)
(* is older than the last frame posted before the request, and a request   *)
(* no post overlaps is answered with one whole frame, the latest, or with  *)
(* zeros until the first post after a CONFIG.                              *)
Register == INSTANCE FrameRegister WITH
    writing <- posting,
    ready   <- data_rdy = 1,
    since   <- base,
    phase   <- IF answering = "copy" THEN "asked" ELSE IF Answered THEN "answered" ELSE "idle",
    out     <- IF Answered THEN reply ELSE [s \in Slots |-> 0]
ImplementsRegister == Register!RSpec

(* From one reply to the next no slot goes back to an older frame, only to *)
(* the zeros of a buffer that was initialised again.                       *)
RepliesMonotone == [][\A s \in Slots : reply'[s] >= reply[s] \/ reply'[s] = 0]_realTimeVars

(* However soon after a CONFIG a request comes, and although data_rdy is   *)
(* still set, no slot answered is of a frame posted before that CONFIG.    *)
NoEarlierFrame == Answered => \A s \in Slots : reply[s] = 0 \/ reply[s] > base

(* The inductive invariant of the proofs: slots the memcpy has moved are   *)
(* of the frame begun, the others of the one before; what is copied of a   *)
(* reply is in the window of its request, and never ahead of the buffer.   *)
Window ==
    /\ ~posting => todo = {}
    /\ base <= begun /\ (posting => base < begun)
    /\ \A s \in Slots : global_buf[s] = Stored(IF s \in todo THEN begun - 1 ELSE begun)
    /\ \A s \in Slots : reply[s] <= base \/ reply[s] <= global_buf[s]
    /\ answering = "copy" => left # {} /\ low <= done /\ (low = 0 \/ low > base)
    /\ answering = "copy" => \A s \in Slots \ left : Recent(reply[s])
    /\ Answered => (low = 0 \/ low > base) /\ \A s \in Slots : Recent(reply[s])
    /\ answering = "idle" => status = 0
    /\ answering = "copy" => status = 0
    /\ answering = "reply" => status # 0
=============================================================================
