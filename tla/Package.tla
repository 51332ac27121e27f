------------------------------ MODULE Package ------------------------------
(***************************************************************************)
(* One acquisition object of the server: class Package of                  *)
(* distriServer/headers/Package.cpp.  It picks the messages of its package *)
(* out of the 1553B bus traffic, assembles them into minor frames, appends *)
(* each closed minor frame to the package's own file, places it in its     *)
(* slot of the major frame, and posts a finished major frame to the buffer *)
(* the real-time requests are answered from.                               *)
(*                                                                         *)
(* The bus is the environment.  It repeats Schedule for ever; the pass     *)
(* through Schedule number c is "bus cycle c" and carries minor frame      *)
(* MinorOf(c).  A data word is represented by the cycle it was sent in; 0  *)
(* is the 0x00 that memset leaves in a buffer.                             *)
(***************************************************************************)
EXTENDS Integers, Sequences

CONSTANTS
    Layout,        \* pkg.Subaddress[i], pkg.word_count[i]: <<[sub, wc], ...>>
    RTNo,          \* pkg.RT_No
    TotalMinor,    \* pkg.total_minor_cycles
    MinIdMsg,      \* index of the message whose data hold byte pkg.minid_pos
    FrameEnclose,  \* pkg.frame_enclose
    InsertDummy,   \* pkg.insert_dummy_chars
    StoreData,     \* pkg.store_data
    Schedule,      \* the command words of one bus cycle: <<[rt, sub, wc], ...>>
    BlocksFail,    \* may a message arrive with a bad block status word?
    WildIds,       \* values a disturbed minor id byte can have
    DiskFails,     \* may fwrite fail?
    MaxCycle,      \* bound: bus cycles explored
    MaxSession     \* bound: CONFIG .. STOP sessions explored

(* total_msg is at most MSG_MAX (3) in monitor_msg.h, so a message index   *)
(* always fits the 8 bit msg_sts mask; minid_pos is set inside the data of *)
(* one message in every row of the package database.                       *)
ASSUME LayoutAssumption ==
    /\ Layout \in Seq([sub : Nat, wc : Nat])
    /\ Len(Layout) \in 1..3
    /\ MinIdMsg \in 0 .. Len(Layout) - 1

ASSUME MajorAssumption ==
    /\ TotalMinor \in 1..255
    /\ WildIds \subseteq (0..255) \ (1..TotalMinor)

ASSUME FlagAssumption ==
    {FrameEnclose, InsertDummy, StoreData, BlocksFail, DiskFails} \subseteq BOOLEAN

ASSUME BusAssumption ==
    /\ Schedule \in Seq([rt : Nat, sub : Nat, wc : Nat])
    /\ Len(Schedule) > 0
    /\ MaxCycle \in Nat
    /\ MaxSession \in Nat

VARIABLES
    status,          \* -1 after the constructor or a failed fopen, else 0
    error_status,    \* 1 when the last closed frame held a wild minor id
    data_rdy,        \* 1 once a major frame was posted
    prev_msg_index,  \* index of the last message stored, -1 at first
    minor_count,     \* slots of the current major frame used so far
    msg_sts,         \* bits set in the message status byte
    minor_buf, major_buf, global_buf,
    file,            \* the frames fwritten to the stream this Init opened
    registered,      \* is the object below config_count, hence fed?
    alive,           \* has the process not run its static destructors yet?
    session,         \* sessions begun so far
    cycle, pos,      \* the bus: current cycle, next entry of Schedule
    sync             \* history variable, see Put_Major_Data

ctl  == <<prev_msg_index, msg_sts, minor_buf>>
maj  == <<minor_count, error_status, data_rdy, major_buf, global_buf, sync>>
bus  == <<cycle, pos>>
life == <<registered, alive, session>>
vars == <<status, file, ctl, maj, bus, life>>

-----------------------------------------------------------------------------
(* Buffers.  A frame is what lies between two memsets of minor_buf: the    *)
(* data of each message, the status byte among the dummy characters, and   *)
(* whether the start and end characters were put around it.                *)

Indices == 0 .. Len(Layout) - 1
Slots   == 1 .. TotalMinor
Cells   == [cyc : Nat, id : 0..255]
Frames  == [data : [Indices -> Cells], sts : SUBSET Indices, framed : BOOLEAN]

EmptyCell  == [cyc |-> 0, id |-> 0]
EmptyFrame == [data |-> [i \in Indices |-> EmptyCell], sts |-> {}, framed |-> FALSE]
EmptyMajor == [k \in Slots |-> EmptyFrame]

Present(f) == {i \in Indices : f.data[i].cyc # 0}

(* Minor frame number carried by bus cycle c. *)
MinorOf(c) == ((c - 1) % TotalMinor) + 1

(* What message i of the current bus cycle can contain. *)
BusCells(i) ==
    IF i = MinIdMsg
    THEN {[cyc |-> cycle, id |-> x] : x \in {MinorOf(cycle)} \cup WildIds}
    ELSE {[cyc |-> cycle, id |-> 0]}

(* The word count of a command word has 5 bits, 32 words are coded 0, and  *)
(* the code compares it with word_count as it stands.                      *)
Matches(cmd, i) ==
    /\ cmd.rt = RTNo
    /\ cmd.sub = Layout[i + 1].sub
    /\ cmd.wc % 32 = Layout[i + 1].wc

Get_Msg_Index(cmd, i) ==
    /\ Matches(cmd, i)
    /\ \A j \in Indices : j < i => ~Matches(cmd, j)

-----------------------------------------------------------------------------
(* The byte at minid_pos, and whether it can be a minor frame number. *)
FrameId(f) == f.data[MinIdMsg].id
WildId(f)  == FrameId(f) \notin 1..TotalMinor

(* The frame as Write_Minor_Data leaves it.                                *)
Framing(f) == [f EXCEPT !.framed = @ \/ (status # -1 /\ FrameEnclose)]

WriteUnlessWild ==
    file' = IF status # -1 /\ StoreData /\ ~WildId(minor_buf)
            THEN Append(file, Framing(minor_buf))
            ELSE file

(* Write_Minor_Data: nothing at all when status is -1; a failed fwrite is  *)
(* reported to a caller that ignores it.                                   *)
Write_Minor_Data ==
    \E wrote \in {TRUE} \cup (IF DiskFails THEN {FALSE} ELSE {}) :
        file' = IF status # -1 /\ StoreData /\ wrote
                THEN Append(file, Framing(minor_buf))
                ELSE file

(* The slot a closed frame goes to: the minor id it carries, if it can be  *)
(* one, else the next in the locally kept 8 bit count.                     *)
MinorSlot(f) ==
    IF TotalMinor > 1 /\ ~WildId(f) THEN FrameId(f) ELSE (minor_count + 1) % 256

(* A full major frame is posted and the next one begun. *)
PostWithoutClear(filled) ==
    /\ global_buf' = filled /\ data_rdy' = 1
    /\ minor_count' = 0 /\ major_buf' = filled
PostBeforeCopy(filled) ==
    /\ global_buf' = major_buf /\ data_rdy' = 1
    /\ minor_count' = 0 /\ major_buf' = EmptyMajor
Post(filled) ==
    /\ global_buf' = filled /\ data_rdy' = 1
    /\ minor_count' = 0 /\ major_buf' = EmptyMajor

(* The history variable sync counts how far the object is past its first   *)
(* good minor id: 1 once it saw one, 2 once a major frame was posted since *)
(* (the next one is built in step with the bus from its first slot), 3     *)
(* once such a major frame was posted.                                     *)
Put_Major_Data(f) ==
    LET slot   == MinorSlot(f)
        filled == [major_buf EXCEPT ![slot] = f]
        good   == IF sync = 0 /\ (TotalMinor = 1 \/ ~WildId(f)) THEN 1 ELSE sync
    IN  /\ error_status' = IF TotalMinor = 1 THEN error_status
                           ELSE IF WildId(f) THEN 1 ELSE 0
        /\ \/ /\ slot = TotalMinor
              /\ Post(filled)
              /\ sync' = IF good \in {1, 2} THEN good + 1 ELSE good
           \/ /\ slot # TotalMinor
              /\ minor_count' = slot /\ major_buf' = filled
              /\ sync' = good
              /\ UNCHANGED <<global_buf, data_rdy>>

(* The message index went back: one minor cycle is over. *)
Boundary(i) == i <= prev_msg_index /\ prev_msg_index # -1


(* The tail of Put_Minor_Data: store message i in frame f, whose status    *)
(* mask is s.                                                              *)
Store(f, s, i, cell) ==
    /\ minor_buf' = [f EXCEPT !.data[i] = cell,
                              !.sts = IF InsertDummy THEN s \cup {i} ELSE @]
    /\ msg_sts' = s \cup {i}
    /\ prev_msg_index' = i

PutMinorWithoutClear(i, cell) ==
    \/ /\ Boundary(i)
       /\ Write_Minor_Data
       /\ Put_Major_Data(Framing(minor_buf))
       /\ Store(minor_buf, {}, i, cell)
    \/ /\ ~Boundary(i)
       /\ Store(minor_buf, msg_sts, i, cell)
       /\ UNCHANGED <<file, maj>>
PutMinorKeepingMask(i, cell) ==
    \/ /\ Boundary(i)
       /\ Write_Minor_Data
       /\ Put_Major_Data(Framing(minor_buf))
       /\ Store(EmptyFrame, msg_sts, i, cell)
    \/ /\ ~Boundary(i)
       /\ Store(minor_buf, msg_sts, i, cell)
       /\ UNCHANGED <<file, maj>>
Put_Minor_Data(i, cell) ==
    \/ /\ Boundary(i)
       /\ Write_Minor_Data
       /\ Put_Major_Data(Framing(minor_buf))
       /\ Store(EmptyFrame, {}, i, cell)
    \/ /\ ~Boundary(i)
       /\ Store(minor_buf, msg_sts, i, cell)
       /\ UNCHANGED <<file, maj>>

Proc_Msg(cmd) ==
    \/ /\ \A i \in Indices : ~Matches(cmd, i)
       /\ UNCHANGED <<file, ctl, maj>>
    \/ \E i \in Indices :
         /\ Get_Msg_Index(cmd, i)
         /\ \E cell \in BusCells(i) : Put_Minor_Data(i, cell)

-----------------------------------------------------------------------------
(* The life of the object in the server.                                   *)

(* Package::Init, called by CONFIG_MSG for the object at config_count, so  *)
(* never for an object that is being fed.  data_rdy and error_status keep  *)
(* the value the last session left in them.  fp is set to NULL and then to *)
(* a new stream without an fclose, so that what was fwritten to the stream *)
(* of an earlier Init is out of reach from here on; file follows the new   *)
(* one.  Where the blocks of two streams open on one name end up in that   *)
(* file is left to the operating system and not modelled.                  *)
Configure(opened) ==
    /\ alive /\ ~registered /\ session < MaxSession
    /\ status' = IF StoreData /\ ~opened THEN -1 ELSE 0
    /\ minor_count' = 0
    /\ prev_msg_index' = -1
    /\ msg_sts' = {}
    /\ minor_buf' = EmptyFrame
    /\ major_buf' = EmptyMajor
    /\ global_buf' = EmptyMajor
    /\ file' = <<>>
    /\ registered' = TRUE
    /\ session' = session + 1
    /\ sync' = 0
    /\ UNCHANGED <<error_status, data_rdy, alive, bus>>

(* STOP_MSG: config_count = 0. *)
Stop ==
    /\ alive /\ registered
    /\ registered' = FALSE
    /\ UNCHANGED <<status, file, ctl, maj, bus, alive, session>>

(* exit() runs the destructor of the global configuration[] objects: the   *)
(* frame under construction is written and the buffers are deleted.        *)
Exit ==
    /\ alive
    /\ alive' = FALSE
    /\ Write_Minor_Data
    /\ UNCHANGED <<status, ctl, maj, bus, registered, session>>

(* The bus moves on to its next command word. *)
Advance ==
    /\ alive /\ cycle <= MaxCycle
    /\ pos' = IF pos = Len(Schedule) THEN 1 ELSE pos + 1
    /\ cycle' = IF pos = Len(Schedule) THEN cycle + 1 ELSE cycle

(* The message passes data_check and reaches Proc_Msg. *)
Deliver ==
    /\ registered
    /\ Advance
    /\ Proc_Msg(Schedule[pos])
    /\ UNCHANGED <<status, life>>

(* The message has a bad block status word, or nobody listens. *)
Miss ==
    /\ ~registered \/ BlocksFail
    /\ Advance
    /\ UNCHANGED <<status, file, ctl, maj, life>>

Init ==
    /\ status = -1
    /\ error_status = 0 /\ data_rdy = 0
    /\ prev_msg_index = 0 /\ minor_count = 0 /\ msg_sts = {}
    /\ minor_buf = EmptyFrame
    /\ major_buf = EmptyMajor
    /\ global_buf = EmptyMajor
    /\ file = <<>>
    /\ registered = FALSE /\ alive = TRUE /\ session = 0
    /\ cycle = 1 /\ pos = 1
    /\ sync = 0

Next ==
    \/ \E opened \in BOOLEAN : Configure(opened)
    \/ Stop
    \/ Exit
    \/ Deliver
    \/ Miss

Spec == Init /\ [][Next]_vars

-----------------------------------------------------------------------------
(* Properties.  Frames of every place a frame can be in: *)
Built == {minor_buf} \cup {major_buf[k] : k \in Slots}
            \cup {global_buf[k] : k \in Slots} \cup {file[n] : n \in DOMAIN file}

Complete(f) == Present(f) = Indices

(* f is older than g: every word of f was sent in an earlier cycle. *)
Older(f, g) ==
    \A i \in Present(f), j \in Present(g) : f.data[i].cyc < g.data[j].cyc

(* All the words of f were sent in bus cycle c. *)
SentIn(f, c) == \A i \in Present(f) : f.data[i].cyc = c

TypeOK ==
    /\ status \in {-1, 0}
    /\ error_status \in {0, 1} /\ data_rdy \in {0, 1}
    /\ prev_msg_index \in Indices \cup {-1}
    /\ minor_count \in 0..255
    /\ msg_sts \in SUBSET Indices
    /\ minor_buf \in Frames
    /\ major_buf \in [Slots -> Frames]
    /\ global_buf \in [Slots -> Frames]
    /\ file \in Seq(Frames)
    /\ registered \in BOOLEAN /\ alive \in BOOLEAN /\ session \in Nat
    /\ cycle \in Nat \ {0} /\ pos \in 1..Len(Schedule)
    /\ sync \in 0..3

(* Whatever the minor id bytes say, the frame being built always has a     *)
(* slot of its own in major_buf: the memcpy of Put_Major_Data to           *)
(* major_buf_ptr + minor_buffsize * (minor_count - 1) stays in the buffer. *)
SlotInBounds == minor_count \in 0 .. TotalMinor - 1

(* The status byte among the dummy characters names exactly the messages   *)
(* present in the frame, in every frame ever built, wherever it went.      *)
MaskMatchesData == InsertDummy => \A f \in Built : f.sts = Present(f)

(* Words lie in a frame in the order they were sent, even when messages    *)
(* are lost and a frame mixes two cycles.                                  *)
FrameInArrivalOrder ==
    \A f \in Built : \A i, j \in Present(f) :
        i < j => f.data[i].cyc <= f.data[j].cyc

(* A frame with a good minor id is only ever found in the slot of that id, *)
(* in the major frame under construction and in the posted one.            *)
SlotHoldsItsMinor ==
    TotalMinor > 1 =>
        \A buf \in {major_buf, global_buf} : \A k \in Slots :
            FrameId(buf[k]) \in Slots => FrameId(buf[k]) = k

(* What a session writes for the package is in bus order, without a word   *)
(* twice: every frame is older than the next, the last older than the      *)
(* frame under construction.  Holds under loss and under failing writes.   *)
FileInOrder ==
    /\ \A n \in 1 .. Len(file) - 1 : Older(file[n], file[n + 1])
    /\ alive /\ file # <<>> => Older(file[Len(file)], minor_buf)

(* Within a session a newly posted major frame has nothing in common with  *)
(* the one it replaces: all of it was sent later.                          *)
PostsMoveForward ==
    [][global_buf' # global_buf /\ session' = session =>
         \A k, l \in Slots : Older(global_buf[k], global_buf'[l])]_vars

(* Without loss a minor frame never mixes two bus cycles. *)
NoTornFrame == \A f \in Built : \E c \in 0..cycle : SentIn(f, c)

(* Without loss, a major frame built in step with the bus is posted whole: *)
(* slot k holds all the messages of minor k of one and the same pass.      *)
PostedMajorExact ==
    sync = 3 =>
        \E c \in 1..cycle : \A k \in Slots :
            /\ Complete(global_buf[k])
            /\ SentIn(global_buf[k], c + k)
            /\ MinorOf(c + k) = k

(* Without loss and without write errors what a session writes is the bus, *)
(* frame by frame: consecutive cycles, only the first frame and the one    *)
(* the destructor adds may be partial.                                     *)
FileIsTheBus ==
    /\ \A n \in 1 .. Len(file) : \E c \in 1..cycle :
          /\ SentIn(file[n], c)
          /\ n < Len(file) => SentIn(file[n + 1], c + 1)
          /\ n = Len(file) /\ alive => SentIn(minor_buf, c + 1)
    /\ \A n \in 2 .. Len(file) : n < Len(file) \/ alive => Complete(file[n])
=============================================================================
