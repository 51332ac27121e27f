--------------------------- MODULE PackageProofs ---------------------------
(* What holds of an acquisition object for every package layout, every     *)
(* schedule of the bus, every number of minor cycles and every pattern of  *)
(* lost messages, wild minor ids, failed opens and failed writes.          *)
EXTENDS Package, TLAPS

USE DEF Indices, Slots

LEMMA ConstantsType ==
    /\ Len(Layout) \in 1..3
    /\ MinIdMsg \in Indices
    /\ TotalMinor \in 1..255
    /\ WildIds \subseteq (0..255) \ (1..TotalMinor)
    /\ Len(Schedule) \in Nat \ {0}
  BY LayoutAssumption, MajorAssumption, BusAssumption

(* The buffers cleared by memset are frames. *)
LEMMA EmptyType ==
    /\ EmptyFrame \in Frames
    /\ EmptyMajor \in [Slots -> Frames]
    /\ Present(EmptyFrame) = {}
  BY DEF EmptyFrame, EmptyMajor, EmptyCell, Frames, Cells, Present

(* What can arrive in a message is a cell of the current cycle, and it is  *)
(* never mistaken for a cleared word.                                      *)
LEMMA BusCellType ==
    ASSUME cycle \in Nat \ {0}, NEW i \in Indices, NEW cell \in BusCells(i)
    PROVE  cell \in Cells /\ cell.cyc = cycle
<1>1. MinorOf(cycle) \in 0..255
  BY ConstantsType DEF MinorOf
<1>2. {MinorOf(cycle)} \cup WildIds \subseteq 0..255
  BY <1>1, ConstantsType
<1>3. PICK x \in 0..255 : cell = [cyc |-> cycle, id |-> x]
  <2>1. CASE i = MinIdMsg
    <3>1. cell \in {[cyc |-> cycle, id |-> x] : x \in {MinorOf(cycle)} \cup WildIds}
      BY <2>1 DEF BusCells
    <3> QED
      BY <1>2, <3>1
  <2>2. CASE i # MinIdMsg
    BY <2>2 DEF BusCells
  <2> QED
    BY <2>1, <2>2
<1> QED
  BY <1>3 DEF Cells

(* Framing only touches the bytes around the data. *)
LEMMA FramingType ==
    ASSUME NEW f \in Frames
    PROVE  /\ Framing(f) \in Frames
           /\ Framing(f).data = f.data
           /\ Framing(f).sts = f.sts
  BY FlagAssumption DEF Framing, Frames

(* A stored message is the only change to the frame. *)
LEMMA StoreType ==
    ASSUME NEW f \in Frames, NEW s \in SUBSET Indices, NEW i \in Indices,
           NEW cell \in Cells, Store(f, s, i, cell)
    PROVE  /\ minor_buf' \in Frames
           /\ minor_buf'.data = [f.data EXCEPT ![i] = cell]
           /\ minor_buf'.sts = IF InsertDummy THEN s \cup {i} ELSE f.sts
           /\ msg_sts' = s \cup {i}
           /\ prev_msg_index' = i
  BY DEF Store, Frames

(* Put_Major_Data keeps minor_count below TotalMinor, and the slot it      *)
(* fills exists.                                                           *)
LEMMA PutMajorType ==
    ASSUME TypeOK, SlotInBounds, NEW f \in Frames, Put_Major_Data(f)
    PROVE  /\ minor_count' \in 0 .. TotalMinor - 1
           /\ error_status' \in {0, 1} /\ data_rdy' \in {0, 1}
           /\ major_buf' \in [Slots -> Frames]
           /\ global_buf' \in [Slots -> Frames]
           /\ sync' \in 0..3
<1> DEFINE slot   == MinorSlot(f)
           filled == [major_buf EXCEPT ![slot] = f]
<1>1. slot \in Slots
  BY ConstantsType DEF SlotInBounds, MinorSlot, WildId
<1>2. filled \in [Slots -> Frames]
  BY <1>1 DEF TypeOK
<1>3. error_status' \in {0, 1} /\ sync' \in 0..3
  BY DEF Put_Major_Data, TypeOK
<1> HIDE DEF slot, filled
<1>4. \/ Post(filled)
      \/ slot # TotalMinor /\ minor_count' = slot /\ major_buf' = filled
         /\ UNCHANGED <<global_buf, data_rdy>>
  BY DEF Put_Major_Data, slot, filled
<1> QED
  BY <1>1, <1>2, <1>3, <1>4, EmptyType, ConstantsType DEF Post, TypeOK

-----------------------------------------------------------------------------
(* The inductive invariant.  A frame is in order when its status byte      *)
(* names its messages and its words lie in the order they were sent.  To   *)
(* keep the frame under construction in order when the next message is     *)
(* stored one must know that the messages it holds have smaller indices,   *)
(* bounded by prev_msg_index, and were sent no later than now; to keep the *)
(* status byte exact, that msg_sts itself is exact.                        *)
FrameOK(f) ==
    /\ InsertDummy => f.sts = Present(f)
    /\ \A i, j \in Present(f) : i < j => f.data[i].cyc <= f.data[j].cyc

MinorOK ==
    /\ msg_sts = Present(minor_buf)
    /\ \A i \in Present(minor_buf) :
          i <= prev_msg_index /\ minor_buf.data[i].cyc <= cycle

FramesOK ==
    /\ FrameOK(minor_buf)
    /\ \A k \in Slots : FrameOK(major_buf[k]) /\ FrameOK(global_buf[k])
    /\ \A n \in 1 .. Len(file) : FrameOK(file[n])

SlotsOK ==
    TotalMinor > 1 =>
        \A k \in Slots : /\ FrameId(major_buf[k]) \in Slots => FrameId(major_buf[k]) = k
                         /\ FrameId(global_buf[k]) \in Slots => FrameId(global_buf[k]) = k

IInv == TypeOK /\ SlotInBounds /\ MinorOK /\ FramesOK /\ SlotsOK

(* Framing a frame keeps it in order, a cleared frame is in order. *)
LEMMA FramingOK ==
    ASSUME NEW f \in Frames, FrameOK(f)
    PROVE  FrameOK(Framing(f)) /\ FrameId(Framing(f)) = FrameId(f)
  BY FramingType DEF FrameOK, Present, FrameId

LEMMA EmptyOK ==
    /\ FrameOK(EmptyFrame)
    /\ \A k \in Slots : EmptyMajor[k] = EmptyFrame
    /\ FrameId(EmptyFrame) \notin Slots
  BY ConstantsType DEF FrameOK, EmptyFrame, EmptyMajor, EmptyCell, Present, FrameId

(* Storing a message younger than, and placed after, all those present.    *)
LEMMA StoreOK ==
    ASSUME NEW f \in Frames, FrameOK(f), NEW i \in Indices, NEW cell \in Cells,
           cell.cyc # 0, Store(f, Present(f), i, cell),
           \A j \in Present(f) : j < i /\ f.data[j].cyc <= cell.cyc
    PROVE  /\ FrameOK(minor_buf')
           /\ msg_sts' = Present(minor_buf')
           /\ \A j \in Present(minor_buf') :
                 j <= prev_msg_index' /\ minor_buf'.data[j].cyc <= cell.cyc
<1>1. Present(f) \in SUBSET Indices
  BY DEF Present
<1>2. /\ minor_buf'.data = [f.data EXCEPT ![i] = cell]
      /\ minor_buf'.sts = IF InsertDummy THEN Present(f) \cup {i} ELSE f.sts
      /\ msg_sts' = Present(f) \cup {i}
      /\ prev_msg_index' = i
  BY <1>1 DEF Store, Frames
<1>3. DOMAIN f.data = Indices
  BY DEF Frames
<1>4. \A j \in Indices : minor_buf'.data[j] = IF j = i THEN cell ELSE f.data[j]
  BY <1>2, <1>3
<1>5. Present(minor_buf') = Present(f) \cup {i}
  BY <1>4 DEF Present
<1>6. \A j \in Present(f) : f.data[j].cyc \in Nat
  BY DEF Present, Frames, Cells
<1>7. cell.cyc \in Nat
  BY DEF Cells
<1>8. \A j, k \in Present(minor_buf') :
         j < k => minor_buf'.data[j].cyc <= minor_buf'.data[k].cyc
  BY <1>1, <1>4, <1>5, <1>6, <1>7 DEF FrameOK
<1> QED
  BY <1>1, <1>2, <1>4, <1>5, <1>6, <1>7, <1>8 DEF FrameOK

(* Closing a minor frame: it goes to the slot of its id, or to the next    *)
(* slot when its id is wild, and a finished major frame is posted whole.   *)
LEMMA PutMajorOK ==
    ASSUME TypeOK, SlotInBounds, SlotsOK, NEW f \in Frames, FrameOK(f),
           \A k \in Slots : FrameOK(major_buf[k]) /\ FrameOK(global_buf[k]),
           Put_Major_Data(f)
    PROVE  /\ \A k \in Slots : FrameOK(major_buf'[k]) /\ FrameOK(global_buf'[k])
           /\ SlotsOK'
<1> DEFINE slot   == MinorSlot(f)
           filled == [major_buf EXCEPT ![slot] = f]
<1>1. /\ major_buf' = IF slot = TotalMinor THEN EmptyMajor ELSE filled
      /\ global_buf' = IF slot = TotalMinor THEN filled ELSE global_buf
  BY DEF Put_Major_Data, Post
<1>2. slot \in Slots
  BY ConstantsType DEF SlotInBounds, MinorSlot, WildId
<1>3. \A k \in Slots : filled[k] = IF k = slot THEN f ELSE major_buf[k]
  BY <1>2 DEF TypeOK
<1>4. TotalMinor > 1 => (FrameId(f) \in Slots => FrameId(f) = slot)
  BY DEF MinorSlot, WildId
<1> HIDE DEF filled, slot
<1>5. \A k \in Slots : FrameOK(filled[k])
  BY <1>3
<1>6. TotalMinor > 1 =>
        \A k \in Slots : FrameId(filled[k]) \in Slots => FrameId(filled[k]) = k
  BY <1>3, <1>4 DEF SlotsOK
<1>7. \A k \in Slots : FrameOK(major_buf'[k]) /\ FrameOK(global_buf'[k])
  BY <1>1, <1>5, EmptyOK
<1>8. TotalMinor > 1 =>
        \A k \in Slots :
          /\ FrameId(major_buf'[k]) \in Slots => FrameId(major_buf'[k]) = k
          /\ FrameId(global_buf'[k]) \in Slots => FrameId(global_buf'[k]) = k
  BY <1>1, <1>6, EmptyOK DEF SlotsOK
<1> QED
  BY <1>7, <1>8 DEF SlotsOK, FrameId

(* The file only ever gains the frame under construction, framed.          *)
LEMMA WriteOK ==
    ASSUME TypeOK, FramesOK, Write_Minor_Data
    PROVE  /\ file' \in Seq(Frames)
           /\ \A n \in 1 .. Len(file') : FrameOK(file'[n])
<1>1. Framing(minor_buf) \in Frames /\ FrameOK(Framing(minor_buf))
  BY FramingType, FramingOK DEF TypeOK, FramesOK
<1>2. file \in Seq(Frames) /\ \A n \in 1 .. Len(file) : FrameOK(file[n])
  BY DEF TypeOK, FramesOK
<1>3. file' = file \/ file' = Append(file, Framing(minor_buf))
  BY DEF Write_Minor_Data
<1>4. CASE file' = file
  BY <1>2, <1>4
<1>5. CASE file' = Append(file, Framing(minor_buf))
  <2>1. /\ file' \in Seq(Frames) /\ Len(file') = Len(file) + 1
        /\ \A n \in 1 .. Len(file) : file'[n] = file[n]
        /\ file'[Len(file) + 1] = Framing(minor_buf)
    BY <1>1, <1>2, <1>5
  <2> QED
    BY <1>1, <1>2, <2>1
<1> QED
  BY <1>3, <1>4, <1>5

(* A message of the package, at the boundary of a minor cycle or inside.   *)
LEMMA PutMinorOK ==
    ASSUME IInv, NEW i \in Indices, NEW cell \in Cells, cell.cyc = cycle,
           Put_Minor_Data(i, cell)
    PROVE  /\ prev_msg_index' \in Indices /\ msg_sts' \in SUBSET Indices
           /\ minor_count' \in 0 .. TotalMinor - 1
           /\ error_status' \in {0, 1} /\ data_rdy' \in {0, 1} /\ sync' \in 0..3
           /\ minor_buf' \in Frames
           /\ major_buf' \in [Slots -> Frames]
           /\ global_buf' \in [Slots -> Frames]
           /\ file' \in Seq(Frames)
           /\ msg_sts' = Present(minor_buf')
           /\ \A j \in Present(minor_buf') :
                 j <= prev_msg_index' /\ minor_buf'.data[j].cyc <= cycle
           /\ FramesOK'
           /\ SlotsOK'
<1>0. /\ TypeOK /\ SlotInBounds /\ MinorOK /\ FramesOK /\ SlotsOK
      /\ cell.cyc # 0 /\ minor_buf \in Frames /\ FrameOK(minor_buf)
      /\ EmptyFrame \in Frames /\ FrameOK(EmptyFrame) /\ Present(EmptyFrame) = {}
      /\ Present(minor_buf) \in SUBSET Indices
  BY EmptyType, EmptyOK DEF IInv, TypeOK, FramesOK, Present
<1>1. CASE Boundary(i)
  <2>1. /\ Write_Minor_Data
        /\ Put_Major_Data(Framing(minor_buf))
        /\ Store(EmptyFrame, {}, i, cell)
    BY <1>1 DEF Put_Minor_Data
  <2>2. Framing(minor_buf) \in Frames /\ FrameOK(Framing(minor_buf))
    BY <1>0, FramingType, FramingOK
  <2>3. /\ file' \in Seq(Frames)
        /\ \A n \in 1 .. Len(file') : FrameOK(file'[n])
    BY <1>0, <2>1, WriteOK
  <2>4. /\ minor_count' \in 0 .. TotalMinor - 1
        /\ error_status' \in {0, 1} /\ data_rdy' \in {0, 1} /\ sync' \in 0..3
        /\ major_buf' \in [Slots -> Frames]
        /\ global_buf' \in [Slots -> Frames]
    BY <1>0, <2>1, <2>2, PutMajorType
  <2>5. /\ \A k \in Slots : FrameOK(major_buf'[k]) /\ FrameOK(global_buf'[k])
        /\ SlotsOK'
    BY <1>0, <2>1, <2>2, PutMajorOK DEF FramesOK
  <2>6. /\ minor_buf' \in Frames /\ prev_msg_index' = i /\ msg_sts' = {} \cup {i}
    BY <1>0, <2>1, StoreType
  <2>7. Store(EmptyFrame, Present(EmptyFrame), i, cell)
    BY <1>0, <2>1
  <2>8. /\ FrameOK(minor_buf')
        /\ msg_sts' = Present(minor_buf')
        /\ \A j \in Present(minor_buf') :
              j <= prev_msg_index' /\ minor_buf'.data[j].cyc <= cell.cyc
    BY <1>0, <2>7, StoreOK
  <2> QED
    BY <2>3, <2>4, <2>5, <2>6, <2>8 DEF FramesOK
<1>2. CASE ~Boundary(i)
  <2>1. /\ Store(minor_buf, msg_sts, i, cell)
        /\ UNCHANGED <<file, maj>>
    BY <1>2 DEF Put_Minor_Data
  <2>2. \A j \in Present(minor_buf) : j < i /\ minor_buf.data[j].cyc <= cell.cyc
    <3> SUFFICES ASSUME NEW j \in Present(minor_buf)
                 PROVE  j < i /\ minor_buf.data[j].cyc <= cell.cyc
      OBVIOUS
    <3>1. j \in 0 .. Len(Layout) - 1 /\ j <= prev_msg_index
      BY <1>0 DEF MinorOK
    <3>2. prev_msg_index \in Int /\ prev_msg_index # -1
      BY <1>0, <3>1, ConstantsType DEF TypeOK
    <3>3. i > prev_msg_index
      BY <1>2, <3>2, ConstantsType DEF Boundary
    <3>4. minor_buf.data[j].cyc <= cell.cyc
      BY <1>0 DEF MinorOK
    <3> QED
      BY <3>1, <3>2, <3>3, <3>4, ConstantsType
  <2>3. Store(minor_buf, Present(minor_buf), i, cell)
    BY <1>0, <2>1 DEF MinorOK
  <2>4. /\ minor_buf' \in Frames /\ prev_msg_index' = i
        /\ msg_sts' = Present(minor_buf) \cup {i}
    BY <1>0, <2>3, StoreType
  <2>5. /\ FrameOK(minor_buf')
        /\ msg_sts' = Present(minor_buf')
        /\ \A j \in Present(minor_buf') :
              j <= prev_msg_index' /\ minor_buf'.data[j].cyc <= cell.cyc
    BY <1>0, <2>2, <2>3, StoreOK
  <2>6. FramesOK' /\ SlotsOK'
    BY <1>0, <2>1, <2>5 DEF FramesOK, SlotsOK, maj, FrameId
  <2> QED
    BY <1>0, <2>1, <2>4, <2>5, <2>6 DEF TypeOK, SlotInBounds, maj
<1> QED
  BY <1>1, <1>2

-----------------------------------------------------------------------------
LEMMA InitInv == Init => IInv
<1> SUFFICES ASSUME Init PROVE IInv
  OBVIOUS
<1>1. TypeOK
  <2>1. file \in Seq(Frames)
    BY DEF Init
  <2>2. prev_msg_index \in Indices /\ minor_count \in 0..255 /\ pos \in 1 .. Len(Schedule)
    BY ConstantsType DEF Init
  <2>3. /\ minor_buf \in Frames /\ msg_sts \in SUBSET Indices
        /\ major_buf \in [Slots -> Frames] /\ global_buf \in [Slots -> Frames]
    BY EmptyType DEF Init
  <2>4. registered \in BOOLEAN /\ alive \in BOOLEAN
    BY Zenon DEF Init
  <2>5. /\ status \in {-1, 0} /\ error_status \in {0, 1} /\ data_rdy \in {0, 1}
        /\ session \in Nat /\ cycle \in Nat \ {0} /\ sync \in 0..3
    BY DEF Init
  <2> QED
    BY <2>1, <2>2, <2>3, <2>4, <2>5 DEF TypeOK
<1>2. MinorOK
  BY EmptyType DEF Init, MinorOK
<1>3. FramesOK
  BY EmptyOK DEF Init, FramesOK
<1>4. SlotsOK
  BY EmptyOK, ConstantsType DEF Init, SlotsOK
<1> QED
  BY <1>1, <1>2, <1>3, <1>4, ConstantsType DEF IInv, SlotInBounds, Init

(* The bus only moves forward. *)
LEMMA AdvanceType ==
    ASSUME TypeOK, Advance
    PROVE  cycle' \in Nat \ {0} /\ pos' \in 1 .. Len(Schedule) /\ cycle <= cycle'
  BY ConstantsType DEF TypeOK, Advance

LEMMA NextInv == IInv /\ [Next]_vars => IInv'
<1> SUFFICES ASSUME IInv, [Next]_vars PROVE IInv'
  OBVIOUS
<1> USE DEF IInv
<1>1. ASSUME NEW opened \in BOOLEAN, Configure(opened) PROVE IInv'
  <2>1. TypeOK'
    BY <1>1, EmptyType, ConstantsType DEF Configure, TypeOK, bus
  <2>2. MinorOK'
    BY <1>1, EmptyType DEF Configure, MinorOK
  <2>3. FramesOK'
    BY <1>1, EmptyOK DEF Configure, FramesOK
  <2>4. SlotsOK'
    BY <1>1, EmptyOK DEF Configure, SlotsOK, FrameId
  <2> QED
    BY <1>1, <2>1, <2>2, <2>3, <2>4, ConstantsType DEF Configure, SlotInBounds
<1>2. CASE Stop
  <2>1. TypeOK'
    BY <1>2 DEF Stop, TypeOK, ctl, maj, bus
  <2> QED
    BY <1>2, <2>1 DEF Stop, SlotInBounds, MinorOK, FramesOK, SlotsOK, FrameId,
                      FrameOK, Present, ctl, maj, bus
<1>3. CASE Exit
  <2>1. /\ file' \in Seq(Frames)
        /\ \A n \in 1 .. Len(file') : FrameOK(file'[n])
    BY <1>3, WriteOK DEF Exit
  <2>2. TypeOK'
    BY <1>3, <2>1 DEF Exit, TypeOK, ctl, maj, bus
  <2>3. FramesOK'
    BY <1>3, <2>1 DEF Exit, FramesOK, ctl, maj
  <2> QED
    BY <1>3, <2>2, <2>3 DEF Exit, SlotInBounds, MinorOK, SlotsOK, FrameId,
                            Present, ctl, maj, bus
<1>4. CASE Deliver
  <2>1. cycle' \in Nat \ {0} /\ pos' \in 1 .. Len(Schedule) /\ cycle <= cycle'
    BY <1>4, AdvanceType DEF Deliver
  <2>2. CASE UNCHANGED <<file, ctl, maj>>
    <3>1. TypeOK'
      BY <1>4, <2>1, <2>2 DEF Deliver, TypeOK, ctl, maj, life
    <3>2. \A i \in Present(minor_buf) : minor_buf.data[i].cyc \in Nat
      BY DEF TypeOK, Frames, Cells, Present
    <3>3. MinorOK'
      BY <2>1, <2>2, <3>2 DEF MinorOK, Present, ctl, TypeOK
    <3>4. FramesOK' /\ SlotsOK' /\ SlotInBounds'
      BY <2>2 DEF FramesOK, SlotsOK, SlotInBounds, FrameId, ctl, maj
    <3> QED
      BY <3>1, <3>3, <3>4
  <2>3. ASSUME NEW i \in Indices, NEW cell \in BusCells(i), Put_Minor_Data(i, cell)
        PROVE  IInv'
    <3>1. cell \in Cells /\ cell.cyc = cycle
      BY BusCellType DEF TypeOK
    <3>2. /\ prev_msg_index' \in Indices /\ msg_sts' \in SUBSET Indices
          /\ minor_count' \in 0 .. TotalMinor - 1
          /\ error_status' \in {0, 1} /\ data_rdy' \in {0, 1} /\ sync' \in 0..3
          /\ minor_buf' \in Frames
          /\ major_buf' \in [Slots -> Frames]
          /\ global_buf' \in [Slots -> Frames]
          /\ file' \in Seq(Frames)
          /\ msg_sts' = Present(minor_buf')
          /\ \A j \in Present(minor_buf') :
                j <= prev_msg_index' /\ minor_buf'.data[j].cyc <= cycle
          /\ FramesOK'
          /\ SlotsOK'
      BY <2>3, <3>1, PutMinorOK
    <3>3. TypeOK'
      <4>0. minor_count' \in 0 .. TotalMinor - 1
        BY <3>2
      <4>1. minor_count' \in 0..255
        BY <4>0, MajorAssumption
      <4>2. /\ status' \in {-1, 0} /\ registered' \in BOOLEAN
            /\ alive' \in BOOLEAN /\ session' \in Nat
        BY <1>4 DEF Deliver, TypeOK, life
      <4> QED
        BY <2>1, <3>2, <4>1, <4>2 DEF TypeOK
    <3>4. \A j \in Present(minor_buf') : minor_buf'.data[j].cyc \in Nat
      BY <3>2 DEF Frames, Cells, Present
    <3>5. MinorOK'
      BY <2>1, <3>2, <3>4 DEF MinorOK, TypeOK
    <3> QED
      BY <3>2, <3>3, <3>5 DEF SlotInBounds
  <2> QED
    BY <1>4, <2>2, <2>3 DEF Deliver, Proc_Msg
<1>5. CASE Miss
  <2>1. cycle' \in Nat \ {0} /\ pos' \in 1 .. Len(Schedule) /\ cycle <= cycle'
    BY <1>5, AdvanceType DEF Miss
  <2>2. TypeOK'
    BY <1>5, <2>1 DEF Miss, TypeOK, ctl, maj, life
  <2>3. \A i \in Present(minor_buf) : minor_buf.data[i].cyc \in Nat
    BY DEF TypeOK, Frames, Cells, Present
  <2>4. MinorOK'
    BY <1>5, <2>1, <2>3 DEF Miss, MinorOK, Present, ctl, TypeOK
  <2>5. FramesOK' /\ SlotsOK' /\ SlotInBounds'
    BY <1>5 DEF Miss, FramesOK, SlotsOK, SlotInBounds, FrameId, ctl, maj
  <2> QED
    BY <2>2, <2>4, <2>5
<1>6. CASE UNCHANGED vars
  <2>1. TypeOK'
    BY <1>6 DEF TypeOK, vars, ctl, maj, bus, life
  <2> QED
    BY <1>6, <2>1 DEF SlotInBounds, MinorOK, FramesOK, SlotsOK, FrameId, FrameOK,
                      Present, vars, ctl, maj, bus, life
<1> QED
  BY <1>1, <1>2, <1>3, <1>4, <1>5, <1>6 DEF Next

LEMMA Invariance == Spec => []IInv
  BY InitInv, NextInv, PTL DEF Spec

-----------------------------------------------------------------------------
(* The object's state stays in its type whatever the bus and the disk do.  *)
THEOREM TypeCorrect == Spec => []TypeOK
<1>1. IInv => TypeOK
  BY DEF IInv
<1> QED
  BY <1>1, Invariance, PTL

(* The minor frame being assembled always has a slot in the major buffer:  *)
(* Put_Major_Data never copies outside major_buf_ptr.                      *)
THEOREM SlotAlwaysInBounds == Spec => []SlotInBounds
<1>1. IInv => SlotInBounds
  BY DEF IInv
<1> QED
  BY <1>1, Invariance, PTL

(* The status byte of every frame that was ever built is exact. *)
THEOREM MaskExact == Spec => []MaskMatchesData
<1>1. IInv => MaskMatchesData
  BY DEF IInv, FramesOK, FrameOK, MaskMatchesData, Built, TypeOK
<1> QED
  BY <1>1, Invariance, PTL

(* No frame, torn or not, has its words out of the order they were sent.   *)
THEOREM ArrivalOrder == Spec => []FrameInArrivalOrder
<1>1. IInv => FrameInArrivalOrder
  BY DEF IInv, FramesOK, FrameOK, FrameInArrivalOrder, Built, TypeOK
<1> QED
  BY <1>1, Invariance, PTL

(* A frame is never found in the slot of another minor cycle than the one  *)
(* its minor id names.                                                     *)
THEOREM RightSlot == Spec => []SlotHoldsItsMinor
<1>1. IInv => SlotHoldsItsMinor
  BY DEF IInv, SlotsOK, SlotHoldsItsMinor
<1> QED
  BY <1>1, Invariance, PTL

-----------------------------------------------------------------------------
(* The age of words.  What follows needs one fact about the bus: within a  *)
(* cycle the messages of the package come in the order of pkg.Subaddress.  *)
(* Put_Minor_Data relies on it: it takes a message index that does not     *)
(* grow for the boundary of a minor cycle.                                 *)
ScheduleInOrder ==
    \A p, q \in 1 .. Len(Schedule), i, j \in Indices :
        p < q /\ Get_Msg_Index(Schedule[p], i) /\ Get_Msg_Index(Schedule[q], j) => i < j

Before(f, c) == \A i \in Present(f) : f.data[i].cyc < c

(* While the object is fed, a frame under construction holds the message   *)
(* stored last; before the first message there is no word anywhere.        *)
Held ==
    /\ registered => prev_msg_index = -1 \/ prev_msg_index \in Present(minor_buf)
    /\ prev_msg_index = -1 =>
          /\ alive => file = <<>>
          /\ minor_buf = EmptyFrame /\ major_buf = EmptyMajor /\ global_buf = EmptyMajor

(* A word of the current cycle was sent at a place of the schedule the bus *)
(* has passed.                                                             *)
InStep ==
    \A i \in Present(minor_buf) :
        minor_buf.data[i].cyc = cycle =>
            \E p \in 1 .. pos - 1, j \in Indices : i <= j /\ Get_Msg_Index(Schedule[p], j)

FileAged == \A m, n \in 1 .. Len(file) : m < n => Older(file[m], file[n])

Aged ==
    /\ FileAged
    /\ alive => \A n \in 1 .. Len(file) : Older(file[n], minor_buf)
    /\ \A k \in Slots : Older(major_buf[k], minor_buf) /\ Older(global_buf[k], minor_buf)
    /\ \A k, l \in Slots : Older(global_buf[k], major_buf[l])

Ages == Held /\ InStep /\ Aged

LEMMA CycType ==
    ASSUME NEW f \in Frames
    PROVE  /\ Present(f) \subseteq Indices
           /\ \A i \in Indices : f.data[i].cyc \in Nat
  BY DEF Present, Frames, Cells

(* Frames with the same words have the same age. *)
LEMMA SameWords ==
    ASSUME NEW f, NEW g, f.data = g.data
    PROVE  /\ Present(f) = Present(g)
           /\ \A h : Older(f, h) <=> Older(g, h)
           /\ \A h : Older(h, f) <=> Older(h, g)
           /\ \A c : Before(f, c) <=> Before(g, c)
  BY DEF Present, Older, Before

LEMMA EmptyAge ==
    /\ \A f : Older(f, EmptyFrame) /\ Older(EmptyFrame, f)
    /\ \A c : Before(EmptyFrame, c)
    /\ \A k \in Slots : EmptyMajor[k] = EmptyFrame
  BY EmptyType, EmptyOK DEF Older, Before

(* The index went back: every word of the frame is of an earlier cycle.    *)
LEMMA BoundaryAge ==
    ASSUME ScheduleInOrder, IInv, Ages, registered, NEW i \in Indices,
           Get_Msg_Index(Schedule[pos], i), Boundary(i)
    PROVE  prev_msg_index \in Present(minor_buf) /\ Before(minor_buf, cycle)
<1>1. TypeOK /\ MinorOK /\ FrameOK(minor_buf) /\ minor_buf \in Frames
  BY DEF IInv, FramesOK, TypeOK
<1>2. prev_msg_index \in Present(minor_buf)
  BY DEF Ages, Held, Boundary
<1>3. prev_msg_index \in Indices /\ i <= prev_msg_index
  BY <1>1, <1>2, CycType DEF Boundary
<1>4. minor_buf.data[prev_msg_index].cyc # cycle
  <2> SUFFICES ASSUME minor_buf.data[prev_msg_index].cyc = cycle PROVE FALSE
    OBVIOUS
  <2>1. PICK p \in 1 .. pos - 1, j \in Indices :
           prev_msg_index <= j /\ Get_Msg_Index(Schedule[p], j)
    BY <1>2 DEF Ages, InStep
  <2>2. pos \in 1 .. Len(Schedule) /\ p \in 1 .. Len(Schedule) /\ p < pos
    BY <1>1, ConstantsType DEF TypeOK
  <2>3. j < i
    BY <2>1, <2>2 DEF ScheduleInOrder
  <2> QED
    BY <1>3, <2>1, <2>3, ConstantsType
<1>5. minor_buf.data[prev_msg_index].cyc < cycle
  BY <1>1, <1>2, <1>3, <1>4, CycType DEF MinorOK, TypeOK
<1>6. ASSUME NEW j \in Present(minor_buf) PROVE minor_buf.data[j].cyc < cycle
  <2>1. j \in Indices /\ j <= prev_msg_index
    BY <1>1, CycType DEF MinorOK
  <2>2. minor_buf.data[j].cyc <= minor_buf.data[prev_msg_index].cyc
    BY <1>1, <1>2, <1>3, <2>1, CycType, ConstantsType DEF FrameOK
  <2> QED
    BY <1>1, <1>3, <1>5, <2>1, <2>2, CycType DEF TypeOK
<1> QED
  BY <1>2, <1>6 DEF Before

(* What is older than a frame that holds a word of before c is before c.   *)
LEMMA OlderBefore ==
    ASSUME NEW f \in Frames, NEW g \in Frames, NEW i \in Present(g), NEW c \in Nat,
           Older(f, g), g.data[i].cyc <= c
    PROVE  Before(f, c)
  BY CycType DEF Older, Before

(* Closing a frame keeps the order of file and buffers. *)
LEMMA WriteAge ==
    ASSUME TypeOK, Write_Minor_Data, FileAged,
           \A n \in 1 .. Len(file) : Older(file[n], minor_buf)
    PROVE  /\ FileAged'
           /\ \A c : Before(minor_buf, c) /\ (\A n \in 1 .. Len(file) : Before(file[n], c))
                => \A n \in 1 .. Len(file') : Before(file'[n], c)
<1>1. file \in Seq(Frames) /\ minor_buf \in Frames
  BY DEF TypeOK
<1>2. CASE file' = file
  BY <1>2 DEF FileAged
<1>3. CASE file' = Append(file, Framing(minor_buf))
  <2>1. /\ Len(file') = Len(file) + 1 /\ Len(file) \in Nat
        /\ \A n \in 1 .. Len(file) : file'[n] = file[n]
        /\ file'[Len(file) + 1] = Framing(minor_buf)
    BY <1>1, <1>3, FramingType
  <2>2. /\ \A h : Older(h, Framing(minor_buf)) <=> Older(h, minor_buf)
        /\ \A c : Before(Framing(minor_buf), c) <=> Before(minor_buf, c)
    BY <1>1, FramingType, SameWords
  <2>3. ASSUME NEW m \in 1 .. Len(file'), NEW n \in 1 .. Len(file'), m < n
        PROVE  Older(file'[m], file'[n])
    <3>1. m \in 1 .. Len(file)
      BY <2>1, <2>3
    <3>2. CASE n = Len(file) + 1
      BY <2>1, <2>2, <3>1, <3>2
    <3>3. CASE n \in 1 .. Len(file)
      BY <2>1, <2>3, <3>1, <3>3 DEF FileAged
    <3> QED
      BY <2>1, <3>2, <3>3
  <2>4. FileAged'
    BY <2>3 DEF FileAged
  <2>5. ASSUME NEW c, Before(minor_buf, c), \A n \in 1 .. Len(file) : Before(file[n], c),
               NEW n \in 1 .. Len(file')
        PROVE  Before(file'[n], c)
    BY <2>1, <2>2, <2>5
  <2> QED
    BY <2>4, <2>5
<1> QED
  BY <1>2, <1>3 DEF Write_Minor_Data

LEMMA PutMajorAge ==
    ASSUME TypeOK, SlotInBounds, Aged, Put_Major_Data(Framing(minor_buf))
    PROVE  /\ \A c : /\ Before(minor_buf, c)
                     /\ \A k \in Slots : Before(major_buf[k], c) /\ Before(global_buf[k], c)
                => \A k \in Slots : Before(major_buf'[k], c) /\ Before(global_buf'[k], c)
           /\ \A k, l \in Slots : Older(global_buf'[k], major_buf'[l])
           /\ global_buf' # global_buf =>
                \A k, l \in Slots : Older(global_buf[k], global_buf'[l])
<1> DEFINE f      == Framing(minor_buf)
           slot   == MinorSlot(f)
           filled == [major_buf EXCEPT ![slot] = f]
<1>1. /\ major_buf' = IF slot = TotalMinor THEN EmptyMajor ELSE filled
      /\ global_buf' = IF slot = TotalMinor THEN filled ELSE global_buf
  BY DEF Put_Major_Data, Post
<1>2. slot \in Slots
  BY ConstantsType DEF SlotInBounds, MinorSlot, WildId
<1>3. \A k \in Slots : filled[k] = IF k = slot THEN f ELSE major_buf[k]
  BY <1>2 DEF TypeOK
<1>4. /\ \A h : Older(h, f) <=> Older(h, minor_buf)
      /\ \A c : Before(f, c) <=> Before(minor_buf, c)
  BY FramingType, SameWords DEF TypeOK
<1> HIDE DEF f, slot, filled
<1>5. \A k, l \in Slots : Older(global_buf[k], filled[l])
  BY <1>3, <1>4 DEF Aged
<1>6. \A c : /\ Before(minor_buf, c)
             /\ \A k \in Slots : Before(major_buf[k], c)
          => \A k \in Slots : Before(filled[k], c)
  BY <1>3, <1>4
<1>7. CASE slot = TotalMinor
  BY <1>1, <1>5, <1>6, <1>7, EmptyAge
<1>8. CASE slot # TotalMinor
  BY <1>1, <1>5, <1>6, <1>8
<1> QED
  BY <1>7, <1>8

(* A message of the package: the frame it closes is older than the word it *)
(* brings, and so is all that was stored before.                           *)
LEMMA PutMinorAge ==
    ASSUME ScheduleInOrder, IInv, Ages, registered, alive,
           NEW i \in Indices, NEW cell \in Cells, cell.cyc = cycle,
           Get_Msg_Index(Schedule[pos], i), Put_Minor_Data(i, cell)
    PROVE  /\ prev_msg_index' = i /\ i \in Present(minor_buf')
           /\ Aged'
           /\ global_buf' # global_buf =>
                \A k, l \in Slots : Older(global_buf[k], global_buf'[l])
           /\ \A j \in Present(minor_buf') \ {i} :
                /\ j \in Present(minor_buf)
                /\ minor_buf'.data[j] = minor_buf.data[j]
<1>1. /\ TypeOK /\ SlotInBounds /\ MinorOK /\ minor_buf \in Frames
      /\ cycle \in Nat \ {0} /\ Aged /\ EmptyFrame \in Frames
      /\ Present(EmptyFrame) = {}
  BY EmptyType DEF IInv, TypeOK, Ages
<1>2. /\ minor_buf' \in Frames
      /\ major_buf' \in [Slots -> Frames] /\ global_buf' \in [Slots -> Frames]
      /\ file' \in Seq(Frames)
  BY PutMinorOK
<1>3. /\ major_buf \in [Slots -> Frames] /\ global_buf \in [Slots -> Frames]
      /\ file \in Seq(Frames)
  BY <1>1 DEF TypeOK
<1>4. CASE Boundary(i)
  <2>1. /\ Write_Minor_Data
        /\ Put_Major_Data(Framing(minor_buf))
        /\ Store(EmptyFrame, {}, i, cell)
    BY <1>4 DEF Put_Minor_Data
  <2>2. /\ minor_buf'.data = [EmptyFrame.data EXCEPT ![i] = cell]
        /\ prev_msg_index' = i
    BY <1>1, <2>1 DEF Store, Frames
  <2>3. Present(minor_buf') = {i} /\ minor_buf'.data[i] = cell
    <3>1. DOMAIN EmptyFrame.data = Indices
      BY <1>1 DEF Frames
    <3>2. \A j \in Indices : minor_buf'.data[j] = IF j = i THEN cell ELSE EmptyFrame.data[j]
      BY <2>2, <3>1
    <3> QED
      BY <1>1, <3>2 DEF Present
  <2>4. prev_msg_index \in Present(minor_buf) /\ Before(minor_buf, cycle)
    BY <1>4, BoundaryAge
  <2>5. minor_buf.data[prev_msg_index].cyc <= cycle
    BY <1>1, <2>4 DEF MinorOK
  <2>6. /\ \A n \in 1 .. Len(file) : Before(file[n], cycle)
        /\ \A k \in Slots : Before(major_buf[k], cycle) /\ Before(global_buf[k], cycle)
    <3>1. ASSUME NEW f \in Frames, Older(f, minor_buf) PROVE Before(f, cycle)
      BY <1>1, <2>4, <2>5, <3>1, OlderBefore
    <3> QED
      BY <1>1, <1>3, <3>1 DEF Aged
  <2>7. FileAged' /\ \A n \in 1 .. Len(file') : Before(file'[n], cycle)
    BY <1>1, <2>1, <2>4, <2>6, WriteAge DEF Aged
  <2>8. /\ \A k \in Slots : Before(major_buf'[k], cycle) /\ Before(global_buf'[k], cycle)
        /\ \A k, l \in Slots : Older(global_buf'[k], major_buf'[l])
        /\ global_buf' # global_buf =>
             \A k, l \in Slots : Older(global_buf[k], global_buf'[l])
    BY <1>1, <2>1, <2>4, <2>6, PutMajorAge
  <2>9. \A f : Before(f, cycle) => Older(f, minor_buf')
    BY <2>3 DEF Before, Older
  <2>10. Aged'
    BY <2>7, <2>8, <2>9 DEF Aged
  <2> QED
    BY <2>2, <2>3, <2>8, <2>10
<1>5. CASE ~Boundary(i)
  <2>1. /\ Store(minor_buf, msg_sts, i, cell)
        /\ UNCHANGED <<file, maj>>
    BY <1>5 DEF Put_Minor_Data
  <2>2. /\ minor_buf'.data = [minor_buf.data EXCEPT ![i] = cell]
        /\ prev_msg_index' = i
    BY <1>1, <2>1 DEF Store, Frames
  <2>3. \A j \in Indices : minor_buf'.data[j] = IF j = i THEN cell ELSE minor_buf.data[j]
    <3>1. DOMAIN minor_buf.data = Indices
      BY <1>1 DEF Frames
    <3> QED
      BY <2>2, <3>1
  <2>4. Present(minor_buf') = Present(minor_buf) \cup {i}
    BY <1>1, <2>3 DEF Present
  <2>5. ASSUME NEW f \in Frames, Older(f, minor_buf),
               prev_msg_index = -1 => Present(f) = {}
        PROVE  Older(f, minor_buf')
    <3>1. CASE prev_msg_index = -1
      BY <2>5, <3>1 DEF Older
    <3>2. CASE prev_msg_index # -1
      <4>1. prev_msg_index \in Present(minor_buf)
        BY <3>2 DEF Ages, Held
      <4>2. minor_buf.data[prev_msg_index].cyc <= cycle
        BY <1>1, <4>1 DEF MinorOK
      <4>3. Before(f, cycle)
        BY <1>1, <2>5, <4>1, <4>2, OlderBefore
      <4> QED
        BY <1>1, <2>3, <2>4, <2>5, <4>3, CycType DEF Older, Before
    <3> QED
      BY <3>1, <3>2
  <2>6. prev_msg_index = -1 =>
          /\ \A n \in 1 .. Len(file) : Present(file[n]) = {}
          /\ \A k \in Slots : Present(major_buf[k]) = {} /\ Present(global_buf[k]) = {}
    <3> SUFFICES ASSUME prev_msg_index = -1
                 PROVE  /\ \A n \in 1 .. Len(file) : Present(file[n]) = {}
                        /\ \A k \in Slots : Present(major_buf[k]) = {}
                                            /\ Present(global_buf[k]) = {}
      OBVIOUS
    <3>1. file = <<>> /\ major_buf = EmptyMajor /\ global_buf = EmptyMajor
      BY DEF Ages, Held
    <3> QED
      BY <1>1, <3>1, EmptyAge
  <2>7. /\ \A n \in 1 .. Len(file) : Older(file[n], minor_buf')
        /\ \A k \in Slots : Older(major_buf[k], minor_buf') /\ Older(global_buf[k], minor_buf')
    <3>1. ASSUME NEW n \in 1 .. Len(file) PROVE Older(file[n], minor_buf')
      <4>1. file[n] \in Frames /\ Older(file[n], minor_buf)
        BY <1>1, <1>3 DEF Aged
      <4> QED
        BY <2>5, <2>6, <4>1
    <3>2. ASSUME NEW k \in Slots
          PROVE  Older(major_buf[k], minor_buf') /\ Older(global_buf[k], minor_buf')
      <4>1. /\ major_buf[k] \in Frames /\ Older(major_buf[k], minor_buf)
            /\ global_buf[k] \in Frames /\ Older(global_buf[k], minor_buf)
        BY <1>1, <1>3 DEF Aged
      <4> QED
        BY <2>5, <2>6, <4>1
    <3> QED
      BY <3>1, <3>2
  <2>8. UNCHANGED <<file, major_buf, global_buf>>
    BY <2>1 DEF maj
  <2>9. Aged'
    BY <1>1, <2>7, <2>8 DEF Aged, FileAged
  <2> QED
    BY <2>2, <2>3, <2>4, <2>8, <2>9
<1> QED
  BY <1>4, <1>5

(* The bus passes a place of its schedule, or begins the next cycle.       *)
LEMMA AdvanceAge ==
    ASSUME TypeOK, Advance
    PROVE  \/ cycle' = cycle /\ pos' = pos + 1
           \/ cycle' = cycle + 1
  BY DEF Advance

LEMMA InStepKept ==
    ASSUME IInv, InStep, Advance, UNCHANGED minor_buf PROVE InStep'
<1>1. TypeOK /\ MinorOK
  BY DEF IInv
<1>2. CASE cycle' = cycle /\ pos' = pos + 1
  <2>1. pos \in Nat \ {0} /\ 1 .. pos - 1 \subseteq 1 .. pos' - 1
    BY <1>1, <1>2, ConstantsType DEF TypeOK
  <2> QED
    BY <1>2, <2>1 DEF InStep, Present
<1>3. CASE cycle' = cycle + 1
  <2>1. \A i \in Present(minor_buf) :
           minor_buf.data[i].cyc <= cycle /\ minor_buf.data[i].cyc \in Nat
    BY <1>1, CycType DEF MinorOK, TypeOK
  <2> QED
    BY <1>1, <1>3, <2>1 DEF InStep, TypeOK
<1> QED
  BY <1>1, <1>2, <1>3, AdvanceAge

LEMMA InitAges == Init => Ages
  BY EmptyType, EmptyAge DEF Init, Ages, Held, InStep, Aged, FileAged

LEMMA NextAges ==
    ASSUME ScheduleInOrder, IInv, Ages, [Next]_vars
    PROVE  /\ Ages'
           /\ global_buf' # global_buf /\ session' = session =>
                \A k, l \in Slots : Older(global_buf[k], global_buf'[l])
<1>1. ASSUME NEW opened \in BOOLEAN, Configure(opened) PROVE Ages' /\ session' # session
  BY <1>1, EmptyType, EmptyAge
     DEF Configure, Ages, Held, InStep, Aged, FileAged, IInv, TypeOK, bus
<1>2. CASE Stop
  BY <1>2 DEF Stop, Ages, Held, InStep, Aged, FileAged, ctl, maj, bus
<1>3. CASE Exit
  <2>1. FileAged'
    BY <1>3, WriteAge DEF Exit, IInv, Ages, Aged
  <2> QED
    BY <1>3, <2>1 DEF Exit, Ages, Held, InStep, Aged, ctl, maj, bus
<1>4. CASE Deliver
  <2>0. Advance /\ registered /\ alive /\ UNCHANGED <<status, registered, alive, session>>
    BY <1>4 DEF Deliver, Advance, life
  <2>1. CASE UNCHANGED <<file, ctl, maj>>
    <3>1. InStep'
      BY <2>0, <2>1, InStepKept DEF Ages, ctl
    <3> QED
      BY <2>0, <2>1, <3>1 DEF Ages, Held, Aged, FileAged, ctl, maj
  <2>2. ASSUME NEW i \in Indices, Get_Msg_Index(Schedule[pos], i),
               NEW cell \in BusCells(i), Put_Minor_Data(i, cell)
        PROVE  /\ Ages'
               /\ global_buf' # global_buf =>
                    \A k, l \in Slots : Older(global_buf[k], global_buf'[l])
    <3>1. cell \in Cells /\ cell.cyc = cycle
      BY BusCellType DEF IInv, TypeOK
    <3>2. /\ prev_msg_index' = i /\ i \in Present(minor_buf')
          /\ Aged'
          /\ global_buf' # global_buf =>
               \A k, l \in Slots : Older(global_buf[k], global_buf'[l])
          /\ \A j \in Present(minor_buf') \ {i} :
               /\ j \in Present(minor_buf)
               /\ minor_buf'.data[j] = minor_buf.data[j]
      BY <2>0, <2>2, <3>1, PutMinorAge
    <3>3. Held'
      BY <3>2, ConstantsType DEF Held
    <3>4. pos \in Nat \ {0} /\ cycle \in Nat
      BY ConstantsType DEF IInv, TypeOK
    <3>5. CASE cycle' = cycle /\ pos' = pos + 1
      <4>0. pos' - 1 = pos /\ pos \in 1 .. pos /\ 1 .. pos - 1 \subseteq 1 .. pos
        BY <3>4, <3>5
      <4>1. ASSUME NEW j \in Present(minor_buf'), minor_buf'.data[j].cyc = cycle
            PROVE  \E p \in 1 .. pos, k \in Indices :
                      j <= k /\ Get_Msg_Index(Schedule[p], k)
        <5>1. CASE j = i
          BY <2>2, <4>0, <5>1, ConstantsType
        <5>2. CASE j # i
          BY <3>2, <4>0, <4>1, <5>2 DEF Ages, InStep
        <5> QED
          BY <5>1, <5>2
      <4>2. InStep'
        BY <3>5, <4>0, <4>1 DEF InStep, Present
      <4> QED
        BY <3>2, <3>3, <4>2 DEF Ages
    <3>6. CASE cycle' = cycle + 1
      <4>1. \A j \in Present(minor_buf') : minor_buf'.data[j].cyc <= cycle
        BY <2>2, <3>1, PutMinorOK
      <4>2. \A j \in Present(minor_buf') : minor_buf'.data[j].cyc \in Nat
        BY <2>2, <3>1, PutMinorOK DEF Frames, Cells, Present
      <4> QED
        BY <3>2, <3>3, <3>4, <3>6, <4>1, <4>2 DEF Ages, InStep
    <3> QED
      BY <2>0, <3>5, <3>6, <3>2, <3>3, AdvanceAge DEF IInv, Ages
  <2> QED
    BY <1>4, <2>1, <2>2 DEF Deliver, Proc_Msg, maj
<1>5. CASE Miss
  <2>1. InStep'
    BY <1>5, InStepKept DEF Miss, Ages, ctl
  <2> QED
    BY <1>5, <2>1 DEF Miss, Ages, Held, Aged, FileAged, ctl, maj, life
<1>6. CASE UNCHANGED vars
  BY <1>6 DEF vars, ctl, maj, bus, life, Ages, Held, InStep, Aged, FileAged
<1> QED
  BY <1>1, <1>2, <1>3, <1>4, <1>5, <1>6 DEF Next, Stop, Exit, Miss, maj, vars

LEMMA AgesInvariance == ScheduleInOrder => (Spec => []Ages)
<1> SUFFICES ASSUME ScheduleInOrder PROVE Spec => []Ages
  OBVIOUS
<1>1. IInv /\ Ages /\ [Next]_vars => Ages'
  BY NextAges
<1> QED
  BY <1>1, InitAges, Invariance, PTL DEF Spec

(* The package's file is in the order of the bus and has no word twice,    *)
(* under any loss, wild minor ids, failed opens and failed writes.         *)
THEOREM FileKeepsOrder == ScheduleInOrder => (Spec => []FileInOrder)
<1>1. IInv /\ Ages => FileInOrder
  <2> SUFFICES ASSUME IInv, Ages PROVE FileInOrder
    OBVIOUS
  <2>1. file \in Seq(Frames)
    BY DEF IInv, TypeOK
  <2>2. \A n \in 1 .. Len(file) - 1 : Older(file[n], file[n + 1])
    BY <2>1 DEF Ages, Aged, FileAged
  <2>3. alive /\ file # <<>> => Older(file[Len(file)], minor_buf)
    BY <2>1 DEF Ages, Aged
  <2> QED
    BY <2>2, <2>3 DEF FileInOrder
<1> QED
  BY <1>1, AgesInvariance, Invariance, PTL

(* A posted major frame has nothing in common with the one it replaces.    *)
THEOREM PostsAreNew == ScheduleInOrder => (Spec => PostsMoveForward)
<1> SUFFICES ASSUME ScheduleInOrder PROVE Spec => PostsMoveForward
  OBVIOUS
<1>1. IInv /\ Ages /\ [Next]_vars =>
        [global_buf' # global_buf /\ session' = session =>
           \A k, l \in Slots : Older(global_buf[k], global_buf'[l])]_vars
  BY NextAges
<1> QED
  BY <1>1, AgesInvariance, Invariance, PTL DEF Spec, PostsMoveForward
-----------------------------------------------------------------------------
LEMMA QuotientZero ==
    ASSUME NEW t \in Nat \ {0}, NEW d \in Int, t * d < t, 0 - t < t * d
    PROVE  d = 0
<1>1. CASE d >= 1
  <2>1. PICK e \in Nat : d = 1 + e
    <3>1. d - 1 \in Nat /\ d = 1 + (d - 1)
      BY <1>1
    <3> QED
      BY <3>1
  <2>2. t * d = t + t * e
    BY <2>1
  <2>3. t * e \in Nat
    OBVIOUS
  <2> QED
    BY <2>2, <2>3
<1>2. CASE d <= -1
  <2>1. PICK e \in Nat : d = -1 - e
    <3>1. -1 - d \in Nat /\ d = -1 - (-1 - d)
      BY <1>2
    <3> QED
      BY <3>1
  <2>2. t * d = (0 - t) - t * e
    BY <2>1
  <2>3. t * e \in Nat
    OBVIOUS
  <2> QED
    BY <2>2, <2>3
<1> QED
  BY <1>1, <1>2

LEMMA Remainder ==
    ASSUME NEW t \in Nat \ {0}, NEW q \in Int, NEW r \in 0 .. t - 1
    PROVE  (t * q + r) % t = r
<1> DEFINE n == t * q + r
           s == n % t
           p == n \div t
<1>1. n \in Int
  OBVIOUS
<1>2. s \in 0 .. t - 1 /\ p \in Int /\ n = t * p + s
  BY <1>1
<1>3. t * (q - p) = s - r
  BY <1>2
<1>4. t * (q - p) < t /\ 0 - t < t * (q - p)
  BY <1>2, <1>3
<1> HIDE DEF s, p
<1>5. q - p = 0
  BY <1>2, <1>4, QuotientZero
<1>6. s = r
  BY <1>2, <1>3, <1>5
<1> QED
  BY <1>6 DEF s

LEMMA MinorNext ==
    ASSUME NEW c \in Nat \ {0}
    PROVE  /\ MinorOf(c) \in Slots
           /\ MinorOf(c + 1) = IF MinorOf(c) = TotalMinor THEN 1 ELSE MinorOf(c) + 1
<1> DEFINE q == (c - 1) \div TotalMinor
           r == (c - 1) % TotalMinor
<1>1. TotalMinor \in Nat \ {0}
  BY ConstantsType
<1>2. q \in Int /\ r \in 0 .. TotalMinor - 1 /\ c - 1 = TotalMinor * q + r
  BY <1>1
<1>3. MinorOf(c) = r + 1
  BY DEF MinorOf
<1> HIDE DEF q, r
<1>4. CASE r = TotalMinor - 1
  <2>1. c = TotalMinor * (q + 1) + 0
    BY <1>1, <1>2, <1>4
  <2>2. c % TotalMinor = 0
    BY <1>1, <1>2, <2>1, Remainder
  <2> QED
    BY <1>1, <1>2, <1>3, <1>4, <2>2 DEF MinorOf
<1>5. CASE r # TotalMinor - 1
  <2>1. r + 1 \in 0 .. TotalMinor - 1 /\ c = TotalMinor * q + (r + 1)
    BY <1>1, <1>2, <1>5
  <2>2. c % TotalMinor = r + 1
    BY <1>1, <1>2, <2>1, Remainder
  <2> QED
    BY <1>1, <1>2, <1>3, <1>5, <2>2 DEF MinorOf
<1> QED
  BY <1>4, <1>5

LEMMA MinorBack ==
    ASSUME NEW c \in Nat, MinorOf(c + TotalMinor) = TotalMinor, NEW k \in Slots
    PROVE  MinorOf(c + k) = k
<1> DEFINE n == c + TotalMinor - 1
           q == n \div TotalMinor
<1>1. TotalMinor \in Nat \ {0} /\ n \in Nat /\ k \in 1 .. TotalMinor
  BY ConstantsType
<1>2. q \in Int /\ n = TotalMinor * q + (n % TotalMinor)
  BY <1>1
<1>3. n % TotalMinor = TotalMinor - 1
  BY <1>1 DEF MinorOf
<1> HIDE DEF q
<1>4. c + k - 1 = TotalMinor * q + (k - 1) /\ k - 1 \in 0 .. TotalMinor - 1
  BY <1>1, <1>2, <1>3
<1>5. (c + k - 1) % TotalMinor = k - 1
  BY <1>1, <1>2, <1>4, Remainder
<1> QED
  BY <1>1, <1>5 DEF MinorOf
-----------------------------------------------------------------------------
(* Without loss.  When every message of the package is on the bus once a   *)
(* cycle, in the order of pkg.Subaddress, and none has a bad status word,  *)
(* the frame under construction is the part of the present cycle the bus   *)
(* has passed, or all of the last one, until a message of the next cycle   *)
(* closes it.                                                              *)
ScheduleComplete ==
    \A i \in Indices : \E p \in 1 .. Len(Schedule) : Get_Msg_Index(Schedule[p], i)

Lossless == ~BlocksFail /\ ScheduleInOrder /\ ScheduleComplete

Passed(i)    == \E p \in 1 .. pos - 1 : Get_Msg_Index(Schedule[p], i)
PassedNow(i) == \E p \in 1 .. pos : Get_Msg_Index(Schedule[p], i)

(* The cycle the frame under construction was sent in. *)
FrameCycle == minor_buf.data[prev_msg_index].cyc

(* A frame was closed in this session and left a trace: the next ones are  *)
(* whole.                                                                  *)
Closed == sync # 0 \/ (alive /\ file # <<>>)

(* A minor id that is not wild is the one of the cycle.                    *)
IdTrue(f) ==
    ~WildId(f) => /\ f.data[MinIdMsg].cyc # 0
                  /\ FrameId(f) = MinorOf(f.data[MinIdMsg].cyc)

Track ==
    registered =>
      /\ Closed => prev_msg_index # -1
      /\ prev_msg_index # -1 =>
           /\ SentIn(minor_buf, FrameCycle)
           /\ Closed => FrameCycle >= 2
           /\ \/ /\ FrameCycle = cycle /\ Passed(prev_msg_index)
                 /\ \A i \in Indices : Passed(i) => i <= prev_msg_index
                 /\ Closed => \A i \in Indices : Passed(i) => i \in Present(minor_buf)
              \/ /\ FrameCycle + 1 = cycle /\ prev_msg_index = Len(Layout) - 1
                 /\ \A i \in Indices : ~Passed(i)
                 /\ Closed => Complete(minor_buf)

Ident == IdTrue(minor_buf)

(* The major frame under construction: minor_count is the number of the    *)
(* minor cycle before, and the slots up to it hold the cycles before.      *)
Synced ==
    /\ registered =>
         /\ sync # 0 => MinorOf(FrameCycle) = minor_count + 1
         /\ sync >= 2 =>
              /\ FrameCycle - 1 - minor_count >= 1
              /\ \A k \in 1 .. minor_count :
                    /\ Complete(major_buf[k])
                    /\ SentIn(major_buf[k], FrameCycle - 1 - minor_count + k)
    /\ PostedMajorExact

Exact == Track /\ Ident /\ NoTornFrame /\ Synced

LEMMA MsgIndexUnique ==
    ASSUME NEW cmd, NEW i \in Indices, NEW j \in Indices,
           Get_Msg_Index(cmd, i), Get_Msg_Index(cmd, j)
    PROVE  i = j
  BY ConstantsType DEF Get_Msg_Index

(* What is left of the frame, once the message at pos was looked at, after *)
(* the bus has moved on.                                                   *)
LEMMA TrackMoves ==
    ASSUME Lossless, TypeOK, Advance, prev_msg_index' \in Indices,
           SentIn(minor_buf', FrameCycle'), FrameCycle' \in Nat,
           Closed' => FrameCycle' >= 2,
           \/ /\ FrameCycle' = cycle /\ PassedNow(prev_msg_index')
              /\ \A i \in Indices : PassedNow(i) => i <= prev_msg_index'
              /\ Closed' => \A i \in Indices : PassedNow(i) => i \in Present(minor_buf')
           \/ /\ FrameCycle' + 1 = cycle /\ prev_msg_index' = Len(Layout) - 1
              /\ \A i \in Indices : ~PassedNow(i)
              /\ Closed' => Complete(minor_buf')
    PROVE  Track'
<1>1. /\ pos \in 1 .. Len(Schedule) /\ cycle \in Nat \ {0}
      /\ Len(Schedule) \in Nat \ {0} /\ Len(Layout) \in 1..3
  BY ConstantsType DEF TypeOK
<1>2. CASE pos # Len(Schedule)
  <2>1. cycle' = cycle /\ pos' = pos + 1 /\ pos' - 1 = pos
    BY <1>1, <1>2 DEF Advance
  <2>2. \A i : Passed(i)' <=> PassedNow(i)
    BY <2>1 DEF Passed, PassedNow
  <2>3. Passed(prev_msg_index)' <=> PassedNow(prev_msg_index')
    BY <2>1 DEF Passed, PassedNow
  <2> QED
    BY <2>1, <2>2, <2>3, ConstantsType DEF Track
<1>3. CASE pos = Len(Schedule)
  <2>1. cycle' = cycle + 1 /\ pos' = 1
    BY <1>3 DEF Advance
  <2>2. \A i \in Indices : PassedNow(i)
    BY <1>3 DEF Lossless, ScheduleComplete, PassedNow
  <2>3. \A i \in Indices : ~Passed(i)'
    BY <2>1 DEF Passed
  <2>4. Len(Layout) - 1 \in Indices
    BY <1>1
  <2>5. /\ FrameCycle' = cycle
        /\ \A i \in Indices : PassedNow(i) => i <= prev_msg_index'
        /\ Closed' => \A i \in Indices : PassedNow(i) => i \in Present(minor_buf')
    BY <2>2, <2>4
  <2>6. prev_msg_index' = Len(Layout) - 1
    BY <1>1, <2>2, <2>4, <2>5
  <2>7. Closed' => Complete(minor_buf')
    BY <2>2, <2>5 DEF Complete, Present
  <2> QED
    BY <1>1, <2>1, <2>3, <2>5, <2>6, <2>7 DEF Track
<1> QED
  BY <1>2, <1>3

(* The message at pos is not one of the package. *)
LEMMA PassedOther ==
    ASSUME TypeOK, \A i \in Indices : ~Matches(Schedule[pos], i)
    PROVE  \A i \in Indices : PassedNow(i) <=> Passed(i)
<1>1. pos \in Nat \ {0}
  BY ConstantsType DEF TypeOK
<1>2. \A i \in Indices : ~Get_Msg_Index(Schedule[pos], i)
  BY DEF Get_Msg_Index
<1>3. \A p \in 1 .. pos : p \in 1 .. pos - 1 \/ p = pos
  BY <1>1
<1>4. 1 .. pos - 1 \subseteq 1 .. pos
  BY <1>1
<1> QED
  BY <1>2, <1>3, <1>4 DEF PassedNow, Passed

(* The message at pos is message i of the package.                         *)
LEMMA PassedOwn ==
    ASSUME ScheduleInOrder, TypeOK, NEW i \in Indices, Get_Msg_Index(Schedule[pos], i)
    PROVE  /\ PassedNow(i)
           /\ \A j \in Indices : PassedNow(j) <=> Passed(j) \/ j = i
           /\ \A j \in Indices : Passed(j) => j < i
<1>1. pos \in 1 .. Len(Schedule) /\ pos \in Nat \ {0}
  BY ConstantsType DEF TypeOK
<1>2. /\ \A p \in 1 .. pos : p \in 1 .. pos - 1 \/ p = pos
      /\ pos \in 1 .. pos
      /\ 1 .. pos - 1 \subseteq 1 .. pos
      /\ \A p \in 1 .. pos - 1 : p \in 1 .. Len(Schedule) /\ p < pos
  BY <1>1, ConstantsType
<1>3. \A j \in Indices : Get_Msg_Index(Schedule[pos], j) => j = i
  BY MsgIndexUnique
<1>4. PassedNow(i)
  BY <1>2 DEF PassedNow
<1>5. \A j \in Indices : PassedNow(j) <=> Passed(j) \/ j = i
  BY <1>2, <1>3, <1>4 DEF PassedNow, Passed
<1>6. \A j \in Indices : Passed(j) => j < i
  BY <1>1, <1>2 DEF ScheduleInOrder, Passed
<1> QED
  BY <1>4, <1>5, <1>6

(* What can arrive carries a true minor id or a wild one.                  *)
LEMMA BusCellTrue ==
    ASSUME cycle \in Nat \ {0}, NEW i \in Indices, NEW cell \in BusCells(i)
    PROVE  /\ cell.cyc = cycle
           /\ i = MinIdMsg /\ cell.id \in 1 .. TotalMinor => cell.id = MinorOf(cycle)
  BY MajorAssumption DEF BusCells

(* Storing a message in the frame it continues, or in a cleared one. *)
LEMMA StoreExact ==
    ASSUME NEW f \in Frames, NEW s, NEW i \in Indices, NEW cell \in BusCells(i),
           cycle \in Nat \ {0}, Store(f, s, i, cell), SentIn(f, cycle), IdTrue(f)
    PROVE  /\ prev_msg_index' = i /\ FrameCycle' = cycle
           /\ Present(minor_buf') = Present(f) \cup {i}
           /\ SentIn(minor_buf', cycle)
           /\ IdTrue(minor_buf')
<1>1. cell \in Cells /\ cell.cyc = cycle /\ DOMAIN f.data = Indices /\ MinIdMsg \in Indices
  BY BusCellType, ConstantsType DEF Frames
<1>2. minor_buf'.data = [f.data EXCEPT ![i] = cell] /\ prev_msg_index' = i
  BY DEF Store, Frames
<1>3. \A j \in Indices : minor_buf'.data[j] = IF j = i THEN cell ELSE f.data[j]
  BY <1>1, <1>2
<1>4. Present(minor_buf') = Present(f) \cup {i}
  BY <1>1, <1>3 DEF Present
<1>5. SentIn(minor_buf', cycle)
  BY <1>1, <1>3, <1>4, CycType DEF SentIn
<1>6. IdTrue(minor_buf')
  <2>1. CASE i = MinIdMsg
    <3>1. minor_buf'.data[MinIdMsg] = cell
      BY <1>1, <1>3, <2>1
    <3> QED
      BY <1>1, <2>1, <3>1, BusCellTrue DEF IdTrue, WildId, FrameId
  <2>2. CASE i # MinIdMsg
    <3>1. minor_buf'.data[MinIdMsg] = f.data[MinIdMsg]
      BY <1>1, <1>3, <2>2
    <3> QED
      BY <3>1 DEF IdTrue, WildId, FrameId
  <2> QED
    BY <2>1, <2>2
<1> QED
  BY <1>1, <1>2, <1>3, <1>4, <1>5, <1>6 DEF FrameCycle

LEMMA EmptyExact ==
    /\ Complete(EmptyFrame) => FALSE
    /\ \A c : SentIn(EmptyFrame, c)
    /\ IdTrue(EmptyFrame)
<1>1. Complete(EmptyFrame) => FALSE
  BY EmptyType, ConstantsType DEF Complete
<1>2. \A c : SentIn(EmptyFrame, c)
  BY EmptyType DEF SentIn
<1>3. IdTrue(EmptyFrame)
  BY EmptyOK DEF IdTrue, WildId
<1> QED
  BY <1>1, <1>2, <1>3

(* A message of the package closes the frame of the cycle before, or       *)
(* continues the frame of this one.                                        *)
LEMMA MinorExact ==
    ASSUME Lossless, IInv, Ages, Exact, registered, alive,
           NEW i \in Indices, NEW cell \in BusCells(i),
           Get_Msg_Index(Schedule[pos], i), Put_Minor_Data(i, cell)
    PROVE  /\ prev_msg_index' = i /\ FrameCycle' = cycle
           /\ SentIn(minor_buf', cycle) /\ IdTrue(minor_buf')
           /\ Boundary(i) =>
                /\ prev_msg_index \in Present(minor_buf)
                /\ SentIn(minor_buf, FrameCycle) /\ FrameCycle + 1 = cycle
                /\ Closed => Complete(minor_buf)
           /\ ~Boundary(i) /\ prev_msg_index # -1 => FrameCycle = cycle
           /\ Boundary(i) \/ Closed =>
                \A j \in Indices : PassedNow(j) => j \in Present(minor_buf')
<1>1. /\ TypeOK /\ minor_buf \in Frames /\ cycle \in Nat \ {0}
      /\ EmptyFrame \in Frames /\ Present(EmptyFrame) = {} /\ ScheduleInOrder
      /\ Track /\ IdTrue(minor_buf) /\ Held
  BY EmptyType DEF IInv, TypeOK, Lossless, Exact, Ident, Ages
<1>2. \A j \in Indices : (PassedNow(j) <=> Passed(j) \/ j = i) /\ (Passed(j) => j < i)
  BY <1>1, PassedOwn
<1>3. CASE Boundary(i)
  <2>1. prev_msg_index # -1 /\ i <= prev_msg_index /\ prev_msg_index \in Present(minor_buf)
    BY <1>1, <1>3 DEF Boundary, Held
  <2>2. prev_msg_index \in Indices
    BY <1>1, <2>1, CycType
  <2>3. ~Passed(prev_msg_index)
    BY <1>2, <2>1, <2>2, ConstantsType
  <2>4. /\ SentIn(minor_buf, FrameCycle) /\ FrameCycle + 1 = cycle
        /\ \A j \in Indices : ~Passed(j)
        /\ Closed => Complete(minor_buf)
    BY <1>1, <2>1, <2>3 DEF Track
  <2>5. Store(EmptyFrame, {}, i, cell)
    BY <1>3 DEF Put_Minor_Data
  <2>6. /\ prev_msg_index' = i /\ FrameCycle' = cycle
        /\ Present(minor_buf') = Present(EmptyFrame) \cup {i}
        /\ SentIn(minor_buf', cycle) /\ IdTrue(minor_buf')
    BY <1>1, <2>5, StoreExact, EmptyExact
  <2> QED
    BY <1>1, <1>2, <1>3, <2>1, <2>4, <2>6
<1>4. CASE ~Boundary(i)
  <2>1. Store(minor_buf, msg_sts, i, cell)
    BY <1>4 DEF Put_Minor_Data
  <2>2. CASE prev_msg_index = -1
    <3>1. minor_buf = EmptyFrame /\ ~Closed
      BY <1>1, <2>2 DEF Held, Track
    <3>2. /\ prev_msg_index' = i /\ FrameCycle' = cycle
          /\ SentIn(minor_buf', cycle) /\ IdTrue(minor_buf')
      BY <1>1, <2>1, <3>1, StoreExact, EmptyExact
    <3> QED
      BY <1>4, <2>2, <3>1, <3>2
  <2>3. CASE prev_msg_index # -1
    <3>1. /\ prev_msg_index \in Indices /\ ~(i <= prev_msg_index)
      BY <1>1, <1>4, <2>3 DEF Boundary, TypeOK
    <3>2. prev_msg_index # Len(Layout) - 1
      BY <3>1, ConstantsType
    <3>3. /\ FrameCycle = cycle /\ SentIn(minor_buf, cycle)
          /\ Closed => \A j \in Indices : Passed(j) => j \in Present(minor_buf)
      BY <1>1, <2>3, <3>2 DEF Track
    <3>4. /\ prev_msg_index' = i /\ FrameCycle' = cycle
          /\ Present(minor_buf') = Present(minor_buf) \cup {i}
          /\ SentIn(minor_buf', cycle) /\ IdTrue(minor_buf')
      BY <1>1, <2>1, <3>3, StoreExact
    <3> QED
      BY <1>2, <1>4, <3>3, <3>4
  <2> QED
    BY <2>2, <2>3
<1> QED
  BY <1>3, <1>4

(* Where a closed frame goes without loss: into the slot of its minor      *)
(* cycle, once the object is in step with the bus.                         *)
LEMMA SlotExact ==
    ASSUME TypeOK, SlotInBounds, NEW f \in Frames, NEW b \in Nat \ {0}, IdTrue(f), SentIn(f, b),
           sync # 0 => MinorOf(b) = minor_count + 1,
           sync # 0 \/ TotalMinor = 1 \/ ~WildId(f)
    PROVE  MinorSlot(f) = MinorOf(b)
<1>1. MinorOf(b) \in 1 .. TotalMinor /\ TotalMinor \in 1..255 /\ minor_count \in 0 .. TotalMinor - 1
  BY MinorNext, ConstantsType DEF SlotInBounds
<1>2. ~WildId(f) => FrameId(f) = MinorOf(b)
  BY ConstantsType DEF IdTrue, SentIn, Present
<1>3. (minor_count + 1) % 256 = minor_count + 1
  BY <1>1
<1> QED
  BY <1>1, <1>2, <1>3 DEF MinorSlot

LEMMA FramingExact ==
    ASSUME NEW f \in Frames
    PROVE  /\ \A c : SentIn(Framing(f), c) <=> SentIn(f, c)
           /\ Complete(Framing(f)) <=> Complete(f)
           /\ IdTrue(Framing(f)) <=> IdTrue(f)
  BY FramingType DEF SentIn, Complete, IdTrue, WildId, FrameId, Present

(* What was posted stays as it is while the bus goes on. *)
LEMMA PostedKept ==
    ASSUME PostedMajorExact, UNCHANGED <<sync, global_buf>>,
           cycle \in Nat, cycle' \in Nat, cycle <= cycle'
    PROVE  PostedMajorExact'
<1> SUFFICES ASSUME sync' = 3
             PROVE  \E c \in 1 .. cycle' : \A k \in Slots :
                      /\ Complete(global_buf'[k])
                      /\ SentIn(global_buf'[k], c + k)
                      /\ MinorOf(c + k) = k
  BY DEF PostedMajorExact, Complete, SentIn, Present, MinorOf
<1>1. PICK c \in 1 .. cycle : \A k \in Slots :
        /\ Complete(global_buf[k])
        /\ SentIn(global_buf[k], c + k)
        /\ MinorOf(c + k) = k
  BY DEF PostedMajorExact
<1>2. c \in 1 .. cycle'
  OBVIOUS
<1> QED
  BY <1>1, <1>2

(* Placing the frame of the cycle before into its major frame. *)
LEMMA PutMajorExact ==
    ASSUME TypeOK, SlotInBounds, registered, Synced, IdTrue(minor_buf),
           FrameCycle \in Nat \ {0}, FrameCycle + 1 = cycle, SentIn(minor_buf, FrameCycle),
           Closed => Complete(minor_buf),
           Put_Major_Data(Framing(minor_buf)), FrameCycle' = cycle, cycle <= cycle',
           cycle' \in Nat
    PROVE  Synced'
<1> DEFINE f      == Framing(minor_buf)
           b      == FrameCycle
           slot   == MinorSlot(f)
           filled == [major_buf EXCEPT ![slot] = f]
           good   == IF sync = 0 /\ (TotalMinor = 1 \/ ~WildId(f)) THEN 1 ELSE sync
<1>1. /\ f \in Frames /\ IdTrue(f) /\ SentIn(f, b) /\ (Closed => Complete(f))
      /\ sync \in 0..3 /\ minor_count \in 0 .. TotalMinor - 1 /\ TotalMinor \in 1..255
      /\ MinorOf(b) \in 1 .. TotalMinor
      /\ b \in Nat \ {0} /\ cycle = b + 1 /\ cycle' \in Nat /\ cycle <= cycle'
      /\ sync # 0 => MinorOf(b) = minor_count + 1
  BY FramingExact, FramingType, MinorNext, ConstantsType DEF TypeOK, SlotInBounds, Synced
<1>2. good # 0 => slot = MinorOf(b)
  BY <1>1, SlotExact
<1>3. \/ /\ slot = TotalMinor
         /\ global_buf' = filled /\ minor_count' = 0
         /\ sync' = IF good \in {1, 2} THEN good + 1 ELSE good
      \/ /\ slot # TotalMinor
         /\ minor_count' = slot /\ major_buf' = filled
         /\ sync' = good /\ global_buf' = global_buf
  BY DEF Put_Major_Data, Post
<1>4. good # 0 => \A k \in Slots : filled[k] = IF k = slot THEN f ELSE major_buf[k]
  BY <1>1, <1>2 DEF TypeOK
<1>5. /\ good \in 0..3 /\ (good >= 2 => good = sync)
      /\ b' = b + 1
  BY <1>1
<1>6. sync >= 2 =>
        /\ b - 1 - minor_count >= 1
        /\ \A k \in 1 .. minor_count :
              /\ Complete(major_buf[k])
              /\ SentIn(major_buf[k], b - 1 - minor_count + k)
  BY DEF Synced
<1> HIDE DEF f, b, slot, filled, good
<1>7. good >= 2 =>
        \A k \in 1 .. slot : Complete(filled[k]) /\ SentIn(filled[k], b - slot + k)
  <2> SUFFICES ASSUME good >= 2, NEW k \in 1 .. slot
               PROVE  Complete(filled[k]) /\ SentIn(filled[k], b - slot + k)
    OBVIOUS
  <2>1. sync = good /\ sync # 0 /\ slot = minor_count + 1 /\ k \in Slots /\ Closed
    BY <1>1, <1>2, <1>5 DEF Closed
  <2>2. CASE k = slot
    <3>1. filled[k] = f /\ b - slot + k = b
      BY <1>1, <1>4, <2>1, <2>2
    <3> QED
      BY <1>1, <2>1, <3>1
  <2>3. CASE k # slot
    <3>1. filled[k] = major_buf[k] /\ k \in 1 .. minor_count
          /\ b - slot + k = b - 1 - minor_count + k
      BY <1>1, <1>4, <2>1, <2>3
    <3> QED
      BY <1>6, <2>1, <3>1
  <2> QED
    BY <2>2, <2>3
<1>8. MinorOf(b + 1) = IF MinorOf(b) = TotalMinor THEN 1 ELSE MinorOf(b) + 1
  BY <1>1, MinorNext
<1>9. sync' # 0 => MinorOf(b') = minor_count' + 1
  BY <1>1, <1>2, <1>3, <1>5, <1>8
<1>10. ASSUME sync' >= 2
       PROVE  /\ b' - 1 - minor_count' >= 1
              /\ \A k \in 1 .. minor_count' :
                    /\ Complete(major_buf'[k])
                    /\ SentIn(major_buf'[k], b' - 1 - minor_count' + k)
  <2>1. CASE minor_count' = 0
    BY <1>1, <1>5, <2>1
  <2>2. CASE minor_count' # 0
    <3>1. /\ minor_count' = slot /\ major_buf' = filled /\ good = sync' /\ good = sync
          /\ slot = minor_count + 1 /\ b' - 1 - minor_count' = b - slot
      BY <1>1, <1>2, <1>3, <1>5, <1>10, <2>2
    <3> QED
      BY <1>1, <1>6, <1>7, <1>10, <3>1
  <2> QED
    BY <2>1, <2>2
<1>11. PostedMajorExact'
  <2> SUFFICES ASSUME sync' = 3
               PROVE  \E c \in 1 .. cycle' : \A k \in Slots :
                        /\ Complete(global_buf'[k])
                        /\ SentIn(global_buf'[k], c + k)
                        /\ MinorOf(c + k) = k
    BY DEF PostedMajorExact, Complete, SentIn, Present, MinorOf
  <2>1. CASE slot = TotalMinor
    <3>1. good >= 2 /\ good = sync /\ global_buf' = filled /\ slot = minor_count + 1
      BY <1>1, <1>2, <1>3, <1>5, <2>1
    <3>2. b - TotalMinor \in 1 .. cycle' /\ b - TotalMinor \in Nat
          /\ (b - TotalMinor) + TotalMinor = b
      <4>1. b - TotalMinor = b - 1 - minor_count /\ b - TotalMinor >= 1
        BY <1>1, <1>6, <2>1, <3>1
      <4> QED
        BY <1>1, <4>1
    <3>3. \A k \in Slots : MinorOf((b - TotalMinor) + k) = k
      <4>1. PICK c \in Nat : c = b - TotalMinor /\ c + TotalMinor = b
        BY <3>2
      <4>2. MinorOf(c + TotalMinor) = TotalMinor
        BY <1>2, <2>1, <3>1, <4>1
      <4> QED
        BY <4>1, <4>2, MinorBack
    <3> QED
      BY <1>7, <2>1, <3>1, <3>2, <3>3
  <2>2. CASE slot # TotalMinor
    <3>1. sync = 3 /\ global_buf' = global_buf
      BY <1>3, <1>5, <2>2
    <3> QED
      BY <1>1, <3>1 DEF Synced, PostedMajorExact
  <2> QED
    BY <2>1, <2>2
<1> QED
  BY <1>9, <1>10, <1>11 DEF Synced, b, Complete, SentIn, Present, MinorOf

(* A frame that was sent in one cycle stays so wherever it is copied. *)
Untorn(f) == \E c \in 0 .. cycle : SentIn(f, c)

LEMMA TornParts ==
    ASSUME TypeOK
    PROVE  NoTornFrame <=> /\ Untorn(minor_buf)
                           /\ \A k \in Slots : Untorn(major_buf[k]) /\ Untorn(global_buf[k])
                           /\ \A n \in 1 .. Len(file) : Untorn(file[n])
<1>1. DOMAIN file = 1 .. Len(file)
  BY DEF TypeOK
<1> QED
  BY <1>1 DEF NoTornFrame, Built, Untorn

LEMMA UntornStep ==
    ASSUME TypeOK', cycle \in Nat, cycle' \in Nat, cycle <= cycle',
           Untorn(minor_buf'),
           \A k \in Slots : Untorn(major_buf'[k]) /\ Untorn(global_buf'[k]),
           \A n \in 1 .. Len(file') : Untorn(file'[n])
    PROVE  NoTornFrame'
<1>1. \A f : Untorn(f) => \E c \in 0 .. cycle' : SentIn(f, c)
  BY DEF Untorn
<1>2. DOMAIN file' = 1 .. Len(file')
  BY DEF TypeOK
<1> QED
  BY <1>1, <1>2 DEF NoTornFrame, Built, SentIn, Present

LEMMA UntornWrite ==
    ASSUME TypeOK, NoTornFrame, Write_Minor_Data
    PROVE  \A n \in 1 .. Len(file') : Untorn(file'[n])
<1>1. file \in Seq(Frames) /\ minor_buf \in Frames
  BY DEF TypeOK
<1>2. Untorn(minor_buf) /\ \A n \in 1 .. Len(file) : Untorn(file[n])
  BY TornParts
<1>3. CASE file' = file
  BY <1>2, <1>3
<1>4. CASE file' = Append(file, Framing(minor_buf))
  <2>1. /\ Len(file') = Len(file) + 1 /\ Len(file) \in Nat
        /\ \A n \in 1 .. Len(file) : file'[n] = file[n]
        /\ file'[Len(file) + 1] = Framing(minor_buf)
    BY <1>1, <1>4, FramingType
  <2>2. Untorn(Framing(minor_buf))
    BY <1>1, <1>2, FramingExact DEF Untorn
  <2> QED
    BY <1>2, <2>1, <2>2
<1> QED
  BY <1>3, <1>4 DEF Write_Minor_Data

LEMMA UntornMajor ==
    ASSUME TypeOK, SlotInBounds, NoTornFrame, Put_Major_Data(Framing(minor_buf))
    PROVE  \A k \in Slots : Untorn(major_buf'[k]) /\ Untorn(global_buf'[k])
<1> DEFINE f      == Framing(minor_buf)
           slot   == MinorSlot(f)
           filled == [major_buf EXCEPT ![slot] = f]
<1>1. /\ major_buf' = IF slot = TotalMinor THEN EmptyMajor ELSE filled
      /\ global_buf' = IF slot = TotalMinor THEN filled ELSE global_buf
  BY DEF Put_Major_Data, Post
<1>2. slot \in Slots
  BY ConstantsType DEF SlotInBounds, MinorSlot, WildId
<1>3. \A k \in Slots : filled[k] = IF k = slot THEN f ELSE major_buf[k]
  BY <1>2 DEF TypeOK
<1>4. /\ Untorn(minor_buf)
      /\ \A k \in Slots : Untorn(major_buf[k]) /\ Untorn(global_buf[k])
  BY TornParts
<1>5. Untorn(f)
  BY <1>4, FramingExact DEF TypeOK, Untorn
<1>6. Untorn(EmptyFrame)
  BY EmptyExact DEF Untorn, TypeOK
<1> HIDE DEF f, slot, filled
<1>7. \A k \in Slots : Untorn(filled[k])
  BY <1>3, <1>4, <1>5
<1> QED
  BY <1>1, <1>4, <1>6, <1>7, EmptyOK

(* A message of the package keeps the buffers exact. *)
LEMMA PutMinorExact ==
    ASSUME Lossless, IInv, Ages, Exact, registered, alive, Advance, UNCHANGED registered,
           NEW i \in Indices, NEW cell \in BusCells(i), IInv',
           Get_Msg_Index(Schedule[pos], i), Put_Minor_Data(i, cell),
           Closed' => Closed \/ Boundary(i)
    PROVE  Exact'
<1>1. /\ TypeOK /\ SlotInBounds /\ minor_buf \in Frames /\ cycle \in Nat \ {0}
      /\ cycle' \in Nat /\ cycle <= cycle' /\ TypeOK'
      /\ Track /\ NoTornFrame /\ Synced /\ IdTrue(minor_buf)
  BY AdvanceType DEF IInv, TypeOK, Exact, Ident
<1>2. /\ prev_msg_index' = i /\ FrameCycle' = cycle
      /\ SentIn(minor_buf', cycle) /\ IdTrue(minor_buf')
      /\ Boundary(i) =>
           /\ prev_msg_index \in Present(minor_buf)
           /\ SentIn(minor_buf, FrameCycle) /\ FrameCycle + 1 = cycle
           /\ Closed => Complete(minor_buf)
      /\ ~Boundary(i) /\ prev_msg_index # -1 => FrameCycle = cycle
      /\ Boundary(i) \/ Closed =>
           \A j \in Indices : PassedNow(j) => j \in Present(minor_buf')
  BY MinorExact
<1>3. Boundary(i) => FrameCycle \in Nat \ {0}
  BY <1>1, <1>2, CycType DEF FrameCycle, Present
<1>4. Track'
  <2>1. /\ PassedNow(i)
        /\ \A j \in Indices : PassedNow(j) => j <= i
    BY <1>1, PassedOwn, ConstantsType DEF Lossless
  <2>2. Closed' => cycle >= 2
    <3>1. CASE Boundary(i)
      BY <1>1, <1>2, <1>3, <3>1
    <3>2. CASE Closed /\ ~Boundary(i)
      <4>1. prev_msg_index # -1
        BY <1>1, <3>2 DEF Track
      <4> QED
        BY <1>1, <1>2, <3>2, <4>1 DEF Track
    <3> QED
      BY <3>1, <3>2
  <2> QED
    BY <1>1, <1>2, <2>1, <2>2, TrackMoves
<1>5. Synced' /\ \A k \in Slots : Untorn(major_buf'[k]) /\ Untorn(global_buf'[k])
  <2>1. CASE Boundary(i)
    <3>1. Put_Major_Data(Framing(minor_buf))
      BY <2>1 DEF Put_Minor_Data
    <3> QED
      BY <1>1, <1>2, <1>3, <2>1, <3>1, PutMajorExact, UntornMajor
  <2>2. CASE ~Boundary(i)
    <3>1. UNCHANGED maj
      BY <2>2 DEF Put_Minor_Data
    <3>2. sync # 0 => FrameCycle' = FrameCycle
      BY <1>1, <1>2, <2>2 DEF Track, Closed
    <3>3. PostedMajorExact'
      BY <1>1, <3>1, PostedKept DEF Synced, maj
    <3>4. sync' \in 0..3
      BY <1>1 DEF TypeOK
    <3> QED
      BY <1>1, <3>1, <3>2, <3>3, <3>4, TornParts
         DEF Synced, maj, Complete, SentIn, Present, MinorOf
  <2> QED
    BY <2>1, <2>2
<1>6. \A n \in 1 .. Len(file') : Untorn(file'[n])
  <2>1. CASE Boundary(i)
    BY <1>1, <2>1, UntornWrite DEF Put_Minor_Data
  <2>2. CASE ~Boundary(i)
    BY <1>1, <2>2, TornParts DEF Put_Minor_Data
  <2> QED
    BY <2>1, <2>2
<1>7. NoTornFrame'
  <2>1. Untorn(minor_buf')
    BY <1>1, <1>2 DEF Untorn
  <2> QED
    BY <1>1, <1>5, <1>6, <2>1, UntornStep
<1> QED
  BY <1>2, <1>4, <1>5, <1>7 DEF Exact, Ident

LEMMA InitExact == Init => Exact
<1> SUFFICES ASSUME Init PROVE Exact
  OBVIOUS
<1>1. Track /\ Synced
  BY DEF Init, Track, Synced, PostedMajorExact
<1>2. Ident
  BY EmptyExact DEF Init, Ident
<1>3. NoTornFrame
  BY EmptyExact, EmptyOK DEF Init, NoTornFrame, Built
<1> QED
  BY <1>1, <1>2, <1>3 DEF Exact

LEMMA NextExact ==
    ASSUME Lossless, IInv, IInv', Ages, Exact, [Next]_vars
    PROVE  Exact'
<1>1. /\ TypeOK /\ TypeOK' /\ cycle \in Nat \ {0} /\ cycle' \in Nat
      /\ Track /\ Ident /\ NoTornFrame /\ Synced /\ PostedMajorExact
  BY DEF IInv, TypeOK, Exact, Synced
<1>2. ASSUME NEW opened \in BOOLEAN, Configure(opened) PROVE Exact'
  <2>1. Track' /\ Synced' /\ Ident'
    BY <1>2, EmptyExact
       DEF Configure, Track, Synced, PostedMajorExact, Ident, Closed, IdTrue, WildId, FrameId
  <2>2. NoTornFrame'
    <3>1. /\ minor_buf' = EmptyFrame /\ major_buf' = EmptyMajor /\ global_buf' = EmptyMajor
          /\ file' = <<>> /\ cycle' = cycle
      BY <1>2 DEF Configure, bus
    <3> QED
      <4>1. Untorn(EmptyFrame)
        BY <1>1, EmptyExact DEF Untorn
      <4>2. file' = <<>> /\ Len(file') = 0
        BY <3>1
      <4> QED
        BY <1>1, <3>1, <4>1, <4>2, EmptyOK, UntornStep
  <2> QED
    BY <2>1, <2>2 DEF Exact
<1>3. CASE Stop
  <2>1. Track' /\ Synced' /\ Ident'
    BY <1>1, <1>3, PostedKept
       DEF Stop, Track, Synced, Ident, IdTrue, WildId, FrameId, ctl, maj, bus
  <2>2. NoTornFrame'
    <3>1. UNCHANGED <<minor_buf, major_buf, global_buf, file, cycle>>
      BY <1>3 DEF Stop, ctl, maj, bus
    <3> QED
      BY <1>1, <3>1, TornParts, UntornStep
  <2> QED
    BY <2>1, <2>2 DEF Exact
<1>4. CASE Exit
  <2>0. /\ Write_Minor_Data /\ ~alive' /\ alive
        /\ UNCHANGED <<registered, prev_msg_index, minor_buf, major_buf, global_buf, sync,
                       minor_count, cycle, pos>>
    BY <1>4 DEF Exit, ctl, maj, bus
  <2>1. Closed' => Closed
    BY <2>0 DEF Closed
  <2>2. Track'
    BY <1>1, <2>0, <2>1 DEF Track, FrameCycle, SentIn, Complete, Present, Passed
  <2>3. Synced'
    BY <1>1, <2>0, PostedKept DEF Synced, FrameCycle, SentIn, Complete, Present, MinorOf
  <2>4. Ident'
    BY <1>1, <2>0 DEF Ident, IdTrue, WildId, FrameId, MinorOf
  <2>5. NoTornFrame'
    <3>1. \A n \in 1 .. Len(file') : Untorn(file'[n])
      BY <1>1, <2>0, UntornWrite
    <3>2. Untorn(minor_buf) /\ \A k \in Slots : Untorn(major_buf[k]) /\ Untorn(global_buf[k])
      BY <1>1, TornParts
    <3> QED
      BY <1>1, <2>0, <3>1, <3>2, UntornStep
  <2> QED
    BY <2>2, <2>3, <2>4, <2>5 DEF Exact
<1>5. ASSUME Advance, UNCHANGED <<status, file, ctl, maj, life>>,
             registered => \A i \in Indices : PassedNow(i) <=> Passed(i)
      PROVE  Exact'
  <2>0. /\ UNCHANGED <<registered, alive, file, prev_msg_index, minor_buf, major_buf, global_buf,
                       sync, minor_count>>
        /\ cycle <= cycle'
    BY <1>1, <1>5, AdvanceType DEF life, ctl, maj
  <2>1. Track'
    <3>1. CASE ~registered
      BY <2>0, <3>1 DEF Track
    <3>2. CASE prev_msg_index = -1
      BY <1>1, <2>0, <3>2 DEF Track, Closed
    <3>3. CASE registered /\ prev_msg_index # -1
      <4>1. /\ prev_msg_index' \in Indices /\ FrameCycle' = FrameCycle
            /\ (Closed' <=> Closed) /\ minor_buf' = minor_buf /\ prev_msg_index' = prev_msg_index
        BY <1>1, <2>0, <3>3 DEF TypeOK, FrameCycle, Closed
      <4>2. FrameCycle \in Nat
        BY <1>1, <4>1, CycType DEF FrameCycle, TypeOK
      <4>3. /\ SentIn(minor_buf, FrameCycle)
            /\ Closed => FrameCycle >= 2
            /\ \/ /\ FrameCycle = cycle /\ PassedNow(prev_msg_index)
                  /\ \A i \in Indices : PassedNow(i) => i <= prev_msg_index
                  /\ Closed => \A i \in Indices : PassedNow(i) => i \in Present(minor_buf)
               \/ /\ FrameCycle + 1 = cycle /\ prev_msg_index = Len(Layout) - 1
                  /\ \A i \in Indices : ~PassedNow(i)
                  /\ Closed => Complete(minor_buf)
        BY <1>1, <1>5, <3>3, <4>1 DEF Track
      <4> QED
        BY <1>1, <1>5, <4>1, <4>2, <4>3, TrackMoves
    <3> QED
      BY <3>1, <3>2, <3>3
  <2>2. Synced'
    BY <1>1, <2>0, PostedKept DEF Synced, FrameCycle, SentIn, Complete, Present, MinorOf
  <2>3. Ident'
    BY <1>1, <2>0 DEF Ident, IdTrue, WildId, FrameId, MinorOf
  <2>4. NoTornFrame'
    BY <1>1, <2>0, TornParts, UntornStep
  <2> QED
    BY <2>1, <2>2, <2>3, <2>4 DEF Exact
<1>6. CASE Deliver
  <2>0. Advance /\ registered /\ alive /\ UNCHANGED <<status, life>>
    BY <1>6 DEF Deliver, Advance
  <2>1. CASE (\A i \in Indices : ~Matches(Schedule[pos], i)) /\ UNCHANGED <<file, ctl, maj>>
    BY <1>1, <1>5, <2>0, <2>1, PassedOther
  <2>2. ASSUME NEW i \in Indices, Get_Msg_Index(Schedule[pos], i),
               NEW cell \in BusCells(i), Put_Minor_Data(i, cell)
        PROVE  Exact'
    <3>1. Closed' => Closed \/ Boundary(i)
      BY <2>0, <2>2 DEF Put_Minor_Data, Closed, maj, life
    <3> QED
      BY <2>0, <2>2, <3>1, PutMinorExact DEF life
  <2> QED
    BY <1>6, <2>1, <2>2 DEF Deliver, Proc_Msg
<1>7. CASE Miss
  BY <1>5, <1>7 DEF Miss, Lossless
<1>8. CASE UNCHANGED vars
  BY <1>1, <1>8, PostedKept
     DEF vars, ctl, maj, bus, life, Exact, Track, Synced, Ident, IdTrue, WildId, FrameId,
         NoTornFrame, Built, SentIn, Present, Passed, Closed, FrameCycle, Complete
<1> QED
  BY <1>2, <1>3, <1>4, <1>6, <1>7, <1>8 DEF Next

LEMMA ExactInvariance == Lossless => (Spec => []Exact)
<1> SUFFICES ASSUME Lossless PROVE Spec => []Exact
  OBVIOUS
<1>1. IInv /\ IInv' /\ Ages /\ Exact /\ [Next]_vars => Exact'
  BY NextExact
<1>2. Spec => []Ages
  BY AgesInvariance DEF Lossless
<1> QED
  BY <1>1, <1>2, InitExact, Invariance, PTL DEF Spec

(* Without loss no frame anywhere mixes two bus cycles.                    *)
THEOREM FramesUntorn == Lossless => (Spec => []NoTornFrame)
<1>1. Exact => NoTornFrame
  BY DEF Exact
<1> QED
  BY <1>1, ExactInvariance, PTL

(* Without loss, whatever the minor ids, a major frame built in step with  *)
(* the bus is posted whole, each slot from its own cycle of one pass.      *)
THEOREM PostsExact == Lossless => (Spec => []PostedMajorExact)
<1>1. Exact => PostedMajorExact
  BY DEF Exact, Synced
<1> QED
  BY <1>1, ExactInvariance, PTL

(* Without failing writes either: the file holds cycle after cycle of the  *)
(* bus, and the frame under construction comes next.                       *)
IsBus(c) ==
    /\ \A n \in 1 .. Len(file) : SentIn(file[n], c + n)
    /\ \A n \in 2 .. Len(file) : n < Len(file) \/ alive => Complete(file[n])
    /\ alive => c + Len(file) < cycle /\ SentIn(minor_buf, c + Len(file) + 1)
    /\ ~alive => c + Len(file) <= cycle

FileExact ==
    file # <<>> => StoreData /\ status # -1 /\ \E c \in 0 .. cycle : IsBus(c)

(* The frame that is written follows those before.                         *)
LEMMA AppendExact ==
    ASSUME TypeOK, alive, NEW c \in 0 .. cycle, file # <<>> => IsBus(c),
           SentIn(minor_buf, c + Len(file) + 1), c + Len(file) + 1 <= cycle,
           file' = Append(file, Framing(minor_buf)),
           alive' /\ file # <<>> => Complete(minor_buf),
           cycle <= cycle', cycle' \in Nat,
           alive' => /\ c + Len(file) + 1 < cycle'
                     /\ SentIn(minor_buf', c + Len(file) + 2)
    PROVE  IsBus(c)'
<1>1. file \in Seq(Frames) /\ minor_buf \in Frames /\ cycle \in Nat \ {0}
  BY DEF TypeOK
<1>2. /\ Len(file') = Len(file) + 1 /\ Len(file) \in Nat
      /\ \A n \in 1 .. Len(file) : file'[n] = file[n]
      /\ file'[Len(file) + 1] = Framing(minor_buf)
  BY <1>1, FramingType
<1>3. /\ SentIn(Framing(minor_buf), c + Len(file) + 1)
      /\ Complete(Framing(minor_buf)) <=> Complete(minor_buf)
  BY <1>1, FramingExact
<1>4. /\ \A n \in 1 .. Len(file) : SentIn(file[n], c + n)
      /\ \A n \in 2 .. Len(file) : Complete(file[n])
      /\ file = <<>> => Len(file) = 0
  BY <1>1, <1>2 DEF IsBus
<1>5. ASSUME NEW n \in 1 .. Len(file') PROVE SentIn(file'[n], c + n)
  <2>1. CASE n = Len(file) + 1
    <3>1. c + n = c + Len(file) + 1
      BY <1>2, <2>1
    <3> QED
      BY <1>2, <1>3, <2>1, <3>1
  <2>2. CASE n \in 1 .. Len(file)
    BY <1>2, <1>4, <2>2
  <2> QED
    BY <1>2, <2>1, <2>2
<1>6. ASSUME NEW n \in 2 .. Len(file'), n < Len(file') \/ alive' PROVE Complete(file'[n])
  <2>1. CASE n = Len(file) + 1
    <3>1. file # <<>> /\ alive'
      BY <1>2, <1>4, <1>6, <2>1
    <3> QED
      BY <1>2, <1>3, <2>1, <3>1
  <2>2. CASE n \in 2 .. Len(file)
    BY <1>2, <1>4, <2>2
  <2> QED
    BY <1>2, <2>1, <2>2
<1>7. /\ c + Len(file') = c + Len(file) + 1
      /\ c + Len(file') + 1 = c + Len(file) + 2
  BY <1>1, <1>2
<1>8. /\ alive' => c + Len(file') < cycle' /\ SentIn(minor_buf', c + Len(file') + 1)
      /\ ~alive' => c + Len(file') <= cycle'
  BY <1>1, <1>2, <1>7
<1> QED
  BY <1>5, <1>6, <1>8 DEF IsBus, SentIn, Complete, Present

(* The bus moves on and the frame under construction grows. *)
LEMMA GrowExact ==
    ASSUME TypeOK, FileExact, UNCHANGED <<status, file, alive>>,
           cycle <= cycle', cycle' \in Nat,
           file # <<>> /\ alive => \A c \in 0 .. cycle :
               SentIn(minor_buf, c + Len(file) + 1) => SentIn(minor_buf', c + Len(file) + 1)
    PROVE  FileExact'
<1> SUFFICES ASSUME file # <<>> PROVE FileExact'
  BY DEF FileExact
<1>1. cycle \in Nat /\ file \in Seq(Frames) /\ Len(file) \in Nat
  BY DEF TypeOK
<1>2. PICK c \in 0 .. cycle : IsBus(c)
  BY DEF FileExact
<1>3. c \in 0 .. cycle'
  BY <1>1
<1>4. /\ alive' => c + Len(file') < cycle' /\ SentIn(minor_buf', c + Len(file') + 1)
      /\ ~alive' => c + Len(file') <= cycle'
  BY <1>1, <1>2 DEF IsBus
<1>5. IsBus(c)'
  BY <1>2, <1>4 DEF IsBus, SentIn, Complete, Present
<1> QED
  BY <1>3, <1>5 DEF FileExact

LEMMA NextFileExact ==
    ASSUME Lossless, ~DiskFails, IInv, IInv', Ages, Exact, FileExact, [Next]_vars
    PROVE  FileExact'
<1>1. /\ TypeOK /\ cycle \in Nat \ {0} /\ cycle' \in Nat /\ minor_buf \in Frames
      /\ Len(file) \in Nat
      /\ Track /\ Ident /\ NoTornFrame /\ Held
  BY DEF IInv, TypeOK, Exact, Ages
<1>2. ASSUME Write_Minor_Data
      PROVE  file' = IF status # -1 /\ StoreData THEN Append(file, Framing(minor_buf)) ELSE file
  BY <1>2 DEF Write_Minor_Data
<1>3. ASSUME NEW opened \in BOOLEAN, Configure(opened) PROVE FileExact'
  BY <1>3 DEF Configure, FileExact
<1>4. CASE Stop
  BY <1>1, <1>4, GrowExact DEF Stop, ctl, bus
<1>5. CASE Exit
  <2>0. /\ alive /\ ~alive' /\ UNCHANGED <<status, minor_buf, cycle>>
        /\ file' = IF status # -1 /\ StoreData THEN Append(file, Framing(minor_buf)) ELSE file
    BY <1>2, <1>5 DEF Exit, ctl, bus
  <2>1. CASE status # -1 /\ StoreData
    <3>1. PICK c \in 0 .. cycle :
            /\ file # <<>> => IsBus(c)
            /\ SentIn(minor_buf, c + Len(file) + 1) /\ c + Len(file) + 1 <= cycle
      <4>1. CASE file = <<>>
        <5>1. PICK b \in 0 .. cycle : SentIn(minor_buf, b)
          BY <1>1, TornParts DEF Untorn
        <5>2. CASE b = 0
          <6>1. SentIn(minor_buf, 0 + Len(file) + 1)
            BY <5>1, <5>2 DEF SentIn, Present
          <6> QED
            BY <1>1, <4>1, <6>1
        <5>3. CASE b # 0
          <6>1. b - 1 \in 0 .. cycle /\ (b - 1) + Len(file) + 1 = b /\ b <= cycle
            BY <1>1, <4>1, <5>3
          <6> QED
            BY <4>1, <5>1, <6>1
        <5> QED
          BY <5>2, <5>3
      <4>2. CASE file # <<>>
        <5>1. PICK c \in 0 .. cycle : IsBus(c)
          BY <4>2 DEF FileExact
        <5>2. SentIn(minor_buf, c + Len(file) + 1) /\ c + Len(file) + 1 <= cycle
          BY <1>1, <2>0, <5>1 DEF IsBus
        <5> QED
          BY <5>1, <5>2
      <4> QED
        BY <4>1, <4>2
    <3>2. IsBus(c)'
      BY <1>1, <2>0, <2>1, <3>1, AppendExact
    <3> QED
      BY <2>0, <2>1, <3>2 DEF FileExact
  <2>2. CASE ~(status # -1 /\ StoreData)
    BY <2>0, <2>2 DEF FileExact
  <2> QED
    BY <2>1, <2>2
<1>6. ASSUME Advance, UNCHANGED <<status, file, ctl, life>> PROVE FileExact'
  <2>1. cycle <= cycle' /\ UNCHANGED <<status, file, alive, minor_buf>>
    BY <1>1, <1>6, AdvanceType DEF ctl, life
  <2> QED
    BY <1>1, <2>1, GrowExact
<1>7. CASE Deliver
  <2>0. /\ Advance /\ registered /\ alive /\ UNCHANGED <<status, life>>
        /\ alive' /\ cycle <= cycle'
    BY <1>1, <1>7, AdvanceType DEF Deliver, Advance, life
  <2>1. ASSUME NEW i \in Indices, Get_Msg_Index(Schedule[pos], i),
               NEW cell \in BusCells(i), Put_Minor_Data(i, cell)
        PROVE  FileExact'
    <3>1. /\ SentIn(minor_buf', cycle)
          /\ Boundary(i) =>
               /\ prev_msg_index \in Present(minor_buf)
               /\ SentIn(minor_buf, FrameCycle) /\ FrameCycle + 1 = cycle
               /\ Closed => Complete(minor_buf)
          /\ ~Boundary(i) /\ prev_msg_index # -1 => FrameCycle = cycle
      BY <2>0, <2>1, MinorExact
    <3>2. ASSUME NEW c \in 0 .. cycle, SentIn(minor_buf, c + Len(file) + 1),
                 prev_msg_index \in Present(minor_buf)
          PROVE  FrameCycle = c + Len(file) + 1
      BY <3>2 DEF SentIn, FrameCycle
    <3>3. CASE ~Boundary(i)
      <4>1. file' = file
        BY <2>1, <3>3 DEF Put_Minor_Data
      <4>2. ASSUME file # <<>>, NEW c \in 0 .. cycle, SentIn(minor_buf, c + Len(file) + 1)
            PROVE  SentIn(minor_buf', c + Len(file) + 1)
        <5>1. prev_msg_index # -1 /\ prev_msg_index \in Present(minor_buf)
          BY <1>1, <2>0, <4>2 DEF Held
        <5> QED
          BY <3>1, <3>2, <3>3, <4>2, <5>1
      <4> QED
        BY <1>1, <2>0, <4>1, <4>2, GrowExact DEF life
    <3>4. CASE Boundary(i) /\ status # -1 /\ StoreData
      <4>1. file' = Append(file, Framing(minor_buf))
        BY <1>2, <2>1, <3>4 DEF Put_Minor_Data
      <4>2. FrameCycle \in Nat \ {0}
        BY <1>1, <3>1, <3>4, CycType DEF FrameCycle, Present
      <4>3. PICK c \in 0 .. cycle : (file # <<>> => IsBus(c)) /\ FrameCycle = c + Len(file) + 1
        <5>1. CASE file = <<>>
          <6>1. FrameCycle - 1 \in 0 .. cycle /\ FrameCycle = (FrameCycle - 1) + Len(file) + 1
            BY <1>1, <3>1, <3>4, <4>2, <5>1
          <6> QED
            BY <5>1, <6>1
        <5>2. CASE file # <<>>
          <6>1. PICK c \in 0 .. cycle : IsBus(c)
            BY <5>2 DEF FileExact
          <6>2. FrameCycle = c + Len(file) + 1
            BY <2>0, <3>1, <3>2, <3>4, <6>1 DEF IsBus
          <6> QED
            BY <6>1, <6>2
        <5> QED
          BY <5>1, <5>2
      <4>4. /\ SentIn(minor_buf, c + Len(file) + 1) /\ c + Len(file) + 1 <= cycle
            /\ c + Len(file) + 2 = cycle /\ c + Len(file) + 1 < cycle'
        BY <1>1, <2>0, <3>1, <3>4, <4>2, <4>3
      <4>5. SentIn(minor_buf', c + Len(file) + 2)
        BY <3>1, <4>4
      <4>6. file # <<>> => Complete(minor_buf)
        BY <2>0, <3>1, <3>4 DEF Closed
      <4>7. IsBus(c)'
        BY <1>1, <2>0, <4>1, <4>3, <4>4, <4>5, <4>6, AppendExact
      <4>8. c \in 0 .. cycle' /\ status' # -1
        BY <1>1, <2>0, <3>4
      <4> QED
        BY <3>4, <4>7, <4>8 DEF FileExact
    <3>5. CASE Boundary(i) /\ ~(status # -1 /\ StoreData)
      <4>1. file' = file /\ file = <<>>
        BY <1>2, <2>1, <3>5 DEF Put_Minor_Data, FileExact
      <4> QED
        BY <4>1 DEF FileExact
    <3> QED
      BY <3>3, <3>4, <3>5
  <2> QED
    BY <1>6, <1>7, <2>0, <2>1 DEF Deliver, Proc_Msg
<1>8. CASE Miss
  BY <1>6, <1>8 DEF Miss
<1>9. CASE UNCHANGED vars
  BY <1>1, <1>9, GrowExact DEF vars, ctl, bus, life
<1> QED
  BY <1>3, <1>4, <1>5, <1>7, <1>8, <1>9 DEF Next

(* Without loss and without failing writes the file is the bus, frame by   *)
(* frame; only its first frame and the destructor's may be partial.        *)
THEOREM FileExactlyTheBus == Lossless /\ ~DiskFails => (Spec => []FileIsTheBus)
<1> SUFFICES ASSUME Lossless, ~DiskFails PROVE Spec => []FileIsTheBus
  OBVIOUS
<1>1. Init => FileExact
  BY DEF Init, FileExact
<1>2. IInv /\ IInv' /\ Ages /\ Exact /\ FileExact /\ [Next]_vars => FileExact'
  BY NextFileExact
<1>3. IInv /\ FileExact => FileIsTheBus
  <2> SUFFICES ASSUME IInv, FileExact PROVE FileIsTheBus
    OBVIOUS
  <2>1. cycle \in Nat /\ Len(file) \in Nat /\ (file = <<>> => Len(file) = 0)
    BY DEF IInv, TypeOK
  <2>2. CASE file = <<>>
    BY <2>1, <2>2 DEF FileIsTheBus
  <2>3. CASE file # <<>>
    <3>1. PICK c \in 0 .. cycle : IsBus(c)
      BY <2>3 DEF FileExact
    <3>2. ASSUME NEW n \in 1 .. Len(file)
          PROVE  \E d \in 1 .. cycle :
                    /\ SentIn(file[n], d)
                    /\ n < Len(file) => SentIn(file[n + 1], d + 1)
                    /\ n = Len(file) /\ alive => SentIn(minor_buf, d + 1)
      <4>1. c + n \in 1 .. cycle /\ c + (n + 1) = (c + n) + 1
        BY <2>1, <3>1 DEF IsBus
      <4>2. SentIn(file[n], c + n)
        BY <3>1 DEF IsBus
      <4>3. n < Len(file) => SentIn(file[n + 1], (c + n) + 1)
        <5>1. n < Len(file) => n + 1 \in 1 .. Len(file)
          BY <2>1
        <5> QED
          BY <3>1, <4>1, <5>1 DEF IsBus
      <4>4. n = Len(file) /\ alive => SentIn(minor_buf, (c + n) + 1)
        BY <3>1 DEF IsBus
      <4> QED
        BY <4>1, <4>2, <4>3, <4>4
    <3>3. \A n \in 2 .. Len(file) : n < Len(file) \/ alive => Complete(file[n])
      BY <3>1 DEF IsBus
    <3> QED
      BY <3>2, <3>3 DEF FileIsTheBus
  <2> QED
    BY <2>2, <2>3
<1>4. Spec => []Exact /\ []Ages
  BY ExactInvariance, AgesInvariance, PTL DEF Lossless
<1> QED
  BY <1>1, <1>2, <1>3, <1>4, Invariance, PTL DEF Spec

=============================================================================
