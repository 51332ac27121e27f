---------------------------- MODULE ReaderProofs ----------------------------
(***************************************************************************)
(* What clients read of an acquisition that writes: the bus statistics,    *)
(* for any number of terminals, subaddresses and messages; the real-time   *)
(* buffer, for major frames of any number of slots; and the bus file, for  *)
(* any command words, wherever the disk's copy of it ends: the list and    *)
(* the Output of the data analysis window, and the boxes a combination is  *)
(* selected with.                                                          *)
(***************************************************************************)
EXTENDS MCReaders, ListProofs, FiniteSetTheorems

USE DEF Boxes, Tags, Box

LEMMA RTsFinite == IsFiniteSet(RTs) /\ RTs # {} /\ SAs # {}
  BY StatsAssumption

(* The terminals alive are finitely many. *)
LEMMA AliveFinite ==
    ASSUME NEW table
    PROVE  IsFiniteSet(Alive(table)) /\ Cardinality(Alive(table)) \in Nat
<1>1. Alive(table) \in SUBSET RTs
  BY DEF Alive
<1>2. IsFiniteSet(Alive(table))
  BY <1>1, RTsFinite, FS_Subset
<1> QED
  BY <1>2, FS_CardinalityType

(* Incrementing a box, which is -1 or a count, brings its terminal to life *)
(* and no other.                                                           *)
LEMMA AliveAfterCount ==
    ASSUME NEW table \in [Boxes -> Nat \cup {-1}], NEW r \in RTs, NEW s \in SAs
    PROVE  LET next == [table EXCEPT ![<<r, s>>] = @ + 1]
               new  == \A t \in SAs : table[<<r, t>>] = -1
           IN  /\ next \in [Boxes -> Nat \cup {-1}]
               /\ Alive(next) = Alive(table) \cup {r}
               /\ Cardinality(Alive(next)) =
                    Cardinality(Alive(table)) + (IF new THEN 1 ELSE 0)
<1> DEFINE next == [table EXCEPT ![<<r, s>>] = @ + 1]
           new  == \A t \in SAs : table[<<r, t>>] = -1
<1>1. next \in [Boxes -> Nat \cup {-1}]
  OBVIOUS
<1>2. next[<<r, s>>] # -1
  OBVIOUS
<1>3. \A q \in RTs, t \in SAs : <<q, t>> # <<r, s>> => next[<<q, t>>] = table[<<q, t>>]
  OBVIOUS
<1>4. Alive(next) = Alive(table) \cup {r}
  <2>1. r \in Alive(next)
    BY <1>2 DEF Alive
  <2>2. \A q \in RTs : q # r => (q \in Alive(next) <=> q \in Alive(table))
    BY <1>3 DEF Alive
  <2> QED
    BY <2>1, <2>2 DEF Alive
<1>5. r \in Alive(table) <=> ~new
  BY DEF Alive
<1>6. Cardinality(Alive(table) \cup {r}) =
        IF r \in Alive(table) THEN Cardinality(Alive(table))
        ELSE Cardinality(Alive(table)) + 1
  BY AliveFinite, FS_AddElement
<1>7. Cardinality(Alive(table)) \in Nat
  BY AliveFinite
<1>8. Cardinality(Alive(next)) = Cardinality(Alive(table)) + (IF new THEN 1 ELSE 0)
  <2>1. Cardinality(Alive(next)) = Cardinality(Alive(table) \cup {r})
    BY <1>4
  <2> HIDE DEF next, new
  <2>2. CASE new
    BY <1>5, <1>6, <2>1, <2>2
  <2>3. CASE ~new
    BY <1>5, <1>6, <1>7, <2>1, <2>3
  <2> QED
    BY <2>2, <2>3
<1> QED
  BY <1>1, <1>4, <1>8

-----------------------------------------------------------------------------
(* The inductive invariant.  Between acquisitions the counters keep what   *)
(* the last one left; before the first the tables are zero, which counts   *)
(* as every terminal alive, so the number of live terminals is only        *)
(* bounded.  While a reply is copied, what was copied already is bounded   *)
(* by what is still to be copied, because counters only grow meanwhile.    *)
AliveBound ==
    /\ on = 1 => acq # "none"
    /\ acq # "none" =>
         noRTAlive = Cardinality(Alive(rtSub))
                       + (IF acq = "box" /\ TerminalIsNew(tag) THEN 1 ELSE 0)
    /\ acq = "none" => noRTAlive <= Cardinality(Alive(rtSub))

CopyBound ==
    /\ main = "valid" => snap.noOfMessages <= noOfValidMessages + noOfInvalidMessages + 1
    /\ main = "invalid" => snap.noOfMessages <= snap.noOfValidMessages + noOfInvalidMessages + 1
    /\ main \in {"rtSub", "rtInvalid", "reply"} =>
         snap.noOfMessages <= snap.noOfValidMessages + snap.noOfInvalidMessages + 1
    /\ main \in {"messages", "valid", "invalid", "rtSub"} =>
         snap.noRTAlive <= Cardinality(Alive(rtSub)) + 1
    /\ main \in {"rtInvalid", "reply"} =>
         snap.noRTAlive <= Cardinality(Alive(snap.rtSub)) + 1

IInv == TypeOK /\ MessagesAddUp /\ AliveBound /\ CopyBound

LEMMA InitInv == Init => IInv
<1> SUFFICES ASSUME Init PROVE IInv
  OBVIOUS
<1>1. NoSnap \in Snapshots
  BY DEF NoSnap, NoCounts, Snapshots, Tables
<1>2. TypeOK
  BY <1>1 DEF Init, TypeOK
<1>3. Cardinality(Alive(rtSub)) \in Nat
  BY AliveFinite
<1> QED
  BY <1>2, <1>3 DEF Init, IInv, MessagesAddUp, AliveBound, CopyBound

(* A step that counts something while a reply is copied: the counts not    *)
(* yet copied do not shrink.                                               *)
LEMMA CopyBoundKept ==
    ASSUME TypeOK, CopyBound, UNCHANGED <<main, snap>>,
           noOfValidMessages' \in Nat, noOfInvalidMessages' \in Nat,
           noOfValidMessages <= noOfValidMessages',
           noOfInvalidMessages <= noOfInvalidMessages',
           Cardinality(Alive(rtSub)) <= Cardinality(Alive(rtSub'))
    PROVE  CopyBound'
<1>1. Cardinality(Alive(rtSub)) \in Nat /\ Cardinality(Alive(rtSub')) \in Nat
  BY AliveFinite
<1>2. /\ snap.noOfMessages \in Nat /\ snap.noRTAlive \in Nat
      /\ snap.noOfValidMessages \in Nat /\ snap.noOfInvalidMessages \in Nat
      /\ noOfValidMessages \in Nat /\ noOfInvalidMessages \in Nat
  BY DEF TypeOK, Snapshots
<1> QED
  BY <1>1, <1>2 DEF CopyBound

LEMMA NextInv == IInv /\ [Next]_vars => IInv'
<1> SUFFICES ASSUME IInv, [Next]_vars PROVE IInv'
  OBVIOUS
<1>0. /\ TypeOK /\ MessagesAddUp /\ AliveBound /\ CopyBound
      /\ Cardinality(Alive(rtSub)) \in Nat
  BY AliveFinite DEF IInv
<1>1. ASSUME NEW t \in Tags, Receive(t) PROVE IInv'
  <2>1. TypeOK'
    BY <1>0, <1>1 DEF Receive, TypeOK, counters
  <2>2. MessagesAddUp' /\ AliveBound'
    BY <1>0, <1>1 DEF Receive, MessagesAddUp, AliveBound, TerminalIsNew, counters
  <2>3. CopyBound'
    BY <1>0, <1>1, CopyBoundKept DEF Receive, TypeOK, counters
  <2> QED
    BY <2>1, <2>2, <2>3 DEF IInv
<1>2. CASE CountMessage
  <2>1. TypeOK'
    BY <1>0, <1>2 DEF CountMessage, TypeOK
  <2>2. MessagesAddUp' /\ AliveBound'
    BY <1>0, <1>2 DEF CountMessage, MessagesAddUp, AliveBound, TypeOK
  <2>3. CopyBound'
    BY <1>0, <1>2, CopyBoundKept DEF CountMessage, TypeOK
  <2> QED
    BY <2>1, <2>2, <2>3 DEF IInv
<1>3. CASE CountInvalidBox
  <2>1. tag.rt \in RTs /\ tag.sa \in SAs
    BY <1>0 DEF TypeOK
  <2>2. rtInvalid' \in [Boxes -> Nat \cup {-1}]
    BY <1>0, <1>3, <2>1, AliveAfterCount DEF CountInvalidBox, TypeOK
  <2>3. TypeOK'
    BY <1>0, <1>3, <2>2 DEF CountInvalidBox, TypeOK
  <2>4. MessagesAddUp' /\ AliveBound'
    BY <1>0, <1>3 DEF CountInvalidBox, MessagesAddUp, AliveBound, TypeOK
  <2>5. CopyBound'
    BY <1>0, <1>3, CopyBoundKept DEF CountInvalidBox, TypeOK
  <2> QED
    BY <2>3, <2>4, <2>5 DEF IInv
<1>4. CASE CountInvalid
  <2>1. TypeOK'
    BY <1>0, <1>4 DEF CountInvalid, TypeOK
  <2>2. MessagesAddUp' /\ AliveBound'
    BY <1>0, <1>4 DEF CountInvalid, MessagesAddUp, AliveBound, TypeOK
  <2>3. CopyBound'
    BY <1>0, <1>4, CopyBoundKept DEF CountInvalid, TypeOK
  <2> QED
    BY <2>1, <2>2, <2>3 DEF IInv
<1>5. CASE CountValid
  <2>1. TypeOK'
    BY <1>0, <1>5 DEF CountValid, TypeOK
  <2>2. MessagesAddUp' /\ AliveBound'
    BY <1>0, <1>5 DEF CountValid, MessagesAddUp, AliveBound, TypeOK
  <2>3. CopyBound'
    BY <1>0, <1>5, CopyBoundKept DEF CountValid, TypeOK
  <2> QED
    BY <2>1, <2>2, <2>3 DEF IInv
<1>6. CASE CountAlive
  <2>1. TypeOK'
    BY <1>0, <1>6 DEF CountAlive, TypeOK
  <2>2. MessagesAddUp'
    BY <1>0, <1>6 DEF CountAlive, MessagesAddUp
  <2>3. AliveBound'
    BY <1>0, <1>6 DEF CountAlive, AliveBound, TerminalIsNew, TypeOK
  <2>4. CopyBound'
    BY <1>0, <1>6, CopyBoundKept DEF CountAlive, TypeOK
  <2> QED
    BY <2>1, <2>2, <2>3, <2>4 DEF IInv
<1>7. CASE CountBox
  <2>1. tag.rt \in RTs /\ tag.sa \in SAs
    BY <1>0 DEF TypeOK
  <2>2. rtSub' = [rtSub EXCEPT ![<<tag.rt, tag.sa>>] = @ + 1]
    BY <1>7 DEF CountBox
  <2>3. /\ rtSub' \in [Boxes -> Nat \cup {-1}]
        /\ Cardinality(Alive(rtSub')) =
             Cardinality(Alive(rtSub)) + (IF TerminalIsNew(tag) THEN 1 ELSE 0)
    <3>1. rtSub \in [Boxes -> Nat \cup {-1}]
      BY <1>0 DEF TypeOK
    <3>2. /\ [rtSub EXCEPT ![<<tag.rt, tag.sa>>] = @ + 1] \in [Boxes -> Nat \cup {-1}]
          /\ Cardinality(Alive([rtSub EXCEPT ![<<tag.rt, tag.sa>>] = @ + 1])) =
               Cardinality(Alive(rtSub))
                 + (IF \A t \in SAs : rtSub[<<tag.rt, t>>] = -1 THEN 1 ELSE 0)
      BY <2>1, <3>1, AliveAfterCount, Zenon
    <3> QED
      BY <2>2, <3>2, Zenon DEF TerminalIsNew
  <2>4. TypeOK'
    BY <1>0, <1>7, <2>3 DEF CountBox, TypeOK
  <2>5. MessagesAddUp'
    BY <1>0, <1>7 DEF CountBox, MessagesAddUp
  <2>6. AliveBound'
    <3>1. /\ acq = "box" /\ acq' = "receive"
          /\ noRTAlive' = noRTAlive
      BY <1>7 DEF CountBox
    <3>2. noRTAlive = Cardinality(Alive(rtSub)) + (IF TerminalIsNew(tag) THEN 1 ELSE 0)
      BY <1>0, <3>1 DEF AliveBound
    <3>3. noRTAlive' = Cardinality(Alive(rtSub'))
      BY <2>3, <3>1, <3>2
    <3>4. Cardinality(Alive(rtSub')) \in Nat
      BY AliveFinite
    <3>5. Alive(rtSub)' = Alive(rtSub')
      BY DEF Alive
    <3> QED
      BY <3>1, <3>3, <3>4, <3>5 DEF AliveBound
  <2>7. CopyBound'
    BY <1>0, <1>7, <2>3, CopyBoundKept DEF CountBox, TypeOK
  <2> QED
    BY <2>4, <2>5, <2>6, <2>7 DEF IInv
<1>8. CASE AcqEnds
  <2>1. TypeOK'
    BY <1>0, <1>8 DEF AcqEnds, TypeOK, counters
  <2>2. MessagesAddUp' /\ AliveBound'
    BY <1>0, <1>8 DEF AcqEnds, MessagesAddUp, AliveBound, TypeOK, counters
  <2>3. CopyBound'
    BY <1>0, <1>8, CopyBoundKept DEF AcqEnds, TypeOK, counters
  <2> QED
    BY <2>1, <2>2, <2>3 DEF IInv
<1>9. CASE Start
  <2>1. TypeOK'
    BY <1>0, <1>9 DEF Start, TypeOK, NoCounts
  <2>2. Alive(rtSub') = {}
    BY <1>9 DEF Start, NoCounts, Alive
  <2>3. Cardinality(Alive(rtSub')) = 0
    BY <2>2, FS_EmptySet
  <2>4. MessagesAddUp' /\ AliveBound'
    BY <1>9, <2>3 DEF Start, MessagesAddUp, AliveBound
  <2>5. CopyBound'
    BY <1>9 DEF Start, CopyBound
  <2> QED
    BY <2>1, <2>4, <2>5 DEF IInv
<1>10. CASE Stop
  <2>1. TypeOK'
    BY <1>0, <1>10 DEF Stop, TypeOK, counters
  <2>2. MessagesAddUp' /\ AliveBound'
    BY <1>0, <1>10 DEF Stop, MessagesAddUp, AliveBound, TerminalIsNew, counters
  <2>3. CopyBound'
    BY <1>0, <1>10 DEF Stop, CopyBound
  <2> QED
    BY <2>1, <2>2, <2>3 DEF IInv
<1>11. CASE CurrReq
  <2>1. TypeOK'
    BY <1>0, <1>11 DEF CurrReq, TypeOK, Snapshots, counters
  <2>2. MessagesAddUp' /\ AliveBound'
    BY <1>0, <1>11 DEF CurrReq, MessagesAddUp, AliveBound, TerminalIsNew, counters
  <2>3. noRTAlive <= Cardinality(Alive(rtSub)) + 1
    BY <1>0 DEF AliveBound, TypeOK
  <2>4. CopyBound'
    BY <1>0, <1>11, <2>3 DEF CurrReq, CopyBound, TypeOK, Snapshots, counters
  <2> QED
    BY <2>1, <2>2, <2>4 DEF IInv
<1>12. CASE CopyStep
  <2>1. /\ UNCHANGED <<counters, acq, tag, on>>
        /\ TypeOK'
    BY <1>0, <1>12 DEF CopyStep, CopyMessages, CopyValid, CopyInvalid, CopySub,
       CopyInvalidTable, ReplyTaken, TypeOK, Snapshots, Tables, NoSnap, NoCounts, counters
  <2>2. MessagesAddUp' /\ AliveBound'
    BY <1>0, <2>1 DEF MessagesAddUp, AliveBound, TerminalIsNew, counters
  <2>3. CopyBound'
    <3>1. CASE CopyMessages
      BY <1>0, <3>1 DEF CopyMessages, CopyBound, MessagesAddUp, TypeOK, Snapshots, counters
    <3>2. CASE CopyValid
      BY <1>0, <3>2 DEF CopyValid, CopyBound, TypeOK, Snapshots, counters
    <3>3. CASE CopyInvalid
      BY <1>0, <3>3 DEF CopyInvalid, CopyBound, TypeOK, Snapshots, counters
    <3>4. CASE CopySub
      BY <1>0, <3>4 DEF CopySub, CopyBound, TypeOK, Snapshots, counters
    <3>5. CASE CopyInvalidTable
      BY <1>0, <3>5 DEF CopyInvalidTable, CopyBound, TypeOK, Snapshots, counters
    <3>6. CASE ReplyTaken
      BY <3>6 DEF ReplyTaken, CopyBound
    <3> QED
      BY <1>12, <3>1, <3>2, <3>3, <3>4, <3>5, <3>6 DEF CopyStep
  <2> QED
    BY <2>1, <2>2, <2>3 DEF IInv
<1>13. CASE UNCHANGED vars
  BY <1>13 DEF IInv, TypeOK, MessagesAddUp, AliveBound, CopyBound, TerminalIsNew,
               vars, counters
<1> QED
  BY <1>1, <1>2, <1>3, <1>4, <1>5, <1>6, <1>7, <1>8, <1>9, <1>10, <1>11, <1>12, <1>13
     DEF Next, DataCheck

LEMMA Invariance == Spec => []IInv
  BY InitInv, NextInv, PTL DEF Spec

-----------------------------------------------------------------------------
(* The statistics stay in their types. *)
THEOREM TypeCorrect == Spec => []TypeOK
<1>1. IInv => TypeOK
  BY DEF IInv
<1> QED
  BY <1>1, Invariance, PTL

(* Valid and invalid messages always add up to the messages, and the       *)
(* number of live terminals is the number of terminals with a count, for   *)
(* any number of terminals.                                                *)
THEOREM AddUp == Spec => []CountersAddUp
<1>1. IInv => MessagesAddUp
  BY DEF IInv
<1>2. IInv => AliveExact
  BY DEF IInv, AliveBound, AliveExact, TypeOK
<1>3. IInv => CountersAddUp
  BY <1>1, <1>2 DEF CountersAddUp
<1> QED
  BY <1>3, Invariance, PTL

(* A torn reply is torn in one direction only. *)
THEOREM RepliesOrdered == Spec => []SnapshotOrdered
<1>1. IInv => SnapshotOrdered
  BY DEF IInv, CopyBound, SnapshotOrdered
<1> QED
  BY <1>1, Invariance, PTL

-----------------------------------------------------------------------------
(* The real-time buffer, which implements FrameRegister although nothing   *)
(* protects it.                                                            *)

RealTimeInv == RealTimeTypeOK /\ Window

LEMMA InitRealTime == RealTimeInit => RealTimeInv
<1> SUFFICES ASSUME RealTimeInit PROVE RealTimeTypeOK /\ Window
  BY DEF RealTimeInv
<1>1. RealTimeTypeOK
  BY DEF RealTimeInit, RealTimeTypeOK
<1>2. \A s \in Slots : global_buf[s] = 0 /\ reply[s] = 0
  BY DEF RealTimeInit
<1>3. Stored(0) = 0 /\ ~Answered
  BY DEF RealTimeInit, Stored, Answered
<1>4. Window
  BY <1>2, <1>3 DEF RealTimeInit, Window
<1> QED
  BY <1>1, <1>4

LEMMA NextRealTime == RealTimeInv /\ [RealTimeNext]_realTimeVars => RealTimeInv'
<1> SUFFICES ASSUME RealTimeTypeOK, Window, [RealTimeNext]_realTimeVars PROVE RealTimeTypeOK' /\ Window'
  BY DEF RealTimeInv
<1> USE DEF storage, request
<1>0. begun \in Nat /\ base \in Nat /\ low \in Nat
  BY DEF RealTimeTypeOK
<1>1. CASE PostBegins
  <2>1. RealTimeTypeOK'
    BY <1>1 DEF PostBegins, RealTimeTypeOK
  <2>2. /\ ~posting /\ posting' /\ begun' = begun + 1 /\ todo' = Slots /\ todo = {}
        /\ UNCHANGED <<global_buf, data_rdy, base, request>>
    BY <1>1 DEF PostBegins, Window
  <2>3. done' = done /\ begun' - 1 = begun /\ \A n : Stored(n)' = Stored(n)
    BY <1>0, <2>2 DEF done, Stored
  <2>4. \A s \in Slots : global_buf'[s] = Stored(IF s \in todo' THEN begun' - 1 ELSE begun')
    <3>1. \A s \in Slots : global_buf[s] = Stored(begun)
      BY <2>2 DEF Window
    <3> QED
      BY <2>2, <2>3, <3>1
  <2>5. Answered' = Answered /\ \A n : Recent(n) => Recent(n)'
    <3>1. Answered' = Answered /\ low' = low
      BY <2>2 DEF Answered
    <3>2. low .. begun \subseteq low .. begun'
      BY <1>0, <2>2
    <3> QED
      BY <2>2, <3>1, <3>2 DEF Recent
  <2>6. base' <= begun' /\ base' < begun'
    BY <1>0, <2>2 DEF Window
  <2> HIDE DEF done, Answered, Recent, Stored
  <2> QED
    BY <2>1, <2>2, <2>3, <2>4, <2>5, <2>6 DEF Window
<1>2. ASSUME NEW s \in Slots, PostSlot(s) PROVE RealTimeTypeOK' /\ Window'
  <2>1. RealTimeTypeOK'
    BY <1>2 DEF PostSlot, RealTimeTypeOK
  <2>2. /\ begun' = begun /\ posting' = posting /\ posting /\ base < begun
        /\ done' = done /\ Answered' = Answered /\ todo' = todo \ {s} /\ s \in todo
        /\ UNCHANGED <<data_rdy, base, answering, left, reply, status, low>>
        /\ \A n : (Recent(n)' <=> Recent(n)) /\ Stored(n)' = Stored(n)
    BY <1>2 DEF PostSlot, done, Answered, Window, Recent, Stored
  <2>3. /\ global_buf'[s] = begun /\ Stored(begun) = begun
        /\ \A t \in Slots : t # s => global_buf'[t] = global_buf[t]
    BY <1>0, <1>2, <2>2 DEF PostSlot, RealTimeTypeOK, Stored
  <2>4. \A t \in Slots : global_buf'[t] = Stored(IF t \in todo' THEN begun - 1 ELSE begun)
    BY <2>2, <2>3 DEF Window
  <2>5. \A t \in Slots : reply'[t] <= base \/ reply'[t] <= global_buf'[t]
    <3>1. global_buf[s] <= begun
      BY <1>0, <2>2 DEF Window, Stored
    <3> QED
      BY <1>0, <2>2, <2>3, <3>1 DEF Window, RealTimeTypeOK
  <2>6. \A t \in Slots : reply'[t] = reply[t]
    BY <2>2
  <2> HIDE DEF done, Answered, Recent, Stored
  <2> QED
    BY <2>1, <2>2, <2>4, <2>5, <2>6 DEF Window
<1>3. CASE PostEnds
  <2>1. RealTimeTypeOK'
    BY <1>3 DEF PostEnds, RealTimeTypeOK
  <2>2. /\ ~posting' /\ posting /\ todo' = todo /\ todo = {} /\ base < begun
        /\ UNCHANGED <<begun, base, global_buf, answering, left, reply, status, low>>
    BY <1>3 DEF PostEnds, Window
  <2>3. /\ done <= done' /\ Answered' = Answered
        /\ \A n : (Recent(n)' <=> Recent(n)) /\ Stored(n)' = Stored(n)
    BY <1>0, <2>2 DEF done, Stored, Answered, Recent
  <2>4. answering = "copy" => low <= done'
    BY <1>0, <2>2, <2>3 DEF Window, done, Stored
  <2> HIDE DEF done, Answered, Recent, Stored
  <2> QED
    BY <2>1, <2>2, <2>3, <2>4 DEF Window
<1>4. CASE RealReq
  <2>1. RealTimeTypeOK'
    BY <1>0, <1>4 DEF RealReq, RealTimeTypeOK, done, Stored, Window
  <2>2. /\ UNCHANGED <<global_buf, data_rdy, posting, begun, base, todo, reply>>
        /\ answering = "idle" /\ done' = done /\ \A n : Stored(n)' = Stored(n)
        /\ \/ answering' = "copy" /\ left' = Slots /\ low' = done /\ status' = status
           \/ answering' = "reply" /\ status' = 2
    BY <1>4 DEF RealReq, done, Stored
  <2>3. done = 0 \/ done > base
    BY DEF done, Stored
  <2>4. ~Answered'
    BY <2>2 DEF Answered, Window
  <2>5. answering' = "copy" => left' # {} /\ low' <= done' /\ (low' = 0 \/ low' > base')
    BY <1>0, <2>1, <2>2, <2>3, RealTimeAssumption DEF RealTimeTypeOK
  <2> HIDE DEF done, Answered, Recent, Stored
  <2> QED
    BY <2>1, <2>2, <2>4, <2>5 DEF Window
<1>5. ASSUME NEW s \in Slots, CopySlot(s) PROVE RealTimeTypeOK' /\ Window'
  <2>1. RealTimeTypeOK'
    BY <1>5 DEF CopySlot, RealTimeTypeOK
  <2>2. /\ UNCHANGED <<global_buf, data_rdy, posting, begun, base, todo, low>>
        /\ answering = "copy" /\ s \in left /\ left' = left \ {s} /\ status = 0
        /\ reply'[s] = global_buf[s] /\ \A t \in Slots : t # s => reply'[t] = reply[t]
        /\ done' = done /\ \A n : (Recent(n)' <=> Recent(n)) /\ Stored(n)' = Stored(n)
    BY <1>5 DEF CopySlot, RealTimeTypeOK, Window, done, Recent, Stored
  <2>3. Recent(global_buf[s])
    BY <1>0, <2>2 DEF Window, done, Stored, Recent
  <2>4. /\ \A t \in Slots \ left' : Recent(reply'[t])
        /\ \A t \in Slots : reply'[t] <= base \/ reply'[t] <= global_buf'[t]
    BY <2>2, <2>3 DEF Window, RealTimeTypeOK
  <2>5. IF left' = {} THEN answering' = "reply" /\ status' = 1
        ELSE answering' = "copy" /\ status' = 0
    BY <1>5, <2>2 DEF CopySlot
  <2>6. Answered' => left' = {}
    BY <2>5 DEF Answered
  <2> HIDE DEF done, Answered, Recent, Stored
  <2> QED
    BY <2>1, <2>2, <2>4, <2>5, <2>6 DEF Window
<1>6. CASE MsgReply
  BY <1>6 DEF MsgReply, RealTimeTypeOK, Window, Answered, done, Recent, Stored
<1>7. CASE Configure
  <2>1. RealTimeTypeOK'
    BY <1>7 DEF Configure, RealTimeTypeOK
  <2>2. /\ answering = "idle" /\ ~posting /\ todo = {} /\ base' = begun
        /\ \A s \in Slots : global_buf'[s] = 0
        /\ UNCHANGED <<data_rdy, posting, begun, todo, answering, left, reply, status, low>>
    BY <1>7 DEF Configure, Window
  <2>3. Stored(begun)' = 0 /\ ~Answered' /\ answering' = "idle" /\ status' = 0
    BY <1>0, <2>2 DEF Stored, Answered, Window
  <2>4. \A s \in Slots : global_buf'[s] = Stored(IF s \in todo THEN begun - 1 ELSE begun)'
    <3>1. \A s \in Slots : (IF s \in todo THEN begun - 1 ELSE begun)' = begun'
      BY <2>2
    <3>2. \A s \in Slots : Stored(IF s \in todo THEN begun - 1 ELSE begun)' = 0
      BY <1>0, <2>2 DEF Stored
    <3> QED
      BY <2>2, <3>2
  <2>5. \A s \in Slots : reply'[s] <= base'
    <3>1. \A s \in Slots : global_buf[s] <= begun
      BY <1>0, <2>2 DEF Window, Stored
    <3> QED
      BY <1>0, <2>2, <3>1 DEF Window, RealTimeTypeOK
  <2> HIDE DEF done, Answered, Recent, Stored
  <2> QED
    BY <1>0, <2>1, <2>2, <2>3, <2>4, <2>5 DEF Window
<1>8. CASE UNCHANGED realTimeVars
  BY <1>8 DEF realTimeVars, RealTimeTypeOK, Window, Answered, done, Recent, Stored
<1> QED
  BY <1>1, <1>2, <1>3, <1>4, <1>5, <1>6, <1>7, <1>8 DEF RealTimeNext

LEMMA RealTimeInvariance == RealTimeSpec => []RealTimeInv
  BY InitRealTime, NextRealTime, PTL DEF RealTimeSpec

-----------------------------------------------------------------------------
(* The variables of the real-time buffer stay in their types.              *)
THEOREM RealTimeTypeCorrect == RealTimeSpec => []RealTimeTypeOK
<1>1. RealTimeInv => RealTimeTypeOK
  BY DEF RealTimeInv
<1> QED
  BY <1>1, RealTimeInvariance, PTL

(* After a CONFIG no request is answered with a slot posted before it,     *)
(* although data_rdy still says that a frame is ready.                     *)
THEOREM AnswersAreOfThisConfig == RealTimeSpec => []NoEarlierFrame
<1>1. RealTimeInv => NoEarlierFrame
  <2> SUFFICES ASSUME RealTimeTypeOK, Window, Answered, NEW s \in Slots
               PROVE  reply[s] = 0 \/ reply[s] > base
    BY DEF RealTimeInv, NoEarlierFrame
  <2>1. Recent(reply[s]) /\ (low = 0 \/ low > base)
    BY DEF Window
  <2> QED
    BY <2>1 DEF RealTimeTypeOK, Recent
<1> QED
  BY <1>1, RealTimeInvariance, PTL

(* From one reply to the next no slot goes back to an older major frame,   *)
(* only to the zeros of a new buffer.                                      *)
THEOREM Monotone == RealTimeSpec => RepliesMonotone
<1>1. RealTimeInv /\ [RealTimeNext]_realTimeVars
        => [\A s \in Slots : reply'[s] >= reply[s] \/ reply'[s] = 0]_realTimeVars
  <2> SUFFICES ASSUME RealTimeTypeOK, Window, RealTimeNext
               PROVE  \A s \in Slots : reply'[s] >= reply[s] \/ reply'[s] = 0
    BY DEF RealTimeInv
  <2> USE DEF storage, request
  <2>1. CASE UNCHANGED reply
    BY <2>1 DEF RealTimeTypeOK
  <2>2. ASSUME NEW s \in Slots, CopySlot(s)
        PROVE  \A t \in Slots : reply'[t] >= reply[t] \/ reply'[t] = 0
    <3>1. /\ reply'[s] = global_buf[s] /\ \A t \in Slots : t # s => reply'[t] = reply[t]
          /\ reply \in [Slots -> Nat] /\ global_buf[s] \in Nat /\ base \in Nat
      BY <2>2 DEF CopySlot, RealTimeTypeOK
    <3>2. global_buf[s] = 0 \/ global_buf[s] > base
      BY DEF Window, Stored
    <3>3. reply[s] <= base \/ reply[s] <= global_buf[s]
      BY DEF Window
    <3> QED
      BY <3>1, <3>2, <3>3
  <2>3. UNCHANGED reply \/ \E s \in Slots : CopySlot(s)
    BY DEF RealTimeNext, PostBegins, PostEnds, PostSlot, Configure, RealReq, MsgReply
  <2> QED
    BY <2>1, <2>2, <2>3
<1> QED
  BY <1>1, RealTimeInvariance, PTL DEF RealTimeSpec, RepliesMonotone

-----------------------------------------------------------------------------
(* The refinement.                                                         *)
LEMMA InitRefines == RealTimeInit => Register!RInit
  BY DEF RealTimeInit, Register!RInit, Register!NoFrame, Answered, done, Stored

LEMMA StepRefines == RealTimeInv /\ RealTimeInv' /\ [RealTimeNext]_realTimeVars => [Register!RNext]_Register!rvars
<1> SUFFICES ASSUME RealTimeTypeOK, Window, RealTimeTypeOK', Window', [RealTimeNext]_realTimeVars
             PROVE  Register!RNext \/ UNCHANGED Register!rvars
  BY DEF RealTimeInv
<1> USE DEF storage, request
<1>0. begun \in Nat /\ base \in Nat /\ low \in Nat
  BY DEF RealTimeTypeOK
<1>1. CASE PostBegins
  <2>1. done' = done
    BY <1>0, <1>1 DEF PostBegins, done, Stored
  <2>2. Register!Begin
    BY <1>1, <2>1 DEF PostBegins, Register!Begin, Answered
  <2> QED
    BY <2>2 DEF Register!RNext
<1>2. ASSUME NEW s \in Slots, PostSlot(s) PROVE UNCHANGED Register!rvars
  BY <1>2 DEF PostSlot, Register!rvars, Answered, done, Stored
<1>3. CASE PostEnds
  <2>1. done' = begun /\ (data_rdy' = 1)
    BY <1>0, <1>3 DEF PostEnds, done, Stored, Window
  <2>2. Register!Finish
    BY <1>3, <2>1 DEF PostEnds, Register!Finish, Answered
  <2> QED
    BY <2>2 DEF Register!RNext
<1>4. CASE RealReq
  <2>1. ~Answered /\ ~Answered' /\ done' = done
    BY <1>4 DEF RealReq, Answered, Window, done, Stored
  <2>2. CASE data_rdy = 1
    <3>1. Register!Ask
      BY <1>4, <2>1, <2>2 DEF RealReq, Register!Ask
    <3> QED
      BY <3>1 DEF Register!RNext
  <2>3. CASE data_rdy # 1
    BY <1>4, <2>1, <2>3 DEF RealReq, Register!rvars
  <2> QED
    BY <2>2, <2>3
<1>5. ASSUME NEW s \in Slots, CopySlot(s) PROVE Register!RNext \/ UNCHANGED Register!rvars
  <2>1. ~Answered /\ done' = done
    BY <1>5 DEF CopySlot, Answered, done, Stored
  <2>2. CASE left' = {}
    <3>1. Answered' /\ answering' # "copy" /\ begun' = begun /\ base' = base /\ low' = low
      BY <1>5, <2>2 DEF CopySlot, Answered
    <3>2. \A t \in Slots : Recent(reply'[t])
      BY <3>1 DEF Window, Recent
    <3>3. \A t \in Slots : reply'[t] \in {f \in low .. begun : f = low \/ f > base}
      BY <3>2 DEF Recent
    <3>4. reply' \in [Slots -> {f \in low .. begun : f = low \/ f > base}]
      BY <3>3 DEF RealTimeTypeOK
    <3>5. Register!Answer
      BY <1>5, <2>1, <3>1, <3>4 DEF CopySlot, Register!Answer
    <3> QED
      BY <3>5 DEF Register!RNext
  <2>3. CASE left' # {}
    BY <1>5, <2>1, <2>3 DEF CopySlot, Register!rvars, Answered
  <2> QED
    BY <2>2, <2>3
<1>6. CASE MsgReply
  <2>1. ~Answered' /\ done' = done
    BY <1>6 DEF MsgReply, Answered, done, Stored
  <2>2. CASE Answered
    <3>1. Register!Take
      BY <1>6, <2>1, <2>2 DEF MsgReply, Register!Take, Register!NoFrame
    <3> QED
      BY <3>1 DEF Register!RNext
  <2>3. CASE ~Answered
    BY <1>6, <2>1, <2>3 DEF MsgReply, Register!rvars
  <2> QED
    BY <2>2, <2>3
<1>7. CASE Configure
  <2>1. done' = 0 /\ ~Answered /\ ~Answered'
    BY <1>0, <1>7 DEF Configure, done, Stored, Answered
  <2>2. Register!Renew
    BY <1>7, <2>1 DEF Configure, Register!Renew
  <2> QED
    BY <2>2 DEF Register!RNext
<1>8. CASE UNCHANGED realTimeVars
  BY <1>8 DEF realTimeVars, Register!rvars, Answered, done, Stored
<1> QED
  BY <1>1, <1>2, <1>3, <1>4, <1>5, <1>6, <1>7, <1>8 DEF RealTimeNext

(* Whatever the overlap of posts and requests, a client is answered what   *)
(* FrameRegister promises.                                                 *)
THEOREM Refinement == RealTimeSpec => ImplementsRegister
  BY InitRefines, StepRefines, RealTimeInvariance, PTL DEF RealTimeSpec, ImplementsRegister, Register!RSpec

-----------------------------------------------------------------------------
(* The boxes of the data analysis window.                                  *)
Combination == [rt : Nat, sub : Nat, wc : Nat]
Shown == [items : Seq(Nat), chosen : Nat]
BoxesTyped ==
    /\ turns \in Seq(Combination) /\ boxList \in Seq(Combination) /\ added \in Seq(Combination)
    /\ presentCount \in Nat
    /\ Len(boxList) = IF pc = "process" THEN presentCount + 1 ELSE presentCount
    /\ uniqueRtList \in Seq(Nat) /\ uniqueSubList \in Seq(Nat) /\ uniqueWCList \in Seq(Nat)
    /\ box \in [rt : Shown, sub : Shown, wc : Shown]

(* The boxes show the arrays their indices are used with; three choices    *)
(* are of one combination that was counted.                                *)
BoxesShowArrays ==
    /\ box.rt.items = uniqueRtList /\ box.rt.chosen \in 0 .. Len(box.rt.items)
    /\ box.sub.items # <<>> => box.sub.items = uniqueSubList /\ box.rt.chosen # 0
    /\ box.sub.chosen \in 0 .. Len(box.sub.items)
    /\ box.wc.chosen \in 0 .. Len(box.wc.items)
WordCountsListed ==
    box.sub.chosen # 0 =>
        /\ box.wc.items = uniqueWCList
        /\ \A k \in DOMAIN uniqueWCList :
              [rt |-> ComboBoxes!Rt, sub |-> ComboBoxes!Sub, wc |-> uniqueWCList[k]]
                  \in ToSet(ComboBoxes!Listed)
BoxesInv == BoxesTyped /\ BoxesShowArrays /\ WordCountsListed /\ IsInjective(added)

(* The types of the next state; what they are made of has no prime.        *)
LEMMA TypedNext ==
    BoxesTyped' <=>
        /\ turns' \in Seq(Combination) /\ boxList' \in Seq(Combination)
        /\ added' \in Seq(Combination) /\ presentCount' \in Nat
        /\ Len(boxList') = IF pc' = "process" THEN presentCount' + 1 ELSE presentCount'
        /\ uniqueRtList' \in Seq(Nat) /\ uniqueSubList' \in Seq(Nat)
        /\ uniqueWCList' \in Seq(Nat)
        /\ box' \in [rt : Shown, sub : Shown, wc : Shown]
BY DEF BoxesTyped, Combination, Shown

(* The first m items of a list.                                            *)
LEMMA FirstOf ==
    ASSUME NEW S, NEW q \in Seq(S), NEW m \in 0 .. Len(q)
    PROVE  /\ SubSeq(q, 1, m) \in Seq(S) /\ Len(SubSeq(q, 1, m)) = m
           /\ \A k \in 1 .. m : SubSeq(q, 1, m)[k] = q[k]
OBVIOUS

(* One box is filled and chosen from. *)
LEMMA OneBox ==
    ASSUME NEW b \in [rt : Shown, sub : Shown, wc : Shown], NEW i \in Seq(Nat), NEW k \in Nat
    PROVE  /\ [b EXCEPT !.rt.items = i] \in [rt : Shown, sub : Shown, wc : Shown]
           /\ [b EXCEPT !.rt.chosen = k, !.sub = [items |-> i, chosen |-> 0]]
                  \in [rt : Shown, sub : Shown, wc : Shown]
           /\ [b EXCEPT !.sub.chosen = k, !.wc = [items |-> i, chosen |-> 0]]
                  \in [rt : Shown, sub : Shown, wc : Shown]
           /\ [b EXCEPT !.wc.chosen = k] \in [rt : Shown, sub : Shown, wc : Shown]
           /\ [b EXCEPT !.sub = ComboBoxes!Empty, !.wc = ComboBoxes!Empty]
                  \in [rt : Shown, sub : Shown, wc : Shown]
<1>1. <<>> \in Seq(Nat) /\ 0 \in Nat
  OBVIOUS
<1>2. /\ [items |-> i, chosen |-> 0] \in Shown /\ ComboBoxes!Empty \in Shown
      /\ \A x \in Shown : [x EXCEPT !.items = i] \in Shown /\ [x EXCEPT !.chosen = k] \in Shown
  BY <1>1 DEF Shown, ComboBoxes!Empty
<1>3. [b EXCEPT !.rt.items = i] \in [rt : Shown, sub : Shown, wc : Shown]
  BY <1>2
<1>4. /\ [b EXCEPT !.rt.chosen = k, !.sub = [items |-> i, chosen |-> 0]]
             \in [rt : Shown, sub : Shown, wc : Shown]
      /\ [b EXCEPT !.sub.chosen = k, !.wc = [items |-> i, chosen |-> 0]]
             \in [rt : Shown, sub : Shown, wc : Shown]
  BY <1>2
<1>5. /\ [b EXCEPT !.wc.chosen = k] \in [rt : Shown, sub : Shown, wc : Shown]
      /\ [b EXCEPT !.sub = ComboBoxes!Empty, !.wc = ComboBoxes!Empty]
             \in [rt : Shown, sub : Shown, wc : Shown]
  BY <1>2
<1>. QED BY <1>3, <1>4, <1>5

(* The files hold combinations.                                            *)
LEMMA FoundIs == Found \subseteq Seq(Combination)
<1>1. Found \subseteq Seq([rt : Nat, sub : Nat, wc : Nat])
  BY ReadersAssumption
<1>. QED BY <1>1 DEF Combination

(* What is listed are the combinations counted; outside a reading that is  *)
(* the list.                                                               *)
LEMMA ListedIs ==
    ASSUME BoxesTyped
    PROVE  /\ ComboBoxes!Listed \in Seq(Combination)
           /\ ToSet(ComboBoxes!Listed) \subseteq Combination
           /\ ToSet(ComboBoxes!Listed) = {boxList[k] : k \in 1 .. presentCount}
           /\ pc # "process" => ComboBoxes!Listed = boxList
<1>. DEFINE L == ComboBoxes!Listed
<1>1. presentCount \in 0 .. Len(boxList) /\ boxList \in Seq(Combination)
  BY DEF BoxesTyped
<1>2. L \in Seq(Combination) /\ Len(L) = presentCount
      /\ \A k \in 1 .. presentCount : L[k] = boxList[k]
  BY <1>1 DEF ComboBoxes!Listed
<1>3. ToSet(L) = {boxList[k] : k \in 1 .. presentCount} /\ ToSet(L) \subseteq Combination
  BY <1>2 DEF ToSet
<1>4. pc # "process" => L = boxList
  BY <1>1, <1>2 DEF BoxesTyped
<1>. QED BY <1>2, <1>3, <1>4

(* The same of the next state.                                             *)
LEMMA ListedPrime ==
    ASSUME BoxesTyped'
    PROVE  ToSet(ComboBoxes!Listed') = {boxList'[k] : k \in 1 .. presentCount'}
<1>. DEFINE L == ComboBoxes!Listed'
<1>1. presentCount' \in 0 .. Len(boxList') /\ boxList' \in Seq(Combination)
  BY TypedNext
<1>2. L \in Seq(Combination) /\ Len(L) = presentCount'
      /\ \A k \in 1 .. presentCount' : L[k] = boxList'[k]
  BY <1>1, FirstOf DEF ComboBoxes!Listed
<1>. QED BY <1>2 DEF ToSet

(* A list that is not empty has a first item and the others.               *)
LEMMA HeadTail ==
    ASSUME NEW S, NEW q \in Seq(S), q # <<>>
    PROVE  Head(q) \in S /\ Tail(q) \in Seq(S)
OBVIOUS

(* An item appended behind a list leaves it in front.                      *)
LEMMA AppendListed ==
    ASSUME NEW S, NEW q \in Seq(S), NEW x \in S
    PROVE  /\ Append(q, x) \in Seq(S) /\ Len(Append(q, x)) = Len(q) + 1
           /\ SubSeq(Append(q, x), 1, Len(q)) = q
OBVIOUS

(* Before a file is opened the boxes are empty.                            *)
LEMMA BoxesInit == ComboBoxes!Init => BoxesInv
BY DEF ComboBoxes!Init, BoxesInv, BoxesTyped, BoxesShowArrays, WordCountsListed, ComboBoxes!Empty,
       Shown, IsInjective

(* The list filled by Combos is the one of module UniqueLists.             *)
LEMMA SameValues ==
    ASSUME NEW l, NEW s, NEW value
    PROVE  ComboBoxes!AddValues(l, s, value) = AddValues(l, s, value)
BY DEF ComboBoxes!AddValues, AddValues, ComboBoxes!AddOnce, AddOnce, ComboBoxes!FoldLeft, FoldLeft,
       ComboBoxes!MapThenFoldSet, MapThenFoldSet, ComboBoxes!ToSet, ToSet, ComboBoxes!Max, Max

(* Adding reads the boxes, and what it adds are combinations counted.      *)
LEMMA AddSelects ==
    ASSUME BoxesInv, ComboBoxes!AddCombo
    PROVE  /\ added' \in Seq(Combination)
           /\ IsInjective(added')
           /\ ToSet(added') = ToSet(added)
                \cup {x \in ToSet(ComboBoxes!Listed) : ComboBoxes!Matches(x)}
<1>. DEFINE L == ComboBoxes!Listed
            S == ComboBoxes!Selected
            s == IF ComboBoxes!AllChosen THEN <<ComboBoxes!Triple>> ELSE L
<1>1. L \in Seq(Combination) /\ ToSet(L) \subseteq Combination
  BY ListedIs DEF BoxesInv
<1>2. s \in Seq(Combination) /\ S \subseteq Combination /\ S \subseteq ToSet(s)
      /\ S = {x \in ToSet(L) : ComboBoxes!Matches(x)}
  <2>1. CASE box.rt.chosen = 0
    <3>1. S = ToSet(L) /\ s = L /\ \A x : ComboBoxes!Matches(x)
      BY <2>1 DEF ComboBoxes!Selected, ComboBoxes!AllChosen, ComboBoxes!Matches, ComboBoxes!ToSet, ToSet
    <3>. HIDE DEF L, S, s
    <3>. QED BY <1>1, <3>1
  <2>2. CASE box.rt.chosen # 0 /\ box.sub.chosen = 0
    <3>1. S = ComboBoxes!OfRt(ComboBoxes!Rt) /\ s = L
      BY <2>2 DEF ComboBoxes!Selected, ComboBoxes!AllChosen
    <3>2. ComboBoxes!Text("rt") = ComboBoxes!Rt
      BY DEF BoxesInv, BoxesShowArrays, ComboBoxes!Text, ComboBoxes!Rt
    <3>3. \A x : ComboBoxes!Matches(x) <=> x.rt = ComboBoxes!Rt
      BY <2>2, <3>2 DEF ComboBoxes!Matches
    <3>4. S = {x \in ToSet(L) : x.rt = ComboBoxes!Rt}
      BY <3>1 DEF ComboBoxes!OfRt, ComboBoxes!ToSet, ToSet
    <3>. HIDE DEF L, S, s
    <3>. QED BY <1>1, <3>1, <3>3, <3>4
  <2>3. CASE box.rt.chosen # 0 /\ box.sub.chosen # 0
    <3>1. box.sub.items # <<>> /\ box.sub.items = uniqueSubList
      BY <2>3 DEF BoxesInv, BoxesShowArrays, BoxesTyped, Shown
    <3>2. ComboBoxes!Text("rt") = ComboBoxes!Rt /\ ComboBoxes!Text("sub") = ComboBoxes!Sub
      BY <3>1 DEF BoxesInv, BoxesShowArrays, ComboBoxes!Text, ComboBoxes!Rt, ComboBoxes!Sub
    <3>3. CASE box.wc.chosen = 0
      <4>1. S = ComboBoxes!OfSub(ComboBoxes!Rt, ComboBoxes!Sub) /\ s = L
        BY <2>3, <3>3 DEF ComboBoxes!Selected, ComboBoxes!AllChosen
      <4>2. \A x : ComboBoxes!Matches(x) <=> x.rt = ComboBoxes!Rt /\ x.sub = ComboBoxes!Sub
        BY <2>3, <3>2, <3>3 DEF ComboBoxes!Matches
      <4>3. S = {x \in ToSet(L) : x.rt = ComboBoxes!Rt /\ x.sub = ComboBoxes!Sub}
        BY <4>1 DEF ComboBoxes!OfSub, ComboBoxes!OfRt, ComboBoxes!ToSet, ToSet
      <4>. HIDE DEF L, S, s
      <4>. QED BY <1>1, <4>1, <4>2, <4>3
    <3>4. CASE box.wc.chosen # 0
      <4>1. box.wc.items = uniqueWCList /\ box.wc.chosen \in DOMAIN uniqueWCList
        BY <2>3, <3>4 DEF BoxesInv, BoxesShowArrays, WordCountsListed, BoxesTyped, Shown
      <4>2. ComboBoxes!Text("wc") = uniqueWCList[box.wc.chosen] /\ ComboBoxes!Triple \in ToSet(L)
        BY <2>3, <4>1 DEF BoxesInv, WordCountsListed, ComboBoxes!Text, ComboBoxes!Triple
      <4>3. S = {ComboBoxes!Triple} /\ s = <<ComboBoxes!Triple>>
        BY <2>3, <3>4 DEF ComboBoxes!Selected, ComboBoxes!AllChosen
      <4>4. \A x \in ToSet(L) : ComboBoxes!Matches(x) <=> x = ComboBoxes!Triple
        BY <1>1, <2>3, <3>2, <3>4, <4>2 DEF ComboBoxes!Matches, ComboBoxes!Triple, Combination
      <4>5. ToSet(<<ComboBoxes!Triple>>) = {ComboBoxes!Triple}
        BY DEF ToSet
      <4>. HIDE DEF L, S, s
      <4>. QED BY <1>1, <4>2, <4>3, <4>4, <4>5
    <3>. QED BY <3>3, <3>4
  <2>. QED BY <2>1, <2>2, <2>3
<1>. HIDE DEF L, S, s
<1>. DEFINE value == [x \in S |-> x]
<1>3. value \in [S -> Combination] /\ added \in Seq(Combination) /\ IsInjective(added)
  BY <1>2 DEF BoxesInv, BoxesTyped
<1>4. added' = AddValues(added, s, value)
  BY SameValues DEF ComboBoxes!AddCombo, L, S, s
<1>. HIDE DEF value
<1>5. /\ added' \in Seq(Combination)
      /\ ToSet(added') = ToSet(added) \cup {value[x] : x \in ToSet(s) \cap DOMAIN value}
      /\ IsInjective(added')
  <2>1. LET r == AddValues(added, s, value)
        IN  /\ r \in Seq(Combination)
            /\ ToSet(r) = ToSet(added) \cup {value[x] : x \in ToSet(s) \cap DOMAIN value}
            /\ IsInjective(added) => IsInjective(r)
    BY <1>2, <1>3, AddValuesAre
  <2>. QED BY <1>3, <1>4, <2>1
<1>6. {value[x] : x \in ToSet(s) \cap DOMAIN value} = S
  BY <1>2 DEF value
<1>. QED BY <1>2, <1>5, <1>6 DEF L

(* A list filled from the combinations counted has the values of those     *)
(* that match.                                                             *)
LEMMA Filled ==
    ASSUME BoxesInv, NEW D, NEW value \in [D -> Nat]
    PROVE  LET r == ComboBoxes!AddValues(<<>>, ComboBoxes!Listed, value)
           IN  /\ r \in Seq(Nat)
               /\ \A k \in DOMAIN r :
                     \E x \in ToSet(ComboBoxes!Listed) \cap D : r[k] = value[x]
<1>. DEFINE L == ComboBoxes!Listed
            r == ComboBoxes!AddValues(<<>>, L, value)
<1>1. L \in Seq(Combination) /\ <<>> \in Seq(Nat)
  BY ListedIs DEF BoxesInv
<1>2. r = AddValues(<<>>, L, value)
  BY SameValues
<1>. HIDE DEF r, L
<1>3. LET q == AddValues(<<>>, L, value)
      IN  /\ q \in Seq(Nat)
          /\ ToSet(q) = ToSet(<<>>) \cup {value[x] : x \in ToSet(L) \cap DOMAIN value}
          /\ IsInjective(<<>>) => IsInjective(q)
  BY <1>1, AddValuesAre
<1>4. r \in Seq(Nat) /\ ToSet(r) = {value[x] : x \in ToSet(L) \cap D}
  <2>1. ToSet(<<>>) = {}
    BY DEF ToSet
  <2>. QED BY <1>2, <1>3, <2>1
<1>5. \A k \in DOMAIN r : r[k] \in ToSet(r)
  BY DEF ToSet
<1>. QED BY <1>4, <1>5 DEF r, L

(* What is listed stays listed and the boxes stay. *)
LEMMA BoxesStay ==
    ASSUME BoxesInv, BoxesTyped',
           UNCHANGED <<uniqueSubList, uniqueWCList, added>>, box'.sub = box.sub,
           box'.wc = box.wc, box'.rt.chosen = box.rt.chosen, box'.rt.items = uniqueRtList',
           Len(uniqueRtList) <= Len(uniqueRtList'),
           \A k \in 1 .. Len(uniqueRtList) : uniqueRtList'[k] = uniqueRtList[k],
           ToSet(ComboBoxes!Listed) \subseteq ToSet(ComboBoxes!Listed')
    PROVE  BoxesInv'
<1>. USE DEF BoxesInv
<1>1. BoxesShowArrays'
  BY DEF BoxesShowArrays, BoxesTyped, Shown
<1>2. WordCountsListed'
  <2>1. SUFFICES ASSUME box.sub.chosen # 0 PROVE WordCountsListed'
    BY DEF WordCountsListed
  <2>2. box.rt.chosen \in 1 .. Len(uniqueRtList)
    BY <2>1 DEF BoxesShowArrays, BoxesTyped, Shown
  <2>3. ComboBoxes!Rt' = ComboBoxes!Rt /\ ComboBoxes!Sub' = ComboBoxes!Sub
    BY <2>2 DEF ComboBoxes!Rt, ComboBoxes!Sub
  <2>. QED BY <2>1, <2>3 DEF WordCountsListed
<1>. QED BY <1>1, <1>2

(* Every step of the window keeps the invariant of the boxes.              *)
LEMMA BoxesStep ==
    ASSUME BoxesInv, [ComboBoxes!Next]_boxVars PROVE BoxesInv'
<1>. USE DEF BoxesInv
<1>1. ASSUME NEW f \in Found, ComboBoxes!Realised(f) PROVE BoxesInv'
  <2>1. f \in Seq(Combination)
    BY FoundIs
  <2>. QED BY <1>1, <2>1, TypedNext DEF ComboBoxes!Realised, BoxesTyped, BoxesShowArrays, WordCountsListed,
                     ComboBoxes!Empty, Shown
<1>2. CASE ComboBoxes!Turn
  <2>1. turns \in Seq(Combination) /\ turns # <<>> /\ Head(turns) \in Combination
        /\ turns' \in Seq(Combination) /\ pc = "read"
    BY <1>2, HeadTail DEF ComboBoxes!Turn, BoxesTyped
  <2>. DEFINE c == Head(turns)
  <2>2. CASE ComboBoxes!Present(c)
    <3>1. UNCHANGED <<pc, boxList, uniqueRtList, box, presentCount, uniqueSubList, uniqueWCList, added>>
      BY <1>2, <2>2 DEF ComboBoxes!Turn
    <3>2. BoxesTyped' /\ ComboBoxes!Listed' = ComboBoxes!Listed
      BY <2>1, <3>1, TypedNext DEF BoxesTyped, ComboBoxes!Listed
    <3>. QED BY <3>1, <3>2, BoxesStay DEF BoxesShowArrays, BoxesTyped, Shown
  <2>3. CASE ~ComboBoxes!Present(c)
    <3>1. /\ UNCHANGED <<presentCount, uniqueSubList, uniqueWCList, added>>
          /\ pc' = "process" /\ boxList' = Append(ComboBoxes!Listed, c)
          /\ ComboBoxes!AddTerminal(c.rt) \/ UNCHANGED <<uniqueRtList, box>>
      BY <1>2, <2>3 DEF ComboBoxes!Turn
    <3>2. ComboBoxes!Listed = boxList /\ Len(boxList) = presentCount /\ boxList \in Seq(Combination)
          /\ presentCount \in Nat
      BY <2>1, ListedIs DEF BoxesTyped
    <3>3. boxList' \in Seq(Combination) /\ Len(boxList') = presentCount + 1
          /\ ComboBoxes!Listed' = boxList
      BY <2>1, <3>1, <3>2, AppendListed DEF ComboBoxes!Listed
    <3>4. /\ box'.sub = box.sub /\ box'.wc = box.wc /\ box'.rt.chosen = box.rt.chosen
          /\ box'.rt.items = uniqueRtList' /\ box' \in [rt : Shown, sub : Shown, wc : Shown]
          /\ (uniqueRtList' = uniqueRtList \/ uniqueRtList' = Append(uniqueRtList, c.rt))
      <4>1. CASE UNCHANGED <<uniqueRtList, box>>
        BY <4>1 DEF BoxesTyped, BoxesShowArrays
      <4>2. CASE ComboBoxes!AddTerminal(c.rt)
        <5>1. uniqueRtList' = Append(uniqueRtList, c.rt)
              /\ box' = [box EXCEPT !.rt.items = uniqueRtList'] /\ c.rt \in Nat
          BY <2>1, <4>2 DEF ComboBoxes!AddTerminal, BoxesTyped, BoxesShowArrays, Shown, Combination
        <5>2. uniqueRtList' \in Seq(Nat)
          BY <5>1 DEF BoxesTyped
        <5>3. box' \in [rt : Shown, sub : Shown, wc : Shown]
          BY <5>1, <5>2, OneBox DEF BoxesTyped
        <5>. QED BY <5>1, <5>3 DEF BoxesTyped, Shown
      <4>. QED BY <3>1, <4>1, <4>2
    <3>5. /\ uniqueRtList' \in Seq(Nat) /\ Len(uniqueRtList) <= Len(uniqueRtList')
          /\ \A k \in 1 .. Len(uniqueRtList) : uniqueRtList'[k] = uniqueRtList[k]
      <4>1. uniqueRtList \in Seq(Nat) /\ c.rt \in Nat
        BY <2>1 DEF BoxesTyped, Combination
      <4>. HIDE DEF c
      <4>2. CASE uniqueRtList' = uniqueRtList
        BY <4>1, <4>2
      <4>3. CASE uniqueRtList' = Append(uniqueRtList, c.rt)
        BY <4>1, <4>3
      <4>. QED BY <3>4, <4>2, <4>3
    <3>6. BoxesTyped'
      BY <2>1, <3>1, <3>3, <3>4, <3>5, TypedNext DEF BoxesTyped
    <3>. QED BY <3>1, <3>2, <3>3, <3>4, <3>5, <3>6, BoxesStay
  <2>. QED BY <2>2, <2>3
<1>3. CASE ComboBoxes!Counted
  <2>1. UNCHANGED <<turns, boxList, uniqueRtList, uniqueSubList, uniqueWCList, box, added>>
        /\ pc = "process" /\ pc' = "read" /\ presentCount' = presentCount + 1
    BY <1>3 DEF ComboBoxes!Counted
  <2>2. BoxesTyped'
    BY <2>1, TypedNext DEF BoxesTyped
  <2>3. ToSet(ComboBoxes!Listed) \subseteq ToSet(ComboBoxes!Listed')
    <3>1. presentCount \in Nat /\ 1 .. presentCount \subseteq 1 .. presentCount + 1
      BY DEF BoxesTyped
    <3>2. ToSet(ComboBoxes!Listed') = {boxList'[k] : k \in 1 .. presentCount'}
      BY <2>2, ListedPrime
    <3>. QED BY <2>1, <3>1, <3>2, ListedIs
  <2>. QED BY <2>1, <2>2, <2>3, BoxesStay DEF BoxesShowArrays, BoxesTyped, Shown
<1>4. CASE ComboBoxes!Filled \/ ComboBoxes!Cancel \/ UNCHANGED boxVars
  <2>1. UNCHANGED <<turns, boxList, presentCount, uniqueRtList, uniqueSubList, uniqueWCList, box, added>>
        /\ (pc' = pc \/ (pc # "process" /\ pc' # "process"))
    BY <1>4 DEF ComboBoxes!Filled, ComboBoxes!Cancel, boxVars, ComboBoxes!lists
  <2>2. BoxesTyped' /\ ComboBoxes!Listed' = ComboBoxes!Listed
    BY <2>1, TypedNext DEF BoxesTyped, ComboBoxes!Listed
  <2>. QED BY <2>1, <2>2, BoxesStay DEF BoxesShowArrays, BoxesTyped, Shown
<1>5. ASSUME NEW k \in DOMAIN box.rt.items, ComboBoxes!ChooseRt(k) PROVE BoxesInv'
  <2>. DEFINE value == [x \in ComboBoxes!OfRt(uniqueRtList[k]) |-> x.sub]
              new == ComboBoxes!AddValues(<<>>, ComboBoxes!Listed, value)
  <2>1. \A x \in ComboBoxes!OfRt(uniqueRtList[k]) : x \in Combination
    BY ListedIs DEF ComboBoxes!OfRt, ComboBoxes!ToSet, ToSet
  <2>2. value \in [ComboBoxes!OfRt(uniqueRtList[k]) -> Nat]
    BY <2>1 DEF Combination
  <2>3. new \in Seq(Nat)
    <3>. HIDE DEF value
    <3>. QED BY <2>2, Filled
  <2>4. /\ uniqueSubList' = new
        /\ box' = [box EXCEPT !.rt.chosen = k, !.sub = [items |-> new, chosen |-> 0]]
        /\ UNCHANGED <<pc, turns, boxList, presentCount, uniqueRtList, uniqueWCList, added>>
    BY <1>5 DEF ComboBoxes!ChooseRt, ComboBoxes!lists
  <2>. HIDE DEF new
  <2>5. /\ box' \in [rt : Shown, sub : Shown, wc : Shown] /\ k \in 1 .. Len(uniqueRtList)
        /\ box'.rt = [items |-> uniqueRtList, chosen |-> k] /\ box'.wc = box.wc
        /\ box'.sub = [items |-> new, chosen |-> 0]
    <3>1. k \in Nat /\ k \in 1 .. Len(uniqueRtList)
      BY DEF BoxesTyped, BoxesShowArrays
    <3>2. box' \in [rt : Shown, sub : Shown, wc : Shown]
      BY <2>3, <2>4, <3>1, OneBox DEF BoxesTyped
    <3>. QED BY <2>4, <3>1, <3>2 DEF BoxesTyped, BoxesShowArrays, Shown
  <2>6. BoxesTyped'
    BY <2>3, <2>4, <2>5, TypedNext DEF BoxesTyped
  <2>7. BoxesShowArrays' /\ WordCountsListed'
    <3>1. Len(new) \in Nat /\ Len(uniqueRtList) \in Nat
      BY <2>3 DEF BoxesTyped
    <3>. QED BY <2>4, <2>5, <3>1 DEF BoxesShowArrays, WordCountsListed
  <2>. QED BY <2>4, <2>6, <2>7
<1>6. ASSUME NEW k \in DOMAIN box.sub.items, ComboBoxes!ChooseSub(k) PROVE BoxesInv'
  <2>. DEFINE found == ComboBoxes!OfSub(uniqueRtList[box.rt.chosen], uniqueSubList[k])
              value == [x \in found |-> x.wc]
              new == ComboBoxes!AddValues(<<>>, ComboBoxes!Listed, value)
  <2>1. \A x \in found : x \in Combination /\ x.rt = uniqueRtList[box.rt.chosen]
                         /\ x.sub = uniqueSubList[k]
    BY ListedIs DEF ComboBoxes!OfSub, ComboBoxes!OfRt, ComboBoxes!ToSet, ToSet
  <2>2. value \in [found -> Nat] /\ \A x \in found : value[x] = x.wc
    BY <2>1 DEF Combination
  <2>3. /\ new \in Seq(Nat)
        /\ \A j \in DOMAIN new : \E x \in ToSet(ComboBoxes!Listed) \cap found : new[j] = x.wc
    <3>1. /\ new \in Seq(Nat)
          /\ \A j \in DOMAIN new :
                \E x \in ToSet(ComboBoxes!Listed) \cap found : new[j] = value[x]
      <4>. HIDE DEF value, found
      <4>. QED BY <2>2, Filled
    <3>. HIDE DEF new, value, found
    <3>. QED BY <2>2, <3>1
  <2>4. /\ uniqueWCList' = new
        /\ box' = [box EXCEPT !.sub.chosen = k, !.wc = [items |-> new, chosen |-> 0]]
        /\ UNCHANGED <<pc, turns, boxList, presentCount, uniqueRtList, uniqueSubList, added>>
    BY <1>6 DEF ComboBoxes!ChooseSub, ComboBoxes!lists
  <2>. HIDE DEF new, value, found
  <2>5. BoxesTyped' /\ BoxesShowArrays'
    <3>1. /\ k \in Nat /\ k \in 1 .. Len(box.sub.items)
      BY DEF BoxesTyped, Shown
    <3>2. box' \in [rt : Shown, sub : Shown, wc : Shown]
      BY <2>3, <2>4, <3>1, OneBox DEF BoxesTyped
    <3>3. /\ box'.rt = box.rt /\ box'.sub = [items |-> box.sub.items, chosen |-> k]
          /\ box'.wc = [items |-> new, chosen |-> 0]
      BY <2>4 DEF BoxesTyped, Shown
    <3>4. BoxesTyped'
      BY <2>3, <2>4, <3>2, TypedNext DEF BoxesTyped
    <3>5. BoxesShowArrays'
      <4>1. Len(new) \in Nat
        BY <2>3
      <4>. QED BY <2>4, <3>1, <3>3, <4>1 DEF BoxesShowArrays
    <3>. QED BY <3>4, <3>5
  <2>6. ComboBoxes!Listed' = ComboBoxes!Listed /\ box'.sub.chosen = k
        /\ ComboBoxes!Rt' = uniqueRtList[box.rt.chosen] /\ ComboBoxes!Sub' = uniqueSubList[k]
        /\ box'.wc.items = uniqueWCList'
    BY <2>4 DEF ComboBoxes!Listed, ComboBoxes!Rt, ComboBoxes!Sub, BoxesTyped, Shown
  <2>7. ASSUME NEW j \in DOMAIN new
        PROVE  [rt |-> ComboBoxes!Rt', sub |-> ComboBoxes!Sub', wc |-> new[j]]
                   \in ToSet(ComboBoxes!Listed)
    <3>1. PICK x \in ToSet(ComboBoxes!Listed) \cap found : new[j] = x.wc
      BY <2>3
    <3>2. x = [rt |-> ComboBoxes!Rt', sub |-> ComboBoxes!Sub', wc |-> new[j]]
      BY <2>1, <2>6, <3>1 DEF Combination
    <3>. QED BY <3>1, <3>2
  <2>8. WordCountsListed'
    BY <2>4, <2>6, <2>7 DEF WordCountsListed
  <2>. QED BY <2>4, <2>5, <2>8
<1>7. ASSUME NEW k \in DOMAIN box.wc.items, ComboBoxes!ChooseWc(k) PROVE BoxesInv'
  <2>1. box' = [box EXCEPT !.wc.chosen = k]
        /\ UNCHANGED <<pc, turns, boxList, presentCount, uniqueRtList, uniqueSubList, uniqueWCList, added>>
    BY <1>7 DEF ComboBoxes!ChooseWc, ComboBoxes!lists
  <2>2. BoxesTyped' /\ BoxesShowArrays'
    <3>1. /\ k \in Nat /\ k \in 1 .. Len(box.wc.items)
      BY DEF BoxesTyped, Shown
    <3>2. box' \in [rt : Shown, sub : Shown, wc : Shown]
      BY <2>1, <3>1, OneBox DEF BoxesTyped
    <3>3. box'.rt = box.rt /\ box'.sub = box.sub /\ box'.wc = [items |-> box.wc.items, chosen |-> k]
      BY <2>1 DEF BoxesTyped, Shown
    <3>4. BoxesTyped'
      BY <2>1, <3>2, TypedNext DEF BoxesTyped
    <3>5. BoxesShowArrays'
      BY <2>1, <3>1, <3>3 DEF BoxesShowArrays
    <3>. QED BY <3>4, <3>5
  <2>3. box'.rt = box.rt /\ box'.sub = box.sub /\ box'.wc.items = box.wc.items
    BY <2>1 DEF BoxesTyped, Shown
  <2>4. WordCountsListed'
    BY <2>1, <2>3 DEF WordCountsListed, ComboBoxes!Rt, ComboBoxes!Sub, ComboBoxes!Listed
  <2>. QED BY <2>1, <2>2, <2>4
<1>8. CASE ComboBoxes!AddCombo
  <2>1. added' \in Seq(Combination) /\ IsInjective(added')
    BY <1>8, AddSelects
  <2>2. UNCHANGED <<pc, turns, boxList, presentCount, uniqueRtList, uniqueSubList, uniqueWCList>>
        /\ (box' = box \/ box' = [box EXCEPT !.sub = ComboBoxes!Empty, !.wc = ComboBoxes!Empty])
    BY <1>8 DEF ComboBoxes!AddCombo, ComboBoxes!lists
  <2>3. BoxesTyped' /\ BoxesShowArrays'
    <3>1. box' \in [rt : Shown, sub : Shown, wc : Shown]
      BY <2>2, OneBox DEF BoxesTyped
    <3>2. /\ box'.rt = box.rt
          /\ \/ box' = box
             \/ box'.sub = [items |-> <<>>, chosen |-> 0] /\ box'.wc = [items |-> <<>>, chosen |-> 0]
      BY <2>2 DEF BoxesTyped, ComboBoxes!Empty
    <3>3. BoxesTyped'
      BY <2>1, <2>2, <3>1, TypedNext DEF BoxesTyped
    <3>4. BoxesShowArrays'
      BY <2>2, <3>2 DEF BoxesShowArrays
    <3>. QED BY <3>3, <3>4
  <2>4. WordCountsListed'
    <3>1. CASE box' = box
      BY <2>2, <3>1 DEF WordCountsListed, ComboBoxes!Rt, ComboBoxes!Sub, ComboBoxes!Listed
    <3>2. CASE box' = [box EXCEPT !.sub = ComboBoxes!Empty, !.wc = ComboBoxes!Empty]
      BY <3>2 DEF WordCountsListed, BoxesTyped, Shown, ComboBoxes!Empty
    <3>. QED BY <2>2, <3>1, <3>2
  <2>. QED BY <2>1, <2>3, <2>4
<1>. QED BY <1>1, <1>2, <1>3, <1>4, <1>5, <1>6, <1>7, <1>8 DEF ComboBoxes!Next

(* An add selects what the boxes say, whatever was chosen while the list   *)
(* was growing.                                                            *)
THEOREM TextsAreSelected == ReadersSpec => SelectsTheTexts
<1>1. ReadersInit => BoxesInv
  BY BoxesInit DEF ReadersInit
<1>2. ASSUME BoxesInv, [ReadersNext]_readerVars PROVE BoxesInv'
  <2>1. [ComboBoxes!Next]_boxVars
    BY <1>2 DEF ReadersNext, readerVars
  <2>. QED BY <1>2, <2>1, BoxesStep
<1>3. ASSUME BoxesInv, [ReadersNext]_readerVars
      PROVE  [ComboBoxes!AddCombo =>
                 /\ ComboBoxes!ToSet(added') = ComboBoxes!ToSet(added)
                       \cup {x \in ComboBoxes!ToSet(ComboBoxes!Listed) : ComboBoxes!Matches(x)}
                 /\ ComboBoxes!IsInjective(added')]_(ComboBoxes!vars)
  BY <1>3, AddSelects DEF ComboBoxes!ToSet, ToSet, ComboBoxes!IsInjective, IsInjective
<1>. QED BY <1>1, <1>2, <1>3, PTL DEF ReadersSpec, SelectsTheTexts, ComboBoxes!SelectsTheTexts

-----------------------------------------------------------------------------
(* Reading a message.                                                      *)
DataArray == [1 .. 32 -> Nat]
Input == [pos : Nat, input : Nat, got : BOOLEAN, blk : Nat, time : Nat, cmd : Nat,
          sts : Nat, data : DataArray]

(* One list behind another.                                                *)
LEMMA Joined ==
    ASSUME NEW S, NEW a \in Seq(S), NEW b \in Seq(S)
    PROVE  /\ a \o b \in Seq(S) /\ Len(a \o b) = Len(a) + Len(b)
           /\ \A j \in 1 .. Len(a) : (a \o b)[j] = a[j]
           /\ \A j \in 1 .. Len(b) : (a \o b)[Len(a) + j] = b[j]
OBVIOUS

(* A word or the data read leave an input.                                 *)
LEMMA InputNext ==
    ASSUME NEW r \in Input, NEW p \in Nat, NEW x \in Nat, NEW f \in DataArray
    PROVE  /\ [r EXCEPT !.pos = p, !.input = x, !.got = TRUE] \in Input
           /\ [r EXCEPT !.pos = p, !.data = f] \in Input
BY DEF Input

(* fread takes one word, or nothing at the end of the file.                *)
LEMMA WordIs ==
    ASSUME NEW d \in Seq(Nat), NEW r \in Input
    PROVE  LET w == File!Word(d, r)
           IN  /\ w \in Input /\ w.cmd = r.cmd /\ w.data = r.data
               /\ w.pos = (IF r.pos < Len(d) THEN r.pos + 1 ELSE r.pos)
               /\ w.got <=> r.pos < Len(d)
               /\ w.input = (IF r.pos < Len(d) THEN d[r.pos + 1] ELSE r.input)
<1>. DEFINE x == d[r.pos + 1]
<1>0. r.pos \in Nat
  BY DEF Input
<1>1. CASE r.pos < Len(d)
  <2>1. x \in Nat
    BY <1>0, <1>1
  <2>. DEFINE p == r.pos + 1
              v == [r EXCEPT !.pos = p, !.input = x, !.got = TRUE]
  <2>2. File!Word(d, r) = v
    BY <1>1 DEF File!Word, Input
  <2>3. p \in Nat
    BY <1>0
  <2>. HIDE DEF x, p
  <2>4. v \in Input
    BY <2>1, <2>3, InputNext DEF Input
  <2>5. /\ v.cmd = r.cmd /\ v.data = r.data
        /\ v.pos = p /\ v.got = TRUE /\ v.input = x
    BY DEF Input
  <2>. HIDE DEF v
  <2>. QED BY <1>1, <2>2, <2>4, <2>5 DEF x, p
<1>2. CASE ~(r.pos < Len(d))
  BY <1>2 DEF Input, File!Word
<1>. QED BY <1>1, <1>2

(* A word read into a field.                                               *)
LEMMA FieldIs ==
    ASSUME NEW d \in Seq(Nat), NEW r \in Input, NEW field \in {"blk", "time", "cmd", "sts"}
    PROVE  LET w == File!Field(d, r, field)
           IN  /\ w \in Input /\ w.data = r.data
               /\ w.cmd = (IF field = "cmd" THEN w.input ELSE r.cmd)
               /\ w.pos = (IF r.pos < Len(d) THEN r.pos + 1 ELSE r.pos)
               /\ w.input = (IF r.pos < Len(d) THEN d[r.pos + 1] ELSE r.input)
<1>. DEFINE w == File!Word(d, r)
<1>1. /\ w \in Input /\ w.cmd = r.cmd /\ w.data = r.data
      /\ w.pos = (IF r.pos < Len(d) THEN r.pos + 1 ELSE r.pos)
      /\ w.input = (IF r.pos < Len(d) THEN d[r.pos + 1] ELSE r.input)
  BY WordIs
<1>2. File!Field(d, r, field) = [w EXCEPT ![field] = w.input]
  BY DEF File!Field
<1>. HIDE DEF w
<1>3. /\ [w EXCEPT ![field] = w.input] \in Input
      /\ [w EXCEPT ![field] = w.input].data = w.data
      /\ [w EXCEPT ![field] = w.input].pos = w.pos
      /\ [w EXCEPT ![field] = w.input].input = w.input
      /\ [w EXCEPT ![field] = w.input].cmd = (IF field = "cmd" THEN w.input ELSE w.cmd)
  BY <1>1 DEF Input
<1>. QED BY <1>1, <1>2, <1>3

(* The data words read: count of them, or as many as the file still has    *)
(* when the count is senseless or the file ends.                           *)
LEMMA DataIs ==
    ASSUME NEW d \in Seq(Nat), NEW r \in Input, r.pos <= Len(d), NEW count
    PROVE  LET w == File!Data(d, r, count)
               k == IF count \in 0 .. Len(d) - r.pos THEN count ELSE Len(d) - r.pos
           IN  /\ w \in Input /\ w.cmd = r.cmd /\ w.input = r.input
               /\ w.pos = r.pos + k
               /\ \A j \in 1 .. 32 : j <= k => w.data[j] = d[r.pos + j]
<1>. DEFINE k == IF count \in 0 .. Len(d) - r.pos THEN count ELSE Len(d) - r.pos
            f == [j \in 1 .. 32 |-> IF j <= k THEN d[r.pos + j] ELSE r.data[j]]
<1>0. r.pos \in Nat /\ Len(d) \in Nat
  BY DEF Input
<1>1. k \in 0 .. Len(d) - r.pos /\ k \in Nat /\ r.pos \in Nat /\ Len(d) \in Nat
  BY <1>0
<1>. DEFINE p == r.pos + k
            v == [r EXCEPT !.pos = p, !.data = f]
<1>2. File!Data(d, r, count) = v
  BY DEF File!Data, Input
<1>. HIDE DEF k
<1>3. f \in DataArray
  <2>1. ASSUME NEW j \in 1 .. 32, j <= k PROVE d[r.pos + j] \in Nat
    BY <1>1, <2>1
  <2>2. r.data \in [1 .. 32 -> Nat]
    BY DEF Input, DataArray
  <2>. QED BY <2>1, <2>2 DEF DataArray
<1>4. \A j \in 1 .. 32 : j <= k => f[j] = d[r.pos + j]
  OBVIOUS
<1>5. p \in Nat
  BY <1>1
<1>. HIDE DEF f, p
<1>6. v \in Input
  BY <1>3, <1>5, InputNext DEF Input
<1>7. v.cmd = r.cmd /\ v.input = r.input /\ v.pos = p /\ v.data = f
  BY DEF Input
<1>. HIDE DEF v
<1>. QED BY <1>2, <1>4, <1>6, <1>7 DEF k, p

(* What is written of a message: four words, then data and status in the   *)
(* order of the direction, then the length.                                *)
Message == [cmd : Commands, n : Nat, at : Nat]
(* What a written message is made of.                                      *)
LEMMA EncodeIs ==
    ASSUME NEW m \in Message
    PROVE  LET w == File!DataWords(m.cmd)
               e == File!Encode(m)
           IN  /\ w \in 1 .. 32 /\ File!WrdCnt(m.cmd) \in 0 .. w
               /\ File!WrdCnt(m.cmd) < 32 /\ m.cmd \in Nat
               /\ e \in Seq(Nat) /\ Len(e) = w + 6 /\ File!Size(m) = w + 6
               /\ e[3] = m.cmd /\ e[4] = w + 1
               /\ \A j \in 1 .. w :
                      e[(IF File!Tx_Rx(m.cmd) = 0 THEN 4 ELSE 5) + j] = File!Payload(m)
<1>. DEFINE w == File!DataWords(m.cmd)
            data == [j \in 1 .. w |-> File!Payload(m)]
            tx == File!Tx_Rx(m.cmd)
            s == File!Status(m)
            body == IF tx = 0 THEN Append(data, s) ELSE <<s>> \o data
            head == <<File!Valid, m.n, m.cmd, w + 1>>
            e == (head \o body) \o <<(5 + w) * 2>>
<1>1. m.cmd \in Nat /\ m.n \in Nat
  <2>1. Commands \subseteq Nat
    BY ReadersAssumption
  <2>. QED BY <2>1 DEF Message
<1>2. File!WrdCnt(m.cmd) \in 0 .. 31
  BY <1>1 DEF File!WrdCnt
<1>3. w \in 1 .. 32 /\ File!WrdCnt(m.cmd) \in 0 .. w
  BY <1>2 DEF File!DataWords
<1>4. File!Payload(m) \in Nat /\ s \in Nat /\ File!Valid \in Nat
  BY <1>1 DEF File!Payload, File!Status, File!RTAddress, File!Valid
<1>5. File!Encode(m) = e
  BY DEF File!Encode
<1>6. File!Size(m) = w + 6
  BY DEF File!Size
<1>. HIDE DEF w, s, tx
<1>7. data \in Seq(Nat) /\ Len(data) = w /\ \A j \in 1 .. w : data[j] = File!Payload(m)
  BY <1>3, <1>4
<1>. HIDE DEF data
<1>8. /\ body \in Seq(Nat) /\ Len(body) = w + 1
      /\ \A j \in 1 .. w : body[(IF tx = 0 THEN 0 ELSE 1) + j] = File!Payload(m)
  <2>1. CASE tx = 0
    BY <1>3, <1>4, <1>7, <2>1
  <2>2. CASE tx # 0
    <3>1. <<s>> \in Seq(Nat) /\ Len(<<s>>) = 1
      BY <1>4
    <3>2. /\ <<s>> \o data \in Seq(Nat) /\ Len(<<s>> \o data) = 1 + w
          /\ \A j \in 1 .. w : (<<s>> \o data)[1 + j] = data[j]
      BY <1>3, <1>7, <3>1
    <3>. QED BY <1>7, <2>2, <3>2
  <2>. QED BY <2>1, <2>2
<1>. HIDE DEF body
<1>9. head \in Seq(Nat) /\ Len(head) = 4 /\ head[3] = m.cmd /\ head[4] = w + 1
  BY <1>1, <1>3, <1>4
<1>. HIDE DEF head
<1>. DEFINE hb == head \o body
            last == <<(5 + w) * 2>>
<1>. HIDE DEF hb, last
<1>10. /\ hb \in Seq(Nat) /\ Len(hb) = w + 5
       /\ \A j \in 1 .. 4 : hb[j] = head[j]
       /\ \A j \in 1 .. w + 1 : hb[4 + j] = body[j]
  <2>1. /\ hb \in Seq(Nat) /\ Len(hb) = Len(head) + Len(body)
        /\ \A j \in 1 .. Len(head) : hb[j] = head[j]
        /\ \A j \in 1 .. Len(body) : hb[Len(head) + j] = body[j]
    <3>1. /\ head \o body \in Seq(Nat) /\ Len(head \o body) = Len(head) + Len(body)
          /\ \A j \in 1 .. Len(head) : (head \o body)[j] = head[j]
          /\ \A j \in 1 .. Len(body) : (head \o body)[Len(head) + j] = body[j]
      <4>1. head \in Seq(Nat) /\ body \in Seq(Nat)
        BY <1>8, <1>9
      <4>. QED BY <4>1
    <3>. QED BY <3>1, Zenon DEF hb
  <2>. QED BY <1>3, <1>8, <1>9, <2>1
<1>11. /\ e \in Seq(Nat) /\ Len(e) = w + 6
       /\ \A j \in 1 .. w + 5 : e[j] = hb[j]
  <2>1. last \in Seq(Nat) /\ Len(last) = 1 /\ e = hb \o last
    BY <1>3 DEF last, hb
  <2>2. /\ hb \o last \in Seq(Nat) /\ Len(hb \o last) = Len(hb) + Len(last)
        /\ \A j \in 1 .. Len(hb) : (hb \o last)[j] = hb[j]
    BY <1>10, <2>1, Joined
  <2>. HIDE DEF e
  <2>. QED BY <1>3, <1>10, <2>1, <2>2
<1>12. e[3] = m.cmd /\ e[4] = w + 1
  <2>1. 3 \in 1 .. w + 5 /\ 4 \in 1 .. w + 5
    BY <1>3
  <2>. HIDE DEF e
  <2>. QED BY <1>9, <1>10, <1>11, <2>1
<1>13. ASSUME NEW j \in 1 .. w
       PROVE  e[(IF tx = 0 THEN 4 ELSE 5) + j] = File!Payload(m)
  <2>. DEFINE i == (IF tx = 0 THEN 0 ELSE 1) + j
  <2>1. i \in 1 .. w + 1 /\ 4 + i \in 1 .. w + 5 /\ (IF tx = 0 THEN 4 ELSE 5) + j = 4 + i
    BY <1>3
  <2>2. body[i] = File!Payload(m)
    BY <1>8
  <2>. HIDE DEF e, i
  <2>. QED BY <1>10, <1>11, <2>1, <2>2
<1>. HIDE DEF e
<1>14. w = File!DataWords(m.cmd) /\ tx = File!Tx_Rx(m.cmd)
  BY DEF w, tx
<1>15. File!WrdCnt(m.cmd) < 32
  BY <1>2
<1>. QED BY <1>1, <1>3, <1>5, <1>6, <1>11, <1>12, <1>13, <1>14, <1>15, Zenon

(* The numbers of an input.                                                *)
LEMMA Numbers ==
    ASSUME NEW r \in Input
    PROVE  r.pos \in Nat /\ r.input \in Nat /\ r.cmd \in Nat
BY DEF Input

(* The first four words. *)
Head3(d, r) == File!Field(d, File!Field(d, File!Field(d, r, "blk"), "time"), "cmd")
Head4(d, r) == File!Word(d, Head3(d, r))
(* Reading the first four words.                                           *)
LEMMA HeadRead ==
    ASSUME NEW d \in Seq(Nat), NEW r \in Input, r.pos <= Len(d)
    PROVE  LET h == Head3(d, r)
               l == Head4(d, r)
           IN  /\ h \in Input /\ l \in Input /\ l.cmd = h.cmd
               /\ l.pos = (IF r.pos + 4 <= Len(d) THEN r.pos + 4 ELSE Len(d))
               /\ r.pos + 4 <= Len(d) => h.cmd = d[r.pos + 3] /\ l.input = d[r.pos + 4]
<1>. DEFINE b == File!Field(d, r, "blk")
            t == File!Field(d, b, "time")
            h == File!Field(d, t, "cmd")
            l == File!Word(d, h)
            n == Len(d)
            p == r.pos
            p1 == b.pos
            p2 == t.pos
            p3 == h.pos
            p4 == l.pos
<1>1. p \in Nat /\ n \in Nat /\ p <= n
  BY Numbers
<1>2. b \in Input /\ p1 = (IF p < n THEN p + 1 ELSE p)
  BY FieldIs
<1>. HIDE DEF b
<1>3. t \in Input /\ p2 = (IF p1 < n THEN p1 + 1 ELSE p1)
  BY <1>2, FieldIs
<1>. HIDE DEF t
<1>4. h \in Input /\ p3 = (IF p2 < n THEN p2 + 1 ELSE p2)
  BY <1>3, FieldIs
<1>5. p2 < n => h.cmd = d[p2 + 1]
  BY <1>3, FieldIs
<1>. HIDE DEF h
<1>6. l \in Input /\ l.cmd = h.cmd /\ p4 = (IF p3 < n THEN p3 + 1 ELSE p3)
  BY <1>4, WordIs
<1>7. p3 < n => l.input = d[p3 + 1]
  BY <1>4, WordIs
<1>. HIDE DEF l
<1>8. h = Head3(d, r) /\ l = Head4(d, r)
  BY DEF h, l, t, b, Head3, Head4
<1>9. p1 \in Nat /\ p2 \in Nat /\ p3 \in Nat /\ p4 \in Nat
  BY <1>2, <1>3, <1>4, <1>6, Numbers
<1>. HIDE DEF p, n, p1, p2, p3, p4
<1>10. /\ p4 = (IF p + 4 <= n THEN p + 4 ELSE n)
       /\ p + 4 <= n => p2 + 1 = p + 3 /\ p3 + 1 = p + 4 /\ p2 < n /\ p3 < n
  BY <1>1, <1>2, <1>3, <1>4, <1>6, <1>9
<1>11. p + 4 <= n => h.cmd = d[p + 3] /\ l.input = d[p + 4]
  BY <1>5, <1>7, <1>10
<1>. QED BY <1>4, <1>6, <1>8, <1>10, <1>11 DEF p, n, p4

(* The words of a message lie in d behind the first p. *)
Lies(d, p, m) == \A j \in 1 .. File!Size(m) : d[p + j] = File!Encode(m)[j]

(* A message that is whole in the file is read as it was written.          *)
LEMMA WholeRead ==
    ASSUME NEW d \in Seq(Nat), NEW r \in Input, NEW m \in Message,
           r.pos + File!Size(m) <= Len(d), Lies(d, r.pos, m)
    PROVE  LET q == File!ReadMessage(d, r)
           IN  /\ q \in Input /\ q.got /\ q.pos = r.pos + File!Size(m) /\ q.cmd = m.cmd
               /\ \A j \in 1 .. File!DataWords(m.cmd) : q.data[j] = File!Payload(m)
<1>. DEFINE w == File!DataWords(m.cmd)
            at == IF File!Tx_Rx(m.cmd) = 0 THEN 4 ELSE 5
            e == File!Encode(m)
            n == Len(d)
            p == r.pos
            h == Head3(d, r)
            l == Head4(d, r)
            li == l.input
            lp == l.pos
            q == File!ReadMessage(d, r)
            qp == q.pos
<1>1. w \in 1 .. 32
  BY EncodeIs
<1>2. File!Size(m) = w + 6
  BY EncodeIs
<1>3. e[3] = m.cmd /\ e[4] = w + 1
  BY EncodeIs
<1>4. \A j \in 1 .. w : e[at + j] = File!Payload(m)
  BY EncodeIs
<1>. HIDE DEF w, e
<1>5. w \in Nat /\ 1 <= w /\ w <= 32
  BY <1>1
<1>6. p \in Nat /\ n \in Nat /\ p + (w + 6) <= n
  BY <1>2, Numbers
<1>7. \A j \in 1 .. w + 6 : d[p + j] = e[j]
  BY <1>2 DEF Lies, e
<1>. HIDE DEF p, n
<1>8. p + 4 <= n /\ p <= n
  BY <1>5, <1>6
<1>9. lp = p + 4
  BY <1>8, HeadRead DEF p, n
<1>10. h \in Input /\ l \in Input /\ l.cmd = h.cmd /\ h.cmd = d[p + 3] /\ li = d[p + 4]
  BY <1>8, HeadRead DEF p, n
<1>11. q = File!Word(d, IF File!Tx_Rx(h.cmd) = 0
                       THEN File!Field(d, File!Data(d, l, li - 1), "sts")
                       ELSE File!Data(d, File!Field(d, l, "sts"), li - 1))
  BY DEF File!ReadMessage, Head3, Head4
<1>. HIDE DEF h, l, q, lp, li
<1>12. h.cmd = m.cmd /\ l.cmd = m.cmd /\ li = w + 1
  <2>1. 3 \in 1 .. w + 6 /\ 4 \in 1 .. w + 6
    BY <1>5
  <2>. QED BY <1>3, <1>10, <1>7, <2>1
<1>13. li - 1 = w
  BY <1>5, <1>12
<1>14. ASSUME NEW j \in 1 .. w PROVE d[p + (at + j)] = File!Payload(m)
  <2>1. at + j \in 1 .. w + 6
    BY <1>5
  <2>. QED BY <1>4, <1>7, <2>1
<1>15. CASE File!Tx_Rx(m.cmd) = 0
  <2>. DEFINE x == File!Data(d, l, w)
              s == File!Field(d, x, "sts")
              xp == x.pos
              sp == s.pos
  <2>1. w \in 0 .. n - lp /\ lp <= n
    BY <1>5, <1>6, <1>9
  <2>2. x \in Input /\ xp = lp + w
    BY <1>10, <2>1, DataIs DEF lp, n
  <2>3. x.cmd = l.cmd
    BY <1>10, <2>1, DataIs DEF lp, n
  <2>4. \A j \in 1 .. 32 : j <= w => x.data[j] = d[lp + j]
    BY <1>10, <2>1, DataIs DEF lp, n
  <2>. HIDE DEF x, xp
  <2>5. xp < n /\ xp + 1 = p + (w + 5)
    BY <1>5, <1>6, <1>9, <2>2
  <2>6. s \in Input /\ sp = xp + 1
    BY <2>2, <2>5, FieldIs DEF xp, n
  <2>7. s.cmd = x.cmd /\ s.data = x.data
    BY <2>2, <2>5, FieldIs DEF xp, n
  <2>8. q = File!Word(d, s)
    BY <1>11, <1>12, <1>13, <1>15 DEF x
  <2>. HIDE DEF s, sp
  <2>9. sp < n /\ sp + 1 = p + (w + 6)
    BY <1>5, <1>6, <2>5, <2>6
  <2>10. q \in Input /\ q.got /\ q.cmd = s.cmd /\ q.data = s.data /\ qp = sp + 1
    BY <2>6, <2>8, <2>9, WordIs DEF sp, n
  <2>11. ASSUME NEW j \in 1 .. w PROVE q.data[j] = File!Payload(m)
    <3>1. j \in 1 .. 32 /\ j <= w /\ lp + j = p + (at + j)
      BY <1>5, <1>6, <1>9, <1>15
    <3>2. d[lp + j] = File!Payload(m)
      BY <1>14, <3>1
    <3>. QED BY <2>4, <2>7, <2>10, <3>1, <3>2
  <2>. QED BY <1>2, <1>12, <2>3, <2>7, <2>9, <2>10, <2>11, Zenon DEF q, p, w
<1>16. CASE File!Tx_Rx(m.cmd) # 0
  <2>. DEFINE s == File!Field(d, l, "sts")
              x == File!Data(d, s, w)
              xp == x.pos
              sp == s.pos
  <2>1. lp < n
    BY <1>5, <1>6, <1>9
  <2>2. s \in Input /\ sp = lp + 1
    BY <1>10, <2>1, FieldIs DEF lp, n
  <2>3. s.cmd = l.cmd
    BY <1>10, <2>1, FieldIs DEF lp, n
  <2>. HIDE DEF s, sp
  <2>4. w \in 0 .. n - sp /\ sp <= n
    BY <1>5, <1>6, <1>9, <2>2
  <2>5. x \in Input /\ xp = sp + w
    BY <2>2, <2>4, DataIs DEF sp, n
  <2>6. x.cmd = s.cmd
    BY <2>2, <2>4, DataIs DEF sp, n
  <2>7. \A j \in 1 .. 32 : j <= w => x.data[j] = d[sp + j]
    BY <2>2, <2>4, DataIs DEF sp, n
  <2>8. q = File!Word(d, x)
    BY <1>11, <1>12, <1>13, <1>16 DEF s
  <2>. HIDE DEF x, xp
  <2>9. xp < n /\ xp + 1 = p + (w + 6)
    BY <1>5, <1>6, <1>9, <2>2, <2>5
  <2>10. q \in Input /\ q.got /\ q.cmd = x.cmd /\ q.data = x.data /\ qp = xp + 1
    BY <2>5, <2>8, <2>9, WordIs DEF xp, n
  <2>11. ASSUME NEW j \in 1 .. w PROVE q.data[j] = File!Payload(m)
    <3>1. j \in 1 .. 32 /\ j <= w /\ sp + j = p + (at + j)
      BY <1>5, <1>6, <1>9, <1>16, <2>2
    <3>2. d[sp + j] = File!Payload(m)
      BY <1>14, <3>1
    <3>. QED BY <2>7, <2>10, <3>1, <3>2
  <2>. QED BY <1>2, <1>12, <2>3, <2>6, <2>9, <2>10, <2>11, Zenon DEF q, p, w
<1>. QED BY <1>15, <1>16

(* A message that is not whole has no last word. *)
LEMMA CutShort ==
    ASSUME NEW d \in Seq(Nat), NEW r \in Input, NEW w \in 1 .. 32, r.pos <= Len(d),
           Len(d) < r.pos + (w + 6), r.pos + 4 <= Len(d) => d[r.pos + 4] = w + 1
    PROVE  File!ReadMessage(d, r) \in Input /\ ~File!ReadMessage(d, r).got
<1>. DEFINE n == Len(d)
            p == r.pos
            h == Head3(d, r)
            l == Head4(d, r)
            li == l.input
            lp == l.pos
            c == li - 1
            q == File!ReadMessage(d, r)
<1>1. p \in Nat /\ n \in Nat /\ p <= n /\ n < p + (w + 6)
  BY Numbers
<1>2. l \in Input /\ lp = (IF p + 4 <= n THEN p + 4 ELSE n)
  BY HeadRead
<1>3. p + 4 <= n => li = w + 1
  BY HeadRead
<1>4. q = File!Word(d, IF File!Tx_Rx(h.cmd) = 0
                       THEN File!Field(d, File!Data(d, l, c), "sts")
                       ELSE File!Data(d, File!Field(d, l, "sts"), c))
  BY DEF File!ReadMessage, Head3, Head4
<1>. HIDE DEF h, l, q
<1>5. lp \in Nat /\ li \in Nat
  BY <1>2, Numbers
<1>. HIDE DEF n, p, lp, li
<1>6. c \in Int /\ (p + 4 <= n => c = w) /\ lp <= n
  BY <1>1, <1>2, <1>3, <1>5
<1>. HIDE DEF c
<1>7. CASE File!Tx_Rx(h.cmd) = 0
  <2>. DEFINE k == IF c \in 0 .. n - lp THEN c ELSE n - lp
              x == File!Data(d, l, c)
              xp == x.pos
              s == File!Field(d, x, "sts")
              sp == s.pos
  <2>1. x \in Input /\ xp = lp + k
    BY <1>2, <1>6, DataIs DEF lp, n
  <2>2. xp \in Nat
    BY <2>1, Numbers
  <2>. HIDE DEF x, xp
  <2>3. s \in Input /\ sp = (IF xp < n THEN xp + 1 ELSE xp)
    BY <2>1, FieldIs DEF xp, n
  <2>4. q = File!Word(d, s)
    BY <1>4, <1>7 DEF x
  <2>. HIDE DEF s, sp
  <2>5. ~(sp < n)
    BY <1>1, <1>2, <1>5, <1>6, <2>1, <2>2, <2>3
  <2>. QED BY <2>3, <2>4, <2>5, WordIs DEF sp, n, q
<1>8. CASE File!Tx_Rx(h.cmd) # 0
  <2>. DEFINE s == File!Field(d, l, "sts")
              sp == s.pos
              k == IF c \in 0 .. n - sp THEN c ELSE n - sp
              x == File!Data(d, s, c)
              xp == x.pos
  <2>1. s \in Input /\ sp = (IF lp < n THEN lp + 1 ELSE lp)
    BY <1>2, FieldIs DEF lp, n
  <2>. HIDE DEF s, sp
  <2>2. sp \in Nat /\ sp <= n
    BY <1>1, <1>5, <1>6, <2>1
  <2>3. x \in Input /\ xp = sp + k
    BY <2>1, <2>2, DataIs DEF sp, n
  <2>4. q = File!Word(d, x)
    BY <1>4, <1>8 DEF s
  <2>. HIDE DEF x, xp
  <2>5. ~(xp < n)
    BY <1>1, <1>2, <1>5, <1>6, <2>1, <2>2, <2>3
  <2>. QED BY <2>3, <2>4, <2>5, WordIs DEF xp, n, q
<1>. QED BY <1>7, <1>8
-----------------------------------------------------------------------------
(* The bus file.                                                           *)
BeginsAt(m) == m.at
EndsAt(m) == m.at + File!Size(m)
FirstWord(b, ws, k) == IF k \in DOMAIN b THEN BeginsAt(b[k]) ELSE Len(ws)

(* A file is its messages one behind the other: messages b, words ws. *)
InPlace(b, ws, k) ==
    /\ b[k].n = k /\ EndsAt(b[k]) <= Len(ws) /\ Lies(ws, BeginsAt(b[k]), b[k])
    /\ EndsAt(b[k]) = FirstWord(b, ws, k + 1)
Apart(b) == \A i, j \in 1 .. Len(b) : i < j => EndsAt(b[i]) <= BeginsAt(b[j])
Grown(b, ws) ==
    /\ b \in Seq(Message) /\ ws \in Seq(Nat)
    /\ \A k \in 1 .. Len(b) : InPlace(b, ws, k)
    /\ FirstWord(b, ws, 1) = 0
    /\ Apart(b)

(* Where a message begins, ends and how many words it has.                 *)
LEMMA Edges ==
    ASSUME NEW m \in Message
    PROVE  /\ BeginsAt(m) \in Nat /\ File!Size(m) \in Nat /\ EndsAt(m) \in Nat
           /\ EndsAt(m) = BeginsAt(m) + File!Size(m) /\ 7 <= File!Size(m)
<1>1. File!DataWords(m.cmd) \in 1 .. 32 /\ File!Size(m) = File!DataWords(m.cmd) + 6
  BY EncodeIs
<1>. DEFINE w == File!DataWords(m.cmd)
            s == File!Size(m)
            a == m.at
<1>2. a \in Nat
  BY DEF Message
<1>3. w \in 1 .. 32 /\ s = w + 6
  BY <1>1
<1>. HIDE DEF w, a
<1>4. s \in Nat /\ 7 <= s
  BY <1>3
<1>5. BeginsAt(m) = a /\ EndsAt(m) = a + s
  BY DEF BeginsAt, EndsAt, a
<1>. HIDE DEF s
<1>6. a + s \in Nat
  BY <1>2, <1>4
<1>. QED BY <1>2, <1>4, <1>5, <1>6 DEF s

(* fwrite puts a message behind the others.                                *)
LEMMA GrownOn ==
    ASSUME NEW b, NEW ws, Grown(b, ws), NEW cmd \in Commands
    PROVE  LET m == [cmd |-> cmd, n |-> Len(b) + 1, at |-> Len(ws)]
               b2 == Append(b, m)
               ws2 == ws \o File!Encode(m)
           IN  /\ Grown(b2, ws2)
               /\ Len(b2) = Len(b) + 1 /\ Len(ws) <= Len(ws2)
               /\ \A k \in 1 .. Len(b) : b2[k] = b[k]
               /\ \A k \in 1 .. Len(b) + 1 : FirstWord(b2, ws2, k) = FirstWord(b, ws, k)
<1>. DEFINE n == Len(b)
            L == Len(ws)
            m == [cmd |-> cmd, n |-> n + 1, at |-> L]
            e == File!Encode(m)
            s == File!Size(m)
            b2 == Append(b, m)
            ws2 == ws \o e
<1>1. b \in Seq(Message) /\ ws \in Seq(Nat) /\ n \in Nat /\ L \in Nat
  BY DEF Grown
<1>2. m \in Message
  BY <1>1 DEF Message
<1>3. BeginsAt(m) = L /\ m.n = n + 1
  BY DEF BeginsAt
<1>. HIDE DEF m
<1>4. s \in Nat /\ EndsAt(m) = L + s /\ e \in Seq(Nat) /\ Len(e) = s
  BY <1>2, <1>3, Edges, EncodeIs
<1>5. b2 \in Seq(Message) /\ Len(b2) = n + 1 /\ DOMAIN b2 = 1 .. n + 1 /\ b2[n + 1] = m
  BY <1>1, <1>2
<1>6. \A k \in 1 .. n : b2[k] = b[k] /\ b[k] \in Message
  BY <1>1, <1>2
<1>. HIDE DEF e
<1>7. /\ ws2 \in Seq(Nat) /\ Len(ws2) = L + s
      /\ \A j \in 1 .. L : ws2[j] = ws[j]
      /\ \A j \in 1 .. s : ws2[L + j] = e[j]
  BY <1>1, <1>4, Joined
<1>. HIDE DEF b2, ws2, s
<1>8. ASSUME NEW k \in 1 .. n + 1 PROVE FirstWord(b2, ws2, k) = FirstWord(b, ws, k)
  <2>1. CASE k \in 1 .. n
    BY <1>1, <1>5, <1>6, <2>1 DEF FirstWord
  <2>2. CASE k = n + 1
    <3>1. k \in DOMAIN b2 /\ k \notin DOMAIN b
      BY <1>1, <1>5, <2>2
    <3>. QED BY <1>3, <1>5, <2>2, <3>1 DEF FirstWord
  <2>. QED BY <1>1, <2>1, <2>2
<1>9. ASSUME NEW k \in 1 .. n PROVE InPlace(b2, ws2, k)
  <2>. DEFINE c == b[k]
              f == BeginsAt(c)
              z == EndsAt(c)
  <2>1. c.n = k /\ z <= L /\ Lies(ws, f, c) /\ z = FirstWord(b, ws, k + 1)
    BY DEF Grown, InPlace
  <2>2. c \in Message /\ b2[k] = c
    BY <1>6
  <2>3. f \in Nat /\ File!Size(c) \in Nat /\ z = f + File!Size(c)
    BY <2>2, Edges
  <2>4. k + 1 \in 1 .. n + 1 /\ FirstWord(b2, ws2, k + 1) = FirstWord(b, ws, k + 1)
    BY <1>1, <1>8
  <2>. HIDE DEF c, f, z
  <2>5. ASSUME NEW j \in 1 .. File!Size(c) PROVE ws2[f + j] = File!Encode(c)[j]
    <3>1. f + j \in 1 .. L
      BY <1>1, <2>1, <2>3
    <3>. QED BY <1>7, <2>1, <3>1 DEF Lies
  <2>6. Lies(ws2, f, c)
    BY <2>5 DEF Lies
  <2>7. z <= Len(ws2)
    BY <1>1, <1>4, <1>7, <2>1, <2>3
  <2>. QED BY <2>1, <2>2, <2>4, <2>6, <2>7, Zenon DEF InPlace, f, z
<1>10. InPlace(b2, ws2, n + 1)
  <2>1. Lies(ws2, L, m)
    BY <1>7 DEF Lies, e, s
  <2>2. n + 1 + 1 \notin DOMAIN b2
    BY <1>1, <1>5
  <2>3. FirstWord(b2, ws2, n + 1 + 1) = L + s
    BY <1>7, <2>2 DEF FirstWord
  <2>4. EndsAt(m) <= Len(ws2)
    BY <1>1, <1>4, <1>7
  <2>. QED BY <1>3, <1>4, <1>5, <2>1, <2>3, <2>4, Zenon DEF InPlace
<1>11. ASSUME NEW i \in 1 .. n + 1, NEW j \in 1 .. n + 1, i < j
       PROVE  EndsAt(b2[i]) <= BeginsAt(b2[j])
  <2>1. i \in 1 .. n
    BY <1>1, <1>11
  <2>2. CASE j \in 1 .. n
    <3>1. EndsAt(b[i]) <= BeginsAt(b[j])
      BY <1>11, <2>1, <2>2 DEF Grown, Apart
    <3>. QED BY <1>6, <2>1, <2>2, <3>1
  <2>3. CASE j = n + 1
    <3>1. EndsAt(b[i]) <= L
      BY <2>1 DEF Grown, InPlace
    <3>. QED BY <1>3, <1>5, <1>6, <2>1, <2>3, <3>1
  <2>. QED BY <1>1, <2>2, <2>3
<1>12. FirstWord(b2, ws2, 1) = 0
  <2>1. 1 \in 1 .. n + 1
    BY <1>1
  <2>. QED BY <1>8, <2>1 DEF Grown
<1>13. \A k \in 1 .. n + 1 : InPlace(b2, ws2, k)
  <2>1. \A k \in 1 .. n + 1 : k \in 1 .. n \/ k = n + 1
    BY <1>1
  <2>. QED BY <1>9, <1>10, <2>1
<1>14. Grown(b2, ws2)
  BY <1>5, <1>7, <1>11, <1>12, <1>13 DEF Grown, Apart
<1>15. L <= Len(ws2)
  BY <1>1, <1>4, <1>7
<1>. QED BY <1>5, <1>6, <1>8, <1>14, <1>15 DEF b2, ws2, m, e

(* A turn of a loop that has read k messages reads the next if it is whole *)
(* on the disk; if it is not, the messages read are all there are.         *)
WholeOf(b, fl) == {b[k] : k \in {i \in DOMAIN b : b[i].at + File!Size(b[i]) <= fl}}
FirstOnes(b, k) == {b[i] : i \in 1 .. k}
(* One turn at the beginning of message k + 1 of a file of which fl words  *)
(* are on the disk.                                                        *)
LEMMA TurnIs ==
    ASSUME NEW b, NEW ws, Grown(b, ws), NEW fl \in 0 .. Len(ws), NEW r \in Input,
           NEW k \in 0 .. Len(b), r.pos = FirstWord(b, ws, k + 1), r.pos <= fl
    PROVE  LET q == File!ReadMessage(SubSeq(ws, 1, fl), r)
           IN  /\ q \in Input
               /\ q.got => /\ k + 1 \in 1 .. Len(b) /\ q.cmd = b[k + 1].cmd
                           /\ q.pos = FirstWord(b, ws, k + 2) /\ q.pos <= fl
                           /\ \A j \in 1 .. File!DataWords(b[k + 1].cmd) :
                                 q.data[j] = File!Payload(b[k + 1])
               /\ ~q.got => WholeOf(b, fl) = FirstOnes(b, k)
<1>. DEFINE d == SubSeq(ws, 1, fl)
            n == Len(b)
            L == Len(ws)
            p == r.pos
            q == File!ReadMessage(d, r)
            m == b[k + 1]
<1>1. ws \in Seq(Nat) /\ b \in Seq(Message) /\ n \in Nat /\ L \in Nat
  BY DEF Grown
<1>2. d \in Seq(Nat) /\ Len(d) = fl /\ \A j \in 1 .. fl : d[j] = ws[j]
  BY <1>1
<1>. HIDE DEF d
<1>3. p \in Nat /\ p <= fl /\ fl \in Nat /\ fl <= L /\ k \in Nat /\ k <= n
  BY <1>1, Numbers
<1>4. p = FirstWord(b, ws, k + 1)
  OBVIOUS
<1>. HIDE DEF p
<1>5. ASSUME NEW i \in 1 .. k PROVE EndsAt(b[i]) <= p
  <2>1. b[i] \in Message /\ i \in 1 .. n
    BY <1>1, <1>3
  <2>2. CASE k + 1 \in 1 .. n
    <3>1. EndsAt(b[i]) <= BeginsAt(b[k + 1])
      BY <1>3, <2>1, <2>2 DEF Grown, Apart
    <3>. QED BY <1>1, <1>4, <2>2, <3>1 DEF FirstWord
  <2>3. CASE k + 1 \notin 1 .. n
    <3>1. EndsAt(b[i]) <= L
      BY <2>1 DEF Grown, InPlace
    <3>. QED BY <1>1, <1>4, <2>3, <3>1 DEF FirstWord
  <2>. QED BY <2>2, <2>3
<1>6. FirstOnes(b, k) \subseteq WholeOf(b, fl)
  <2>1. ASSUME NEW i \in 1 .. k PROVE i \in DOMAIN b /\ b[i].at + File!Size(b[i]) <= fl
    <3>1. i \in 1 .. n /\ b[i] \in Message
      BY <1>1, <1>3
    <3>2. EndsAt(b[i]) \in Nat /\ EndsAt(b[i]) <= p
      BY <1>5, <3>1, Edges
    <3>3. EndsAt(b[i]) <= fl
      BY <1>3, <3>2
    <3>. QED BY <1>1, <3>1, <3>3 DEF EndsAt
  <2>. QED BY <2>1 DEF FirstOnes, WholeOf
<1>7. ASSUME k + 1 \in 1 .. n => ~(EndsAt(m) <= fl) PROVE WholeOf(b, fl) = FirstOnes(b, k)
  <2>1. ASSUME NEW i \in 1 .. n, EndsAt(b[i]) <= fl PROVE i \in 1 .. k
    <3>1. ASSUME ~(i <= k) PROVE FALSE
      <4>1. k + 1 \in 1 .. n /\ (k + 1 < i \/ k + 1 = i)
        BY <1>1, <1>3, <3>1
      <4>2. ~(EndsAt(m) <= fl)
        BY <1>7, <4>1
      <4>3. k + 1 < i
        BY <2>1, <4>1, <4>2
      <4>4. EndsAt(m) <= BeginsAt(b[i])
        BY <4>1, <4>3 DEF Grown, Apart
      <4>5. m \in Message /\ b[i] \in Message
        BY <1>1, <4>1
      <4>6. /\ EndsAt(m) \in Nat /\ BeginsAt(b[i]) \in Nat /\ File!Size(b[i]) \in Nat
            /\ EndsAt(b[i]) = BeginsAt(b[i]) + File!Size(b[i])
        BY <4>5, Edges
      <4>. HIDE DEF m
      <4>. QED BY <1>3, <2>1, <4>2, <4>4, <4>6
    <3>. QED BY <1>3, <3>1
  <2>2. \A i \in DOMAIN b : b[i].at + File!Size(b[i]) <= fl => i \in 1 .. k
    BY <1>1, <2>1 DEF EndsAt
  <2>3. WholeOf(b, fl) \subseteq FirstOnes(b, k)
    BY <2>2 DEF WholeOf, FirstOnes
  <2>. QED BY <1>6, <2>3
<1>8. CASE k + 1 \in 1 .. n
  <2>1. m \in Message /\ InPlace(b, ws, k + 1)
    BY <1>1, <1>8 DEF Grown
  <2>. DEFINE s == File!Size(m)
              z == EndsAt(m)
  <2>2. p = BeginsAt(m)
    BY <1>1, <1>4, <1>8 DEF FirstWord
  <2>3. s \in Nat /\ 7 <= s /\ z = p + s
    BY <2>1, <2>2, Edges
  <2>4. Lies(ws, p, m) /\ z <= L /\ z = FirstWord(b, ws, k + 1 + 1)
    BY <2>1, <2>2 DEF InPlace
  <2>5. k + 1 + 1 = k + 2
    BY <1>3
  <2>. HIDE DEF m, s, z
  <2>6. CASE z <= fl
    <3>1. ASSUME NEW j \in 1 .. s PROVE d[p + j] = File!Encode(m)[j]
      <4>1. p + j \in 1 .. fl
        BY <1>3, <2>3, <2>6
      <4>. QED BY <1>2, <2>4, <4>1 DEF Lies, s
    <3>2. Lies(d, p, m)
      BY <3>1 DEF Lies, s
    <3>3. p + s <= Len(d)
      BY <1>2, <2>3, <2>6
    <3>4. /\ q \in Input /\ q.got /\ q.pos = p + s /\ q.cmd = m.cmd
          /\ \A j \in 1 .. File!DataWords(m.cmd) : q.data[j] = File!Payload(m)
      BY <1>2, <2>1, <3>2, <3>3, WholeRead DEF p, s
    <3>5. q.pos = FirstWord(b, ws, k + 2) /\ q.pos <= fl
      BY <2>3, <2>4, <2>5, <2>6, <3>4
    <3>. HIDE DEF q
    <3>6. q.cmd = b[k + 1].cmd
          /\ \A j \in 1 .. File!DataWords(b[k + 1].cmd) : q.data[j] = File!Payload(b[k + 1])
      BY <3>4 DEF m
    <3>. QED BY <1>8, <3>4, <3>5, <3>6 DEF q, d
  <2>7. CASE ~(z <= fl)
    <3>. DEFINE w == File!DataWords(m.cmd)
    <3>1. w \in 1 .. 32 /\ s = w + 6
      BY <2>1, EncodeIs DEF s
    <3>2. File!Encode(m)[4] = w + 1
      BY <2>1, EncodeIs
    <3>. HIDE DEF w
    <3>3. fl < p + (w + 6)
      BY <1>3, <2>3, <2>7, <3>1
    <3>4. ASSUME p + 4 <= fl PROVE d[p + 4] = w + 1
      <4>1. p + 4 \in 1 .. fl /\ 4 \in 1 .. s
        BY <1>3, <2>3, <3>4
      <4>. QED BY <1>2, <2>4, <3>2, <4>1 DEF Lies, s
    <3>5. q \in Input /\ ~q.got
      BY <1>2, <1>3, <3>1, <3>3, <3>4, CutShort DEF p
    <3>6. WholeOf(b, fl) = FirstOnes(b, k)
      BY <1>7, <2>7 DEF z, m
    <3>. QED BY <3>5, <3>6 DEF d
  <2>. QED BY <2>6, <2>7
<1>9. CASE k + 1 \notin 1 .. n
  <2>1. p = L
    BY <1>1, <1>4, <1>9 DEF FirstWord
  <2>2. fl < p + (1 + 6) /\ ~(p + 4 <= fl)
    BY <1>3, <2>1
  <2>3. 1 \in 1 .. 32
    OBVIOUS
  <2>4. q \in Input /\ ~q.got
    BY <1>2, <1>3, <2>2, <2>3, CutShort DEF p
  <2>5. WholeOf(b, fl) = FirstOnes(b, k)
    BY <1>7, <1>9
  <2>. QED BY <2>4, <2>5 DEF d
<1>. QED BY <1>8, <1>9

-----------------------------------------------------------------------------
(* The entries of Output.                                                  *)
Item == [n : Nat, combo : Combination, data : Seq(Nat)]

(* A command word is of one combination.                                   *)
LEMMA CombinationIs ==
    ASSUME NEW cmd \in Nat
    PROVE  File!Combo(cmd) \in Combination /\ File!WrdCnt(cmd) \in 0 .. 31
BY DEF File!Combo, File!RTAddress, File!SubAddr, File!WrdCnt, Combination

(* A function of 1 .. n is a list of n items.                              *)
LEMMA FunctionIsSeq ==
    ASSUME NEW S, NEW n \in Nat, NEW t \in [1 .. n -> S]
    PROVE  t \in Seq(S) /\ Len(t) = n
OBVIOUS

(* The first m items of a list, item by item.                              *)
LEMMA FirstWords ==
    ASSUME NEW S, NEW q \in Seq(S), NEW m \in 0 .. Len(q)
    PROVE  SubSeq(q, 1, m) \in Seq(S) /\ SubSeq(q, 1, m) = [j \in 1 .. m |-> q[j]]
OBVIOUS

(* The entry made of a whole message is that message.                      *)
LEMMA EntryIs ==
    ASSUME NEW q \in Input, NEW k \in Nat
    PROVE  /\ File!Entry(k, q) \in Item /\ File!Entry(k, q).n = k
           /\ \A m \in Message :
                 /\ q.cmd = m.cmd /\ m.n = k
                 /\ \A j \in 1 .. File!DataWords(m.cmd) : q.data[j] = File!Payload(m)
                 => File!Entry(k, q) = File!Written(m)
<1>. DEFINE c == q.cmd
            t == q.data
            w == File!WrdCnt(c)
            u == SubSeq(t, 1, w)
            o == File!Combo(c)
            x == File!Entry(k, q)
            FilledFrom(m) == \A j \in 1 .. File!DataWords(m.cmd) : t[j] = File!Payload(m)
<1>1. c \in Nat /\ t \in [1 .. 32 -> Nat]
  BY DEF Input, DataArray
<1>2. o \in Combination /\ w \in 0 .. 31
  BY <1>1, CombinationIs
<1>3. x = [n |-> k, combo |-> o, data |-> u]
  BY DEF File!Entry
<1>. HIDE DEF c, t, o, w, x
<1>4. u = [j \in 1 .. w |-> t[j]] /\ u \in Seq(Nat)
  <2>1. t \in Seq(Nat) /\ Len(t) = 32
    BY <1>1, FunctionIsSeq
  <2>2. w \in 0 .. Len(t)
    BY <1>2, <2>1
  <2>. QED BY <2>1, <2>2, FirstWords
<1>. HIDE DEF u
<1>5. x \in Item /\ x.n = k
  BY <1>2, <1>3, <1>4 DEF Item
<1>6. ASSUME NEW m \in Message, c = m.cmd, m.n = k, FilledFrom(m)
      PROVE  x = File!Written(m)
  <2>. DEFINE dw == File!DataWords(m.cmd)
  <2>1. dw \in 1 .. 32 /\ w \in 0 .. dw
    BY <1>6, EncodeIs DEF w
  <2>. HIDE DEF dw
  <2>2. 1 .. w \subseteq 1 .. dw
    BY <2>1
  <2>3. u = [j \in 1 .. w |-> File!Payload(m)]
    BY <1>4, <1>6, <2>2 DEF dw
  <2>. QED BY <1>3, <1>6, <2>3 DEF File!Written, o, w
<1>. HIDE DEF FilledFrom
<1>7. \A m \in Message : c = m.cmd /\ m.n = k /\ FilledFrom(m) => x = File!Written(m)
  BY <1>6
<1>. QED BY <1>5, <1>7 DEF c, t, x, FilledFrom

(* The instance counts as the module does.                                 *)
LEMMA SameCount == \A S : File!Cardinality(S) = Cardinality(S)
BY DEF File!Cardinality, Cardinality

(* A combination selected once is shown once, another is not shown.        *)
LEMMA CopiesAre ==
    ASSUME NEW sel \in Seq(Combination), IsInjective(sel), NEW c
    PROVE  /\ File!Copies(sel, c) \in {0, 1}
           /\ File!Copies(sel, c) = 1 <=> File!Selected(sel, c)
<1>. DEFINE I == {i \in DOMAIN sel : sel[i] = c}
<1>1. CASE sel = <<>>
  BY <1>1 DEF File!Copies, File!Selected
<1>2. CASE sel # <<>>
  <2>1. File!Copies(sel, c) = Cardinality(I)
    BY <1>2, SameCount DEF File!Copies
  <2>2. File!Selected(sel, c) <=> \E i \in DOMAIN sel : sel[i] = c
    BY <1>2 DEF File!Selected, File!ToSet
  <2>3. CASE \E i \in DOMAIN sel : sel[i] = c
    <3>1. PICK i \in DOMAIN sel : sel[i] = c
      BY <2>3
    <3>2. I = {i}
      BY <3>1 DEF IsInjective
    <3>3. Cardinality(I) = 1
      BY <3>2, FS_Singleton
    <3>. QED BY <2>1, <2>2, <2>3, <3>3
  <2>4. CASE ~ \E i \in DOMAIN sel : sel[i] = c
    <3>1. I = {}
      BY <2>4
    <3>2. Cardinality(I) = 0
      BY <3>1, FS_EmptySet
    <3>. QED BY <2>1, <2>2, <2>4, <3>2
  <2>. QED BY <2>3, <2>4
<1>. QED BY <1>1, <1>2

(* An entry put behind Output, or none.                                    *)
LEMMA OneMore ==
    ASSUME NEW S, NEW out \in Seq(S), NEW x \in S, NEW cp \in {0, 1}
    PROVE  LET r == out \o [i \in 1 .. cp |-> x]
           IN  /\ r \in Seq(S) /\ Len(r) = Len(out) + cp /\ DOMAIN r = 1 .. Len(out) + cp
               /\ \A i \in 1 .. Len(out) : r[i] = out[i]
               /\ cp = 1 => r[Len(out) + 1] = x
<1>. DEFINE t == [i \in 1 .. cp |-> x]
            r == out \o t
<1>1. t \in Seq(S) /\ Len(t) = cp /\ (cp = 1 => t[1] = x)
  OBVIOUS
<1>. HIDE DEF t
<1>2. /\ r \in Seq(S) /\ Len(r) = Len(out) + Len(t)
      /\ \A j \in 1 .. Len(out) : r[j] = out[j]
      /\ \A j \in 1 .. Len(t) : r[Len(out) + j] = t[j]
  BY <1>1, Joined
<1>3. cp = 1 => r[Len(out) + 1] = x
  BY <1>1, <1>2
<1>. HIDE DEF r
<1>4. DOMAIN r = 1 .. Len(out) + cp
  BY <1>1, <1>2
<1>. QED BY <1>1, <1>2, <1>3, <1>4 DEF r, t

(* What k messages of a file leave in Output.                              *)
Due(sel, m) == File!Selected(sel, File!Combo(m.cmd))
EntriesOf(out, sel, b, k) ==
    /\ out \in Seq(Item)
    /\ \A i \in DOMAIN out : \E j \in 1 .. k : Due(sel, b[j]) /\ out[i] = File!Written(b[j])
    /\ \A j \in 1 .. k : Due(sel, b[j]) => \E i \in DOMAIN out : out[i] = File!Written(b[j])
    /\ \A i, j \in DOMAIN out : i < j => out[i].n < out[j].n
Faithful(out, msgs, sel) ==
    LET due == {m \in msgs : File!Selected(sel, File!Combo(m.cmd))}
    IN  /\ \A m \in due : \E i \in DOMAIN out : out[i] = File!Written(m)
        /\ \A i \in DOMAIN out :
              \/ \E m \in due : out[i] = File!Written(m)
              \/ i = Len(out) /\ \A m \in msgs : m.n < out[i].n
        /\ \A i, j \in DOMAIN out : i < j => out[i].n < out[j].n

(* The entries of k messages have numbers up to k.                         *)
LEMMA Numbered ==
    ASSUME NEW b, NEW ws, Grown(b, ws), NEW k \in 0 .. Len(b), NEW out, NEW sel,
           EntriesOf(out, sel, b, k), NEW i \in DOMAIN out
    PROVE  out[i].n \in Nat /\ out[i].n <= k
<1>1. PICK j \in 1 .. k : out[i] = File!Written(b[j])
  BY DEF EntriesOf
<1>2. Len(b) \in Nat
  BY DEF Grown
<1>3. j \in 1 .. Len(b) /\ j \in Nat /\ j <= k
  BY <1>2
<1>4. b[j].n = j
  BY <1>3 DEF Grown, InPlace
<1>5. out[i].n = j
  BY <1>1, <1>4 DEF File!Written
<1>. QED BY <1>3, <1>5

(* The entries of k messages and that of the next are those of k + 1.      *)
LEMMA EntriesNext ==
    ASSUME NEW b, NEW ws, Grown(b, ws), NEW k \in 0 .. Len(b), k + 1 \in 1 .. Len(b),
           NEW out, NEW sel, EntriesOf(out, sel, b, k),
           NEW x \in Item, x = File!Written(b[k + 1]), x.n = k + 1,
           NEW cp \in {0, 1}, cp = 1 <=> Due(sel, b[k + 1])
    PROVE  EntriesOf(out \o [i \in 1 .. cp |-> x], sel, b, k + 1)
<1>. DEFINE r == out \o [i \in 1 .. cp |-> x]
            n == Len(out)
<1>1. out \in Seq(Item) /\ n \in Nat /\ DOMAIN out = 1 .. n
  BY DEF EntriesOf
<1>2. /\ r \in Seq(Item) /\ DOMAIN r = 1 .. n + cp
      /\ \A i \in 1 .. n : r[i] = out[i]
      /\ cp = 1 => r[n + 1] = x
  BY <1>1, OneMore
<1>. HIDE DEF r, n
<1>3. k \in Nat /\ k + 1 \in 1 .. k + 1 /\ 1 .. k \subseteq 1 .. k + 1
      /\ \A j \in 1 .. k + 1 : j \in 1 .. k \/ j = k + 1
  <2>1. Len(b) \in Nat
    BY DEF Grown
  <2>. QED BY <2>1
<1>4. 1 .. n \subseteq DOMAIN r
      /\ \A i \in DOMAIN r : i \in 1 .. n \/ (i = n + 1 /\ cp = 1)
  BY <1>1, <1>2
<1>5. ASSUME NEW i \in DOMAIN r
      PROVE  \E j \in 1 .. k + 1 : Due(sel, b[j]) /\ r[i] = File!Written(b[j])
  <2>1. CASE i \in 1 .. n
    BY <1>1, <1>2, <1>3, <2>1 DEF EntriesOf
  <2>2. CASE i = n + 1 /\ cp = 1
    BY <1>2, <1>3, <2>2
  <2>. QED BY <1>4, <2>1, <2>2
<1>6. ASSUME NEW j \in 1 .. k + 1, Due(sel, b[j])
      PROVE  \E i \in DOMAIN r : r[i] = File!Written(b[j])
  <2>1. CASE j \in 1 .. k
    <3>1. PICK i \in DOMAIN out : out[i] = File!Written(b[j])
      BY <1>6, <2>1 DEF EntriesOf
    <3>. QED BY <1>1, <1>2, <1>4, <3>1
  <2>2. CASE j = k + 1
    <3>1. cp = 1
      BY <1>6, <2>2
    <3>2. n + 1 \in DOMAIN r
      BY <1>1, <1>2, <3>1
    <3>. QED BY <1>2, <2>2, <3>1, <3>2
  <2>. QED BY <1>3, <2>1, <2>2
<1>7. ASSUME NEW i \in DOMAIN r, NEW j \in DOMAIN r, i < j PROVE r[i].n < r[j].n
  <2>1. i \in 1 .. n
    BY <1>1, <1>4, <1>7
  <2>2. CASE j \in 1 .. n
    <3>1. out[i].n < out[j].n
      BY <1>1, <1>7, <2>1, <2>2 DEF EntriesOf
    <3>. QED BY <1>2, <2>1, <2>2, <3>1
  <2>3. CASE j = n + 1 /\ cp = 1
    <3>. DEFINE y == out[i].n
    <3>1. y \in Nat /\ y <= k
      BY <1>1, <2>1, Numbered
    <3>. HIDE DEF y
    <3>2. y < k + 1
      BY <1>3, <3>1
    <3>3. r[i].n = y /\ r[j].n = k + 1
      BY <1>2, <2>1, <2>3 DEF y
    <3>. QED BY <3>2, <3>3
  <2>. QED BY <1>4, <2>2, <2>3
<1>8. EntriesOf(r, sel, b, k + 1)
  BY <1>2, <1>5, <1>6, <1>7 DEF EntriesOf
<1>. QED BY <1>8 DEF r

(* The last turn puts at most one entry behind them.                       *)
LEMMA EntriesEnd ==
    ASSUME NEW b, NEW ws, Grown(b, ws), NEW k \in 0 .. Len(b),
           NEW out, NEW sel, EntriesOf(out, sel, b, k),
           NEW x \in Item, x.n = k + 1, NEW cp \in {0, 1}
    PROVE  Faithful(out \o [i \in 1 .. cp |-> x], FirstOnes(b, k), sel)
<1>. DEFINE r == out \o [i \in 1 .. cp |-> x]
            n == Len(out)
            msgs == FirstOnes(b, k)
            due == {m \in msgs : File!Selected(sel, File!Combo(m.cmd))}
<1>1. out \in Seq(Item) /\ n \in Nat /\ DOMAIN out = 1 .. n
  BY DEF EntriesOf
<1>2. /\ r \in Seq(Item) /\ DOMAIN r = 1 .. n + cp /\ Len(r) = n + cp
      /\ \A i \in 1 .. n : r[i] = out[i]
      /\ cp = 1 => r[n + 1] = x
  BY <1>1, OneMore
<1>. HIDE DEF r, n
<1>3. k \in Nat
  <2>1. Len(b) \in Nat
    BY DEF Grown
  <2>. QED BY <2>1
<1>4. 1 .. n \subseteq DOMAIN r
      /\ \A i \in DOMAIN r : i \in 1 .. n \/ (i = n + 1 /\ cp = 1)
  BY <1>1, <1>2
<1>5. due = {b[j] : j \in {i \in 1 .. k : Due(sel, b[i])}}
  BY DEF FirstOnes, Due
<1>6. ASSUME NEW m \in msgs PROVE m.n < k + 1
  <2>1. PICK j \in 1 .. k : m = b[j]
    BY DEF FirstOnes
  <2>2. j \in 1 .. Len(b)
    <3>1. Len(b) \in Nat
      BY DEF Grown
    <3>. QED BY <3>1
  <2>3. b[j].n = j
    BY <2>2 DEF Grown, InPlace
  <2>4. j < k + 1
    BY <1>3
  <2>. QED BY <2>1, <2>3, <2>4
<1>. HIDE DEF due, msgs
<1>7. ASSUME NEW m \in due PROVE \E i \in DOMAIN r : r[i] = File!Written(m)
  <2>1. PICK j \in 1 .. k : Due(sel, b[j]) /\ m = b[j]
    BY <1>5
  <2>2. PICK i \in DOMAIN out : out[i] = File!Written(b[j])
    BY <2>1 DEF EntriesOf
  <2>. QED BY <1>1, <1>2, <1>4, <2>1, <2>2
<1>8. ASSUME NEW i \in DOMAIN r
      PROVE  \/ \E m \in due : r[i] = File!Written(m)
             \/ i = Len(r) /\ \A m \in msgs : m.n < r[i].n
  <2>1. CASE i \in 1 .. n
    <3>1. PICK j \in 1 .. k : Due(sel, b[j]) /\ out[i] = File!Written(b[j])
      BY <1>1, <2>1 DEF EntriesOf
    <3>2. b[j] \in due
      BY <1>5, <3>1
    <3>. QED BY <1>2, <2>1, <3>1, <3>2
  <2>2. CASE i = n + 1 /\ cp = 1
    <3>1. i = Len(r)
      BY <1>2, <2>2
    <3>2. r[i].n = k + 1
      BY <1>2, <2>2
    <3>. QED BY <1>6, <3>1, <3>2
  <2>. QED BY <1>4, <2>1, <2>2
<1>9. ASSUME NEW i \in DOMAIN r, NEW j \in DOMAIN r, i < j PROVE r[i].n < r[j].n
  <2>1. i \in 1 .. n
    BY <1>1, <1>4, <1>9
  <2>2. CASE j \in 1 .. n
    <3>1. out[i].n < out[j].n
      BY <1>1, <1>9, <2>1, <2>2 DEF EntriesOf
    <3>. QED BY <1>2, <2>1, <2>2, <3>1
  <2>3. CASE j = n + 1 /\ cp = 1
    <3>. DEFINE y == out[i].n
    <3>1. y \in Nat /\ y <= k
      BY <1>1, <2>1, Numbered
    <3>. HIDE DEF y
    <3>2. y < k + 1
      BY <1>3, <3>1
    <3>3. r[i].n = y /\ r[j].n = k + 1
      BY <1>2, <2>1, <2>3 DEF y
    <3>. QED BY <3>2, <3>3
  <2>. QED BY <1>4, <2>2, <2>3
<1>10. Faithful(r, msgs, sel)
  BY <1>7, <1>8, <1>9, Zenon DEF Faithful, due
<1>. QED BY <1>10 DEF r, msgs

-----------------------------------------------------------------------------
(* The list.                                                               *)
ListOf(l, check, b, k) ==
    /\ ToSet(l) = {File!Combo(m.cmd) : m \in FirstOnes(b, k)}
    /\ l = <<>> => check = 0
Complete(msgs, l) ==
    LET real == {File!Combo(m.cmd) : m \in msgs}
    IN  /\ real \subseteq ToSet(l)
        /\ \A k \in DOMAIN l : l[k] \in real \/ k = Len(l)

(* What a combination added to the list leaves there.                      *)
LEMMA ListNext ==
    ASSUME NEW l \in Seq(Combination), NEW c \in Combination
    PROVE  LET l2 == AddOnce(l, c)
           IN  /\ ToSet(l2) = ToSet(l) \cup {c} /\ l2 # <<>>
               /\ \A k \in DOMAIN l2 : l2[k] \in ToSet(l) \/ k = Len(l2)
<1>. DEFINE l2 == AddOnce(l, c)
<1>1. CASE c \notin ToSet(l)
  <2>. DEFINE n == Len(l)
              r == Append(l, c)
  <2>1. l2 = r
    BY <1>1 DEF AddOnce
  <2>2. /\ r \in Seq(Combination) /\ Len(r) = n + 1 /\ n \in Nat /\ DOMAIN r = 1 .. n + 1
        /\ r[n + 1] = c /\ (\A i \in 1 .. n : r[i] = l[i]) /\ DOMAIN l = 1 .. n
    OBVIOUS
  <2>. HIDE DEF r, n, l2
  <2>3. \A i \in 1 .. n + 1 : i \in 1 .. n \/ i = n + 1
    BY <2>2
  <2>4. n + 1 \in 1 .. n + 1 /\ 1 .. n \subseteq 1 .. n + 1
    BY <2>2
  <2>5. ToSet(r) = ToSet(l) \cup {c}
    BY <2>2, <2>3, <2>4 DEF ToSet
  <2>6. \A k \in DOMAIN r : r[k] \in ToSet(l) \/ k = Len(r)
    BY <2>2, <2>3 DEF ToSet
  <2>7. r # <<>>
    BY <2>2, <2>4
  <2>. QED BY <2>1, <2>5, <2>6, <2>7 DEF l2
<1>2. CASE c \in ToSet(l)
  <2>1. l2 = l
    BY <1>2 DEF AddOnce
  <2>2. l # <<>> /\ \A k \in DOMAIN l : l[k] \in ToSet(l)
    BY <1>2 DEF ToSet
  <2>. HIDE DEF l2
  <2>. QED BY <1>2, <2>1, <2>2 DEF l2
<1>. QED BY <1>1, <1>2

-----------------------------------------------------------------------------
(* The invariant: the files hold messages one behind the other; a loop     *)
(* that reads is in front of a message, with what it read in the list or   *)
(* in Output; a loop that ended left what the properties say.              *)
FilesOk(b, w, fl) ==
    /\ b \in [Files -> Seq(Message)] /\ w \in [Files -> Seq(Nat)] /\ fl \in [Files -> Nat]
    /\ \A f \in Files : Grown(b[f], w[f]) /\ fl[f] \in 0 .. Len(w[f])
WindowOk(win, path, loop, r, l, sel, op) ==
    /\ win \in BOOLEAN /\ (win => op # 0) /\ (loop # "none" => win)
    /\ path \in Files /\ loop \in {"none", "list", "Output"} /\ r \in Input /\ op \in Nat
    /\ l \in Seq(Combination)
    /\ sel \in Seq(Combination) /\ IsInjective(sel)
AtMessage(b, ws, fl, k, r) ==
    r.got /\ k \in 0 .. Len(b) /\ r.pos = FirstWord(b, ws, k + 1) /\ r.pos <= fl
ReadOk(b, ws, fl, loop, k, r) == loop # "none" => AtMessage(b, ws, fl, k, r)
ListOk(b, loop, k, l, check, op, sn) ==
    /\ op = 0 => loop = "none" /\ check = 0
    /\ op = 1 /\ loop = "list" => ListOf(l, check, b, k)
    /\ op = 1 /\ loop # "list" => Complete(sn, l)
OutputOk(b, loop, k, sel, out, sh) ==
    /\ loop = "Output" => EntriesOf(out, sel, b, k)
    /\ loop # "Output" => Faithful(out, sh.msgs, sh.sel)
FileInv ==
    /\ FilesOk(bus, words, flushed)
    /\ WindowOk(window, filePath, reading, buffer, list, selectedCombo, opens)
    /\ ReadOk(bus[filePath], words[filePath], flushed[filePath], reading, msgCount, buffer)
    /\ ListOk(bus[filePath], reading, msgCount, list, presentCheck, opens, seen)
    /\ OutputOk(bus[filePath], reading, msgCount, selectedCombo, output, shown)

(* The invariant of the next state; what it is made of has no prime.       *)
LEMMA FileInvNext ==
    FileInv' <=>
        /\ FilesOk(bus', words', flushed')
        /\ WindowOk(window', filePath', reading', buffer', list', selectedCombo', opens')
        /\ ReadOk(bus'[filePath'], words'[filePath'], flushed'[filePath'], reading', msgCount',
                  buffer')
        /\ ListOk(bus'[filePath'], reading', msgCount', list', presentCheck', opens', seen')
        /\ OutputOk(bus'[filePath'], reading', msgCount', selectedCombo', output', shown')
BY DEF FileInv, FilesOk, WindowOk, ReadOk, ListOk, OutputOk, AtMessage, ListOf, Complete,
       EntriesOf, Faithful, FirstOnes, Grown, InPlace, Apart, BeginsAt, EndsAt, FirstWord, Lies, Due,
       Message, Input, DataArray, Item, Combination, IsInjective, ToSet,
       File!Size, File!Encode, File!DataWords, File!WrdCnt, File!Tx_Rx, File!Valid,
       File!Payload, File!Status, File!RTAddress, File!SubAddr, File!Combo, File!Written,
       File!Selected, File!ToSet

(* A file that grows keeps the messages it has where they are.             *)
Longer(b, ws, fl, b2, ws2, fl2) ==
    /\ Len(b) <= Len(b2) /\ fl <= fl2
    /\ \A k \in 1 .. Len(b) : b2[k] = b[k]
    /\ \A k \in 1 .. Len(b) + 1 : FirstWord(b2, ws2, k) = FirstWord(b, ws, k)
(* A file that got longer has the messages read where they were, and what  *)
(* a loop left of them says the same.                                      *)
LEMMA LongerKeeps ==
    ASSUME NEW b, NEW ws, Grown(b, ws), NEW fl \in Nat,
           NEW b2, NEW ws2, Grown(b2, ws2), NEW fl2 \in Nat, Longer(b, ws, fl, b2, ws2, fl2),
           NEW loop, NEW k, NEW r \in Input, ReadOk(b, ws, fl, loop, k, r)
    PROVE  /\ ReadOk(b2, ws2, fl2, loop, k, r)
           /\ \A l, check, op, sn :
                 ListOk(b, loop, k, l, check, op, sn) => ListOk(b2, loop, k, l, check, op, sn)
           /\ \A sel, out, sh :
                 OutputOk(b, loop, k, sel, out, sh) => OutputOk(b2, loop, k, sel, out, sh)
<1>1. CASE loop = "none"
  BY <1>1 DEF ReadOk, ListOk, OutputOk
<1>2. CASE loop # "none"
  <2>. DEFINE p == r.pos
              n == Len(b)
              n2 == Len(b2)
  <2>1. n \in Nat /\ n2 \in Nat /\ p \in Nat
    BY Numbers DEF Grown
  <2>2. r.got /\ k \in 0 .. n /\ p = FirstWord(b, ws, k + 1) /\ p <= fl
    BY <1>2 DEF ReadOk, AtMessage
  <2>3. n <= n2 /\ fl <= fl2
    BY DEF Longer
  <2>. HIDE DEF p, n, n2
  <2>4. k + 1 \in 1 .. n + 1 /\ k \in 0 .. n2 /\ p <= fl2 /\ 1 .. k \subseteq 1 .. n
    BY <2>1, <2>2, <2>3
  <2>5. p = FirstWord(b2, ws2, k + 1)
    BY <2>2, <2>4 DEF Longer, n
  <2>6. ReadOk(b2, ws2, fl2, loop, k, r)
    BY <2>2, <2>4, <2>5 DEF ReadOk, AtMessage, p, n2
  <2>7. \A j \in 1 .. k : b2[j] = b[j]
    BY <2>4 DEF Longer, n
  <2>8. FirstOnes(b2, k) = FirstOnes(b, k)
    BY <2>7 DEF FirstOnes
  <2>9. \A l, check, op, sn :
           ListOk(b, loop, k, l, check, op, sn) => ListOk(b2, loop, k, l, check, op, sn)
    BY <2>8 DEF ListOk, ListOf
  <2>10. ASSUME NEW sel, NEW out, NEW sh, OutputOk(b, loop, k, sel, out, sh)
         PROVE  OutputOk(b2, loop, k, sel, out, sh)
    <3>1. CASE loop = "Output"
      <4>1. EntriesOf(out, sel, b, k)
        BY <2>10, <3>1 DEF OutputOk
      <4>2. EntriesOf(out, sel, b2, k)
        BY <2>7, <4>1, Zenon DEF EntriesOf
      <4>. QED BY <3>1, <4>2 DEF OutputOk
    <3>2. CASE loop # "Output"
      BY <2>10, <3>2 DEF OutputOk
    <3>. QED BY <3>1, <3>2
  <2>. QED BY <2>6, <2>9, <2>10
<1>. QED BY <1>1, <1>2

(* Before the first message.                                               *)
LEMMA NothingYet ==
    /\ Grown(<<>>, <<>>)
    /\ \A sh : sh = [msgs |-> {}, sel |-> <<>>] => Faithful(<<>>, sh.msgs, sh.sel)
    /\ \A sel, b : EntriesOf(<<>>, sel, b, 0)
<1>1. <<>> \in Seq(Message) /\ <<>> \in Seq(Nat) /\ <<>> \in Seq(Item)
      /\ Len(<<>>) = 0 /\ DOMAIN <<>> = {} /\ 1 .. 0 = {}
  OBVIOUS
<1>2. Grown(<<>>, <<>>)
  BY <1>1 DEF Grown, FirstWord, Apart
<1>3. \A sh : sh = [msgs |-> {}, sel |-> <<>>] => Faithful(<<>>, sh.msgs, sh.sel)
  BY <1>1 DEF Faithful
<1>4. \A sel, b : EntriesOf(<<>>, sel, b, 0)
  BY <1>1 DEF EntriesOf
<1>. QED BY <1>2, <1>3, <1>4

(* Initially there are no files, and no window is open.                    *)
LEMMA FileInit == File!Init => FileInv
<1>. SUFFICES ASSUME File!Init PROVE FileInv
  OBVIOUS
<1>1. /\ bus = [f \in Files |-> <<>>] /\ words = [f \in Files |-> <<>>]
      /\ flushed = [f \in Files |-> 0] /\ window = FALSE /\ filePath \in Files
      /\ reading = "none" /\ list = <<>> /\ presentCheck = 0 /\ selectedCombo = <<>>
      /\ output = <<>> /\ opens = 0 /\ shown = [msgs |-> {}, sel |-> <<>>]
      /\ buffer = [pos |-> 0, input |-> 0, got |-> FALSE, blk |-> 0, time |-> 0, cmd |-> 0,
                   sts |-> 0, data |-> [j \in 1 .. 32 |-> 0]]
  BY DEF File!Init
<1>2. FilesOk(bus, words, flushed)
  <2>1. <<>> \in Seq(Message) /\ <<>> \in Seq(Nat) /\ 0 \in 0 .. Len(<<>>) /\ 0 \in Nat
    OBVIOUS
  <2>. QED BY <1>1, <2>1, NothingYet DEF FilesOk
<1>3. WindowOk(window, filePath, reading, buffer, list, selectedCombo, opens)
  <2>1. buffer \in Input
    <3>1. [j \in 1 .. 32 |-> 0] \in DataArray
      BY DEF DataArray
    <3>. QED BY <1>1, <3>1 DEF Input
  <2>2. <<>> \in Seq(Combination) /\ IsInjective(<<>>)
    BY DEF IsInjective
  <2>. QED BY <1>1, <2>1, <2>2 DEF WindowOk
<1>4. OutputOk(bus[filePath], reading, msgCount, selectedCombo, output, shown)
  BY <1>1, NothingYet DEF OutputOk
<1>. QED BY <1>1, <1>2, <1>3, <1>4 DEF FileInv, ReadOk, ListOk

(* The server writes: the files are longer, the client is where it was.    *)
LEMMA ServerStep ==
    ASSUME FileInv, FilesOk(bus', words', flushed'), File!client' = File!client,
           \A f \in Files : Longer(bus[f], words[f], flushed[f], bus'[f], words'[f], flushed'[f])
    PROVE  FileInv'
<1>1. UNCHANGED <<window, filePath, reading, msgCount, buffer, list, presentCheck,
                  selectedCombo, output, opens, seen, shown>>
  BY DEF File!client
<1>. DEFINE f == filePath
            b2 == bus'[f]
            ws2 == words'[f]
            fl2 == flushed'[f]
<1>2. f \in Files /\ buffer \in Input
  BY DEF FileInv, WindowOk
<1>3. /\ Grown(bus[f], words[f]) /\ flushed[f] \in Nat
      /\ Grown(b2, ws2) /\ fl2 \in Nat
      /\ Longer(bus[f], words[f], flushed[f], b2, ws2, fl2)
  BY <1>2 DEF FileInv, FilesOk
<1>. HIDE DEF f, b2, ws2, fl2
<1>4. ReadOk(bus[f], words[f], flushed[f], reading, msgCount, buffer)
  BY DEF FileInv, f
<1>5. /\ ReadOk(b2, ws2, fl2, reading, msgCount, buffer)
      /\ \A l, check, op, sn : ListOk(bus[f], reading, msgCount, l, check, op, sn)
                                  => ListOk(b2, reading, msgCount, l, check, op, sn)
      /\ \A sel, out, sh : OutputOk(bus[f], reading, msgCount, sel, out, sh)
                              => OutputOk(b2, reading, msgCount, sel, out, sh)
  BY <1>2, <1>3, <1>4, LongerKeeps
<1>6. /\ ListOk(bus[f], reading, msgCount, list, presentCheck, opens, seen)
      /\ OutputOk(bus[f], reading, msgCount, selectedCombo, output, shown)
      /\ WindowOk(window, f, reading, buffer, list, selectedCombo, opens)
  BY DEF FileInv, f
<1>7. filePath' = f /\ b2 = bus'[f] /\ ws2 = words'[f] /\ fl2 = flushed'[f]
  BY <1>1 DEF f, b2, ws2, fl2
<1>. QED BY <1>1, <1>5, <1>6, <1>7, FileInvNext

(* A message is written, of which some words may stay in the buffer of the *)
(* library.                                                                *)
LEMMA FwriteStep ==
    ASSUME FileInv, NEW f \in Files, NEW cmd \in Commands, File!Fwrite(f, cmd)
    PROVE  FileInv'
<1>. DEFINE b == bus[f]
            ws == words[f]
            fl == flushed[f]
            m == [cmd |-> cmd, n |-> Len(b) + 1, at |-> Len(ws)]
            b2 == Append(b, m)
            ws2 == ws \o File!Encode(m)
<1>1. /\ bus \in [Files -> Seq(Message)] /\ words \in [Files -> Seq(Nat)]
      /\ flushed \in [Files -> Nat]
      /\ \A g \in Files : Grown(bus[g], words[g]) /\ flushed[g] \in 0 .. Len(words[g])
  BY DEF FileInv, FilesOk
<1>2. bus' = [bus EXCEPT ![f] = b2] /\ words' = [words EXCEPT ![f] = ws2]
  BY DEF File!Fwrite
<1>3. PICK n \in fl .. Len(words'[f]) : flushed' = [flushed EXCEPT ![f] = n]
  BY DEF File!Fwrite
<1>4. File!client' = File!client
  BY DEF File!Fwrite
<1>5. /\ Grown(b2, ws2) /\ Len(b2) = Len(b) + 1 /\ Len(ws) <= Len(ws2)
      /\ \A k \in 1 .. Len(b) : b2[k] = b[k]
      /\ \A k \in 1 .. Len(b) + 1 : FirstWord(b2, ws2, k) = FirstWord(b, ws, k)
  BY <1>1, GrownOn
<1>. HIDE DEF m, b2, ws2
<1>6. bus'[f] = b2 /\ words'[f] = ws2 /\ flushed'[f] = n
  BY <1>1, <1>2, <1>3
<1>7. b2 \in Seq(Message) /\ ws2 \in Seq(Nat)
  BY <1>5 DEF Grown
<1>8. n \in 0 .. Len(ws2) /\ n \in Nat /\ fl <= n /\ fl \in Nat
  <2>1. fl \in Nat /\ Len(ws2) \in Nat
    BY <1>1, <1>7
  <2>. QED BY <1>3, <1>6, <2>1
<1>9. \A g \in Files : g # f => bus'[g] = bus[g] /\ words'[g] = words[g] /\ flushed'[g] = flushed[g]
  BY <1>1, <1>2, <1>3
<1>10. FilesOk(bus', words', flushed')
  <2>1. bus' \in [Files -> Seq(Message)] /\ words' \in [Files -> Seq(Nat)]
        /\ flushed' \in [Files -> Nat]
    BY <1>1, <1>2, <1>3, <1>7, <1>8
  <2>2. \A g \in Files : Grown(bus'[g], words'[g]) /\ flushed'[g] \in 0 .. Len(words'[g])
    BY <1>1, <1>5, <1>6, <1>8, <1>9
  <2>. QED BY <2>1, <2>2 DEF FilesOk
<1>11. Len(b) \in Nat /\ Len(b) <= Len(b2)
  <2>1. Len(b) \in Nat
    BY <1>1
  <2>. QED BY <1>5, <2>1
<1>12. Longer(b, ws, fl, b2, ws2, n)
  BY <1>5, <1>8, <1>11 DEF Longer
<1>13. ASSUME NEW g \in Files, g # f
       PROVE  Longer(bus[g], words[g], flushed[g], bus'[g], words'[g], flushed'[g])
  <2>1. Len(bus[g]) \in Nat /\ flushed[g] \in Nat
    BY <1>1
  <2>. QED BY <1>9, <1>13, <2>1 DEF Longer
<1>14. \A g \in Files :
           Longer(bus[g], words[g], flushed[g], bus'[g], words'[g], flushed'[g])
  BY <1>6, <1>12, <1>13
<1>. QED BY <1>4, <1>10, <1>14, ServerStep

(* The server exits, which flushes its files.                              *)
LEMMA OnKillStep ==
    ASSUME FileInv, File!OnKill
    PROVE  FileInv'
<1>1. /\ bus \in [Files -> Seq(Message)] /\ words \in [Files -> Seq(Nat)]
      /\ flushed \in [Files -> Nat]
      /\ \A g \in Files : Grown(bus[g], words[g]) /\ flushed[g] \in 0 .. Len(words[g])
  BY DEF FileInv, FilesOk
<1>2. /\ flushed' = [f \in Files |-> Len(words[f])] /\ bus' = bus /\ words' = words
      /\ File!client' = File!client
  BY DEF File!OnKill
<1>3. \A f \in Files : /\ Len(words[f]) \in Nat /\ Len(bus[f]) \in Nat /\ flushed[f] \in Nat
                       /\ flushed[f] <= Len(words[f])
  BY <1>1
<1>4. FilesOk(bus', words', flushed')
  BY <1>1, <1>2, <1>3 DEF FilesOk
<1>5. \A f \in Files : Longer(bus[f], words[f], flushed[f], bus'[f], words'[f], flushed'[f])
  BY <1>2, <1>3 DEF Longer
<1>. QED BY <1>2, <1>4, <1>5, ServerStep

(* A loop begins at the beginning of a file. *)
LEMMA AtBeginning ==
    ASSUME FileInv, NEW f \in Files, NEW g \in Garbage
    PROVE  /\ File!Rewound(g) \in Input
           /\ AtMessage(bus[f], words[f], flushed[f], 0, File!Rewound(g))
<1>1. g \in Nat /\ buffer \in Input
  BY ReadersAssumption DEF FileInv, WindowOk
<1>2. /\ File!Rewound(g) \in Input /\ File!Rewound(g).pos = 0 /\ File!Rewound(g).got
  BY <1>1 DEF File!Rewound, Input
<1>3. FirstWord(bus[f], words[f], 1) = 0 /\ Len(bus[f]) \in Nat /\ flushed[f] \in Nat
  BY DEF FileInv, FilesOk, Grown
<1>. DEFINE r == File!Rewound(g)
            b == bus[f]
            fl == flushed[f]
            z == r.pos
<1>4. z = 0 /\ r.got
  BY <1>2
<1>5. 0 \in 0 .. Len(b) /\ 0 <= fl /\ 0 + 1 = 1
  BY <1>3
<1>. HIDE DEF r, b, fl
<1>6. AtMessage(b, words[f], fl, 0, r)
  BY <1>3, <1>4, <1>5 DEF AtMessage, b
<1>. QED BY <1>2, <1>6 DEF r, b, fl

(* A file is opened and the first loop begins.                             *)
LEMMA RealisedStep ==
    ASSUME FileInv, NEW f \in Files, File!Realised(f)
    PROVE  FileInv'
<1>1. /\ ~window /\ window' = TRUE /\ filePath' = f /\ opens' = opens + 1
      /\ list' = <<>> /\ reading' = "list" /\ msgCount' = 0
      /\ UNCHANGED <<presentCheck, selectedCombo, output, seen, shown>>
      /\ UNCHANGED <<bus, words, flushed>>
  BY DEF File!Realised, File!server
<1>2. PICK g \in Garbage : buffer' = File!Rewound(g)
  BY DEF File!Realised
<1>3. buffer' \in Input /\ AtMessage(bus[f], words[f], flushed[f], 0, buffer')
  BY <1>2, AtBeginning
<1>4. WindowOk(window, filePath, reading, buffer, list, selectedCombo, opens)
  BY DEF FileInv
<1>5. reading = "none" /\ opens \in Nat
  BY <1>1, <1>4 DEF WindowOk
<1>6. WindowOk(window', filePath', reading', buffer', list', selectedCombo', opens')
  <2>1. <<>> \in Seq(Combination) /\ opens' \in Nat /\ opens' # 0
    BY <1>1, <1>5
  <2>. QED BY <1>1, <1>3, <1>4, <2>1 DEF WindowOk
<1>7. ListOk(bus[f], reading', msgCount', list', presentCheck', opens', seen')
  <2>1. opens' # 0 /\ (opens' = 1 => opens = 0)
    BY <1>1, <1>5
  <2>2. opens = 0 => presentCheck = 0
    BY DEF FileInv, ListOk
  <2>3. ToSet(<<>>) = {} /\ FirstOnes(bus[f], 0) = {}
    BY DEF ToSet, FirstOnes
  <2>. QED BY <1>1, <2>1, <2>2, <2>3 DEF ListOk, ListOf
<1>8. OutputOk(bus[f], reading', msgCount', selectedCombo', output', shown')
  <2>1. Faithful(output, shown.msgs, shown.sel)
    BY <1>5 DEF FileInv, OutputOk
  <2>. QED BY <1>1, <2>1 DEF OutputOk
<1>9. FilesOk(bus', words', flushed')
  BY <1>1 DEF FileInv
<1>10. ReadOk(bus[f], words[f], flushed[f], reading', msgCount', buffer')
  BY <1>1, <1>3 DEF ReadOk
<1>. QED BY <1>1, <1>6, <1>7, <1>8, <1>9, <1>10, FileInvNext

(* The second loop begins.                                                 *)
LEMMA ShowDataStep ==
    ASSUME FileInv, File!ShowData
    PROVE  FileInv'
<1>1. /\ window /\ reading = "none" /\ output' = <<>> /\ reading' = "Output" /\ msgCount' = 0
      /\ UNCHANGED <<window, filePath, list, presentCheck, selectedCombo, opens, seen, shown>>
      /\ UNCHANGED <<bus, words, flushed>>
  BY DEF File!ShowData, File!server
<1>2. PICK g \in Garbage : buffer' = File!Rewound(g)
  BY DEF File!ShowData
<1>3. WindowOk(window, filePath, reading, buffer, list, selectedCombo, opens)
  BY DEF FileInv
<1>4. filePath \in Files /\ opens # 0
  BY <1>1, <1>3 DEF WindowOk
<1>. DEFINE f == filePath
<1>5. buffer' \in Input /\ AtMessage(bus[f], words[f], flushed[f], 0, buffer')
  BY <1>2, <1>4, AtBeginning
<1>6. WindowOk(window', filePath', reading', buffer', list', selectedCombo', opens')
  BY <1>1, <1>3, <1>5 DEF WindowOk
<1>7. ListOk(bus[f], reading', msgCount', list', presentCheck', opens', seen')
  <2>1. opens = 1 => Complete(seen, list)
    BY <1>1 DEF FileInv, ListOk
  <2>. QED BY <1>1, <1>4, <2>1 DEF ListOk
<1>8. OutputOk(bus[f], reading', msgCount', selectedCombo', output', shown')
  BY <1>1, NothingYet DEF OutputOk
<1>9. FilesOk(bus', words', flushed')
  BY <1>1 DEF FileInv
<1>10. ReadOk(bus[f], words[f], flushed[f], reading', msgCount', buffer')
  BY <1>1, <1>5 DEF ReadOk
<1>. QED BY <1>1, <1>6, <1>7, <1>8, <1>9, <1>10, FileInvNext

(* The window is closed.                                                   *)
LEMMA CancelStep ==
    ASSUME FileInv, File!Cancel
    PROVE  FileInv'
<1>1. /\ reading = "none" /\ window' = FALSE
      /\ UNCHANGED <<filePath, reading, msgCount, buffer, list, presentCheck, selectedCombo,
                     output, opens, seen, shown>>
      /\ UNCHANGED <<bus, words, flushed>>
  BY DEF File!Cancel, File!server
<1>2. WindowOk(window', filePath', reading', buffer', list', selectedCombo', opens')
  BY <1>1 DEF FileInv, WindowOk
<1>. QED BY <1>1, <1>2, FileInvNext DEF FileInv

(* The list filled by Offline is the one of module UniqueLists.            *)
LEMMA SameFileValues ==
    ASSUME NEW l, NEW s, NEW value
    PROVE  File!AddValues(l, s, value) = AddValues(l, s, value)
BY DEF File!AddValues, AddValues, File!AddOnce, AddOnce, File!FoldLeft, FoldLeft,
       File!MapThenFoldSet, MapThenFoldSet, File!ToSet, ToSet, File!Max, Max

(* A combination is selected, once.                                        *)
LEMMA AddStep ==
    ASSUME FileInv, NEW c, NEW open, File!AddCombo(c, open)
    PROVE  FileInv'
<1>. DEFINE S == File!Chosen(c, open)
            value == [x \in S |-> x]
<1>1. /\ reading = "none" /\ selectedCombo' = AddValues(selectedCombo, list, value)
      /\ UNCHANGED <<window, filePath, reading, msgCount, buffer, list, presentCheck,
                     output, opens, seen, shown>>
      /\ UNCHANGED <<bus, words, flushed>>
  BY SameFileValues DEF File!AddCombo, File!server
<1>2. /\ list \in Seq(Combination) /\ selectedCombo \in Seq(Combination)
      /\ IsInjective(selectedCombo)
  BY DEF FileInv, WindowOk
<1>3. S \subseteq Combination
  <2>1. S \subseteq ToSet(list)
    BY DEF File!Chosen, File!ToSet, ToSet
  <2>2. ToSet(list) \subseteq Combination
    BY <1>2 DEF ToSet
  <2>. QED BY <2>1, <2>2
<1>. HIDE DEF S
<1>4. value \in [S -> Combination]
  BY <1>3
<1>. HIDE DEF value
<1>5. selectedCombo' \in Seq(Combination) /\ IsInjective(selectedCombo')
  <2>1. LET r == AddValues(selectedCombo, list, value)
        IN  r \in Seq(Combination) /\ (IsInjective(selectedCombo) => IsInjective(r))
    BY <1>2, <1>4, AddValuesAre
  <2>. QED BY <1>1, <1>2, <2>1
<1>6. WindowOk(window', filePath', reading', buffer', list', selectedCombo', opens')
  BY <1>1, <1>5 DEF FileInv, WindowOk
<1>7. OutputOk(bus[filePath], reading', msgCount', selectedCombo', output', shown')
  BY <1>1 DEF FileInv, OutputOk
<1>. QED BY <1>1, <1>6, <1>7, FileInvNext DEF FileInv

(* A turn of the loop that reads filePath. *)
Next1 == File!ReadMessage(File!Disk(filePath), buffer)
(* The message a turn reads is the next one of the file, or there is none. *)
LEMMA TurnRead ==
    ASSUME FileInv, reading # "none"
    PROVE  LET b == bus[filePath]
               k == msgCount
           IN  /\ Next1 \in Input /\ k \in 0 .. Len(b) /\ k \in Nat
               /\ Grown(b, words[filePath])
               /\ Next1.got =>
                     /\ k + 1 \in 1 .. Len(b) /\ b[k + 1] \in Message
                     /\ AtMessage(b, words[filePath], flushed[filePath], k + 1, Next1)
                     /\ Next1.cmd = b[k + 1].cmd /\ b[k + 1].n = k + 1
                     /\ \A j \in 1 .. File!DataWords(b[k + 1].cmd) :
                           Next1.data[j] = File!Payload(b[k + 1])
               /\ ~Next1.got => File!Whole(filePath) = FirstOnes(b, k)
<1>. DEFINE b == bus[filePath]
            ws == words[filePath]
            fl == flushed[filePath]
            k == msgCount
            q == Next1
<1>1. Grown(b, ws) /\ fl \in 0 .. Len(ws) /\ buffer \in Input
  BY DEF FileInv, FilesOk, WindowOk
<1>2. AtMessage(b, ws, fl, k, buffer)
  BY DEF FileInv, ReadOk
<1>3. k \in 0 .. Len(b) /\ buffer.pos = FirstWord(b, ws, k + 1) /\ buffer.pos <= fl
  BY <1>2 DEF AtMessage
<1>4. q = File!ReadMessage(SubSeq(ws, 1, fl), buffer)
  BY DEF Next1, File!Disk
<1>5. File!Whole(filePath) = WholeOf(b, fl)
  BY DEF File!Whole, WholeOf
<1>. HIDE DEF b, ws, fl, k, q
<1>6. /\ q \in Input
      /\ q.got => /\ k + 1 \in 1 .. Len(b) /\ q.cmd = b[k + 1].cmd
                  /\ q.pos = FirstWord(b, ws, k + 2) /\ q.pos <= fl
                  /\ \A j \in 1 .. File!DataWords(b[k + 1].cmd) :
                        q.data[j] = File!Payload(b[k + 1])
      /\ ~q.got => WholeOf(b, fl) = FirstOnes(b, k)
  BY <1>1, <1>3, <1>4, TurnIs
<1>7. k \in Nat /\ Len(b) \in Nat
  <2>1. Len(b) \in Nat
    BY <1>1 DEF Grown
  <2>. QED BY <1>3, <2>1
<1>8. ASSUME q.got
      PROVE  /\ b[k + 1] \in Message /\ b[k + 1].n = k + 1
             /\ AtMessage(b, ws, fl, k + 1, q)
  <2>1. k + 1 \in 1 .. Len(b)
    BY <1>6, <1>8
  <2>2. b[k + 1] \in Message /\ b[k + 1].n = k + 1
    BY <1>1, <2>1 DEF Grown, InPlace
  <2>3. k + 1 \in 0 .. Len(b) /\ k + 1 + 1 = k + 2
    BY <1>7, <2>1
  <2>4. AtMessage(b, ws, fl, k + 1, q)
    BY <1>6, <1>8, <2>3 DEF AtMessage
  <2>. QED BY <2>2, <2>4
<1>. QED BY <1>1, <1>3, <1>5, <1>6, <1>7, <1>8 DEF b, ws, fl, k, q

(* The first k + 1 messages.                                               *)
LEMMA OneMoreOf ==
    ASSUME NEW b, NEW k \in Nat
    PROVE  FirstOnes(b, k + 1) = FirstOnes(b, k) \cup {b[k + 1]}
<1>1. 1 .. k + 1 = (1 .. k) \cup {k + 1}
  OBVIOUS
<1>. QED BY <1>1 DEF FirstOnes

(* A turn of the first loop adds the combination of its message to the     *)
(* list if it is not there.                                                *)
LEMMA ListTurnStep ==
    ASSUME FileInv, File!ListTurn
    PROVE  FileInv'
<1>. DEFINE f == filePath
            b == bus[f]
            k == msgCount
            q == Next1
            c == File!Combo(q.cmd)
            check == File!Present(c)
<1>1. /\ reading = "list" /\ buffer' = q /\ msgCount' = k + 1
      /\ reading' = (IF q.got THEN "list" ELSE "none")
      /\ presentCheck' = check /\ list' = (IF check = 0 THEN Append(list, c) ELSE list)
      /\ seen' = File!Whole(f)
  BY DEF File!ListTurn, File!Turn, Next1
<1>2. UNCHANGED <<bus, words, flushed, window, filePath, selectedCombo, output, opens, shown>>
  BY DEF File!ListTurn, File!server
<1>3. WindowOk(window, f, reading, buffer, list, selectedCombo, opens)
  BY DEF FileInv
<1>4. f \in Files /\ list \in Seq(Combination) /\ window /\ opens # 0
  BY <1>1, <1>3 DEF WindowOk
<1>5. /\ q \in Input /\ k \in 0 .. Len(b) /\ k \in Nat
      /\ q.got => /\ k + 1 \in 1 .. Len(b) /\ b[k + 1] \in Message
                  /\ AtMessage(b, words[f], flushed[f], k + 1, q)
                  /\ q.cmd = b[k + 1].cmd
      /\ ~q.got => File!Whole(f) = FirstOnes(b, k)
  BY <1>1, TurnRead
<1>6. c \in Combination
  BY <1>5, Numbers, CombinationIs
<1>7. check = IF list = <<>> THEN presentCheck ELSE IF c \in ToSet(list) THEN 1 ELSE 0
  BY DEF File!Present, File!ToSet, ToSet
<1>8. /\ opens = 1 => (list = <<>> => presentCheck = 0)
      /\ opens = 1 => ToSet(list) = {File!Combo(m.cmd) : m \in FirstOnes(b, k)}
  BY <1>1 DEF FileInv, ListOk, ListOf
<1>. HIDE DEF f, b, k, q, check
<1>9. list' \in Seq(Combination)
  BY <1>1, <1>4, <1>6
<1>10. WindowOk(window', filePath', reading', buffer', list', selectedCombo', opens')
  BY <1>1, <1>2, <1>3, <1>4, <1>5, <1>9 DEF WindowOk, f
<1>11. ReadOk(b, words[f], flushed[f], reading', msgCount', buffer')
  BY <1>1, <1>5 DEF ReadOk
<1>12. ListOk(b, reading', msgCount', list', presentCheck', opens', seen')
  <2>1. ASSUME opens = 1
        PROVE  /\ ToSet(list') = ToSet(list) \cup {c} /\ list' # <<>>
               /\ \A i \in DOMAIN list' : list'[i] \in ToSet(list) \/ i = Len(list')
    <3>1. list' = AddOnce(list, c)
      <4>1. CASE list = <<>>
        <5>1. check = 0 /\ c \notin ToSet(list)
          BY <1>7, <1>8, <2>1, <4>1 DEF ToSet
        <5>. QED BY <1>1, <5>1 DEF AddOnce
      <4>2. CASE list # <<>>
        BY <1>1, <1>7, <4>2 DEF AddOnce
      <4>. QED BY <4>1, <4>2
    <3>. HIDE DEF c
    <3>2. LET l2 == AddOnce(list, c)
          IN  /\ ToSet(l2) = ToSet(list) \cup {c} /\ l2 # <<>>
              /\ \A i \in DOMAIN l2 : l2[i] \in ToSet(list) \/ i = Len(l2)
      BY <1>4, <1>6, ListNext
    <3>. QED BY <3>1, <3>2
  <2>2. ASSUME opens = 1, q.got PROVE ListOf(list', presentCheck', b, k + 1)
    <3>1. FirstOnes(b, k + 1) = FirstOnes(b, k) \cup {b[k + 1]} /\ c = File!Combo(b[k + 1].cmd)
      BY <1>5, <2>2, OneMoreOf
    <3>2. {File!Combo(m.cmd) : m \in FirstOnes(b, k + 1)}
              = {File!Combo(m.cmd) : m \in FirstOnes(b, k)} \cup {c}
      BY <3>1
    <3>. QED BY <1>8, <2>1, <2>2, <3>2 DEF ListOf
  <2>3. ASSUME opens = 1, ~q.got PROVE Complete(seen', list')
    BY <1>1, <1>5, <1>8, <2>1, <2>3 DEF Complete
  <2>. QED BY <1>1, <1>2, <1>4, <2>2, <2>3 DEF ListOk
<1>13. OutputOk(b, reading', msgCount', selectedCombo', output', shown')
  <2>1. Faithful(output, shown.msgs, shown.sel)
    BY <1>1 DEF FileInv, OutputOk
  <2>. QED BY <1>1, <1>2, <2>1 DEF OutputOk
<1>14. FilesOk(bus', words', flushed')
  BY <1>2 DEF FileInv
<1>. QED BY <1>2, <1>10, <1>11, <1>12, <1>13, <1>14, FileInvNext DEF f, b

(* A turn of the second loop puts its message into Output if its           *)
(* combination is selected.                                                *)
LEMMA ShowTurnStep ==
    ASSUME FileInv, File!ShowTurn
    PROVE  FileInv'
<1>. DEFINE f == filePath
            b == bus[f]
            k == msgCount
            q == Next1
            sel == selectedCombo
            c == File!Combo(q.cmd)
            cp == File!Copies(sel, c)
            x == File!Entry(k + 1, q)
<1>1. /\ reading = "Output" /\ buffer' = q /\ msgCount' = k + 1
      /\ reading' = (IF q.got THEN "Output" ELSE "none")
      /\ output' = output \o [i \in 1 .. cp |-> x]
      /\ shown' = [msgs |-> File!Whole(f), sel |-> sel]
  BY DEF File!ShowTurn, File!Turn, Next1
<1>2. UNCHANGED <<bus, words, flushed, window, filePath, list, presentCheck, selectedCombo,
                  opens, seen>>
  BY DEF File!ShowTurn, File!server
<1>3. WindowOk(window, f, reading, buffer, list, selectedCombo, opens)
  BY DEF FileInv
<1>4. sel \in Seq(Combination) /\ IsInjective(sel) /\ window /\ opens # 0
  BY <1>1, <1>3 DEF WindowOk
<1>5. /\ q \in Input /\ k \in 0 .. Len(b) /\ k \in Nat /\ Grown(b, words[f])
      /\ q.got => /\ k + 1 \in 1 .. Len(b) /\ b[k + 1] \in Message
                  /\ AtMessage(b, words[f], flushed[f], k + 1, q)
                  /\ q.cmd = b[k + 1].cmd /\ b[k + 1].n = k + 1
                  /\ \A j \in 1 .. File!DataWords(b[k + 1].cmd) :
                        q.data[j] = File!Payload(b[k + 1])
      /\ ~q.got => File!Whole(f) = FirstOnes(b, k)
  BY <1>1, TurnRead
<1>6. cp \in {0, 1} /\ (cp = 1 <=> File!Selected(sel, c))
  BY <1>4, CopiesAre
<1>7. k + 1 \in Nat /\ x \in Item /\ x.n = k + 1
  BY <1>5, EntryIs
<1>8. q.got => x = File!Written(b[k + 1])
  <2>. DEFINE k1 == k + 1
  <2>1. k1 \in Nat
    BY <1>7
  <2>. HIDE DEF q, b, k1
  <2>2. \A m \in Message :
           q.cmd = m.cmd /\ m.n = k1 /\ (\A j \in 1 .. File!DataWords(m.cmd) : q.data[j] = File!Payload(m))
           => File!Entry(k1, q) = File!Written(m)
    BY <1>5, <2>1, EntryIs
  <2>. QED BY <1>5, <2>2 DEF k1
<1>9. EntriesOf(output, sel, b, k)
  BY <1>1 DEF FileInv, OutputOk
<1>. HIDE DEF f, b, k, q, sel, cp, x
<1>10. WindowOk(window', filePath', reading', buffer', list', selectedCombo', opens')
  BY <1>1, <1>2, <1>3, <1>4, <1>5 DEF WindowOk, f
<1>11. ReadOk(b, words[f], flushed[f], reading', msgCount', buffer')
  BY <1>1, <1>5 DEF ReadOk
<1>12. ListOk(b, reading', msgCount', list', presentCheck', opens', seen')
  <2>1. opens = 1 => Complete(seen, list)
    BY <1>1 DEF FileInv, ListOk
  <2>. QED BY <1>1, <1>2, <1>4, <2>1 DEF ListOk
<1>13. OutputOk(b, reading', msgCount', selectedCombo', output', shown')
  <2>1. CASE q.got
    <3>1. cp = 1 <=> Due(sel, b[k + 1])
      BY <1>5, <1>6, <2>1 DEF Due
    <3>2. EntriesOf(output \o [i \in 1 .. cp |-> x], sel, b, k + 1)
      <4>. DEFINE ws == words[f]
      <4>. HIDE DEF ws
      <4>1. Grown(b, ws) /\ k \in 0 .. Len(b) /\ k + 1 \in 1 .. Len(b)
        BY <1>5, <2>1 DEF ws
      <4>2. x = File!Written(b[k + 1])
        BY <1>8, <2>1
      <4>. QED BY <1>6, <1>7, <1>9, <3>1, <4>1, <4>2, EntriesNext
    <3>3. selectedCombo' = sel
      BY <1>2 DEF sel
    <3>. QED BY <1>1, <2>1, <3>2, <3>3 DEF OutputOk
  <2>2. CASE ~q.got
    <3>1. Faithful(output \o [i \in 1 .. cp |-> x], FirstOnes(b, k), sel)
      BY <1>5, <1>6, <1>7, <1>9, EntriesEnd
    <3>2. shown'.msgs = FirstOnes(b, k) /\ shown'.sel = sel
      BY <1>1, <1>5, <2>2
    <3>. QED BY <1>1, <2>2, <3>1, <3>2 DEF OutputOk
  <2>. QED BY <2>1, <2>2
<1>14. FilesOk(bus', words', flushed')
  BY <1>2 DEF FileInv
<1>. QED BY <1>2, <1>10, <1>11, <1>12, <1>13, <1>14, FileInvNext DEF f, b

(* Every step keeps the invariant.                                         *)
LEMMA FileStep == FileInv /\ [File!Next]_fileVars => FileInv'
<1>. SUFFICES ASSUME FileInv, [File!Next]_fileVars PROVE FileInv'
  OBVIOUS
<1>1. CASE File!Next
  BY <1>1, FwriteStep, OnKillStep, RealisedStep, ListTurnStep, AddStep, ShowDataStep,
     ShowTurnStep, CancelStep DEF File!Next
<1>2. CASE UNCHANGED fileVars
  BY <1>2, FileInvNext DEF fileVars, FileInv
<1>. QED BY <1>1, <1>2

(* So it holds always: the steps of other readers leave these variables.   *)
LEMMA FileInvariance == ReadersSpec => []FileInv
<1>1. ReadersInit => FileInv
  BY FileInit DEF ReadersInit
<1>2. ASSUME FileInv, [ReadersNext]_readerVars PROVE FileInv'
  <2>1. [File!Next]_fileVars
    BY <1>2 DEF ReadersNext, readerVars
  <2>. QED BY <1>2, <2>1, FileStep
<1>. QED BY <1>1, <1>2, PTL DEF ReadersSpec

(* The first file a client opens is listed completely, wherever the disk's *)
(* copy of it ends and however it grows meanwhile.                         *)
THEOREM ListIsComplete == ReadersSpec => []FirstListComplete
<1>1. FileInv => FirstListComplete
  <2>. SUFFICES ASSUME FileInv, opens = 1, reading # "list"
                PROVE  LET real == {File!Combo(m.cmd) : m \in seen}
                       IN  /\ real \subseteq File!ToSet(list)
                           /\ \A k \in DOMAIN list : list[k] \in real \/ k = Len(list)
    BY DEF FirstListComplete, File!FirstListComplete
  <2>1. Complete(seen, list)
    BY DEF FileInv, ListOk
  <2>. QED BY <2>1 DEF Complete, ToSet, File!ToSet
<1>. QED BY <1>1, FileInvariance, PTL

(* Output has the whole messages of the selection, once each, in order and *)
(* with the words the server wrote, whatever was selected before and       *)
(* however the file grew.                                                  *)
THEOREM OutputIsFaithful == ReadersSpec => []OutputFaithful
<1>1. FileInv => OutputFaithful
  <2>1. FileInv /\ reading # "Output" => Faithful(output, shown.msgs, shown.sel)
    BY DEF FileInv, OutputOk
  <2>. QED BY <2>1 DEF Faithful, OutputFaithful, File!OutputFaithful
<1>. QED BY <1>1, FileInvariance, PTL
=============================================================================
