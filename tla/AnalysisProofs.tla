--------------------------- MODULE AnalysisProofs ---------------------------
(***************************************************************************)
(* For any number of packages, loops and server restarts: however the loops*)
(* of the two windows nest, none draws after its window was closed, and    *)
(* with the last of them gone the server has been stopped.  Both rest on   *)
(* which loop a flag belongs to: realOn to the loop of the newest analysis,*)
(* which is the innermost of its kind, and acq_on to any loop of the other *)
(* window that got past its notice.                                        *)
(*                                                                         *)
(* The second part is about the first analysis of a client: it shows the   *)
(* frames of its own packages, and asks nothing the server dies of.        *)
(*                                                                         *)
(* The third is about one request over a connection (Requests).            *)
(***************************************************************************)
EXTENDS MCClient, FiniteSetTheorems, TLAPS

Waiting == {"events", "notice", "warning"}
Entry == [kind : {"ana", "acq"}, at : {"config", "start", "body"} \cup Waiting,
          i : Nat, win : Nat]
Depths == 1 .. Len(stack)

Shape == stack \in Seq(Entry) /\ analyses \in Nat /\ on \in {0, 1}

(* Only the innermost loop runs. *)
OuterWait == \A d \in Depths : d # Len(stack) => stack[d].at \in Waiting

AtOf(e) == IF e.kind = "ana" THEN {"config", "start", "body", "events"}
                             ELSE {"body", "events", "notice", "warning"}
Places == \A d \in Depths : stack[d].at \in AtOf(stack[d])

(* The loops of the analyses are nested in the order they were opened in. *)
Newest ==
    \A d \in Depths : stack[d].kind = "ana" =>
        /\ stack[d].win <= analyses
        /\ \A e \in Depths : d < e /\ stack[e].kind = "ana" => stack[d].win < stack[e].win

FlagOfAna ==
    /\ realOn => /\ window.open
                 /\ \E d \in Depths : stack[d].kind = "ana" /\ stack[d].win = analyses
    /\ \A d \in Depths : stack[d].at \in {"config", "start"} => realOn

FlagOfAcq == \A d \in Depths : stack[d].at = "notice" => acq_on

Draws ==
    \A d \in Depths : stack[d].kind = "ana" /\ stack[d].at # "events" =>
        window.open /\ stack[d].win = analyses

Started ==
    on = 1 /\ up =>
        \/ realOn
        \/ acq_on /\ \E d \in Depths : stack[d].kind = "acq" /\ stack[d].at \in {"body", "events"}

Loops == Shape /\ OuterWait /\ Places /\ Newest
Flags == FlagOfAna /\ FlagOfAcq /\ Draws
Inductive == Loops /\ Flags /\ Started

-----------------------------------------------------------------------------
(* What the three operations on the stack do. *)

LEMMA GotoStack ==
    ASSUME stack \in Seq(Entry), stack # <<>>,
           NEW at \in {"config", "start", "body"} \cup Waiting, NEW i \in Nat, Goto(at, i)
    PROVE  /\ stack' \in Seq(Entry) /\ Len(stack') = Len(stack) /\ Depths' = Depths
           /\ \A d \in Depths : d # Len(stack) => stack'[d] = stack[d]
           /\ stack'[Len(stack)] = [kind |-> Top.kind, at |-> at, i |-> i, win |-> Top.win]
           /\ Len(stack) \in Depths
<1>. DEFINE n == Len(stack)
            new == [kind |-> Top.kind, at |-> at, i |-> i, win |-> Top.win]
<1>1. n \in Nat /\ n # 0 /\ n \in 1 .. n /\ Top \in Entry
  BY DEF Top
<1>2. new \in Entry
  BY <1>1 DEF Entry
<1>3. stack' = [stack EXCEPT ![n] = new]
  BY DEF Goto, Top
<1>. HIDE DEF new
<1>4. stack' \in Seq(Entry) /\ Len(stack') = n
  BY <1>1, <1>2, <1>3
<1>5. stack'[n] = new /\ \A d \in 1 .. n : d # n => stack'[d] = stack[d]
  BY <1>1, <1>3
<1>. QED BY <1>1, <1>4, <1>5 DEF new, Depths

LEMMA PushStack ==
    ASSUME stack \in Seq(Entry), analyses' \in Nat,
           NEW kind \in {"ana", "acq"}, NEW at \in {"config", "start", "body"} \cup Waiting,
           Push(kind, at)
    PROVE  /\ stack' \in Seq(Entry) /\ Len(stack') = Len(stack) + 1
           /\ Depths' = Depths \cup {Len(stack')} /\ Len(stack') \notin Depths
           /\ \A d \in Depths : stack'[d] = stack[d] /\ d < Len(stack')
           /\ stack'[Len(stack')] = [kind |-> kind, at |-> at, i |-> 0, win |-> analyses']
<1>. DEFINE new == [kind |-> kind, at |-> at, i |-> 0, win |-> analyses']
<1>1. new \in Entry /\ stack' = Append(stack, new)
  BY DEF Entry, Push
<1>. HIDE DEF new
<1>2. /\ stack' \in Seq(Entry) /\ Len(stack') = Len(stack) + 1 /\ Len(stack) \in Nat
      /\ \A d \in 1 .. Len(stack) : stack'[d] = stack[d]
      /\ stack'[Len(stack) + 1] = new
  BY <1>1
<1>. QED BY <1>2 DEF new, Depths

LEMMA PopStack ==
    ASSUME stack \in Seq(Entry), stack # <<>>, Pop
    PROVE  /\ stack' \in Seq(Entry) /\ Len(stack') = Len(stack) - 1
           /\ Depths = Depths' \cup {Len(stack)} /\ Len(stack) \notin Depths'
           /\ \A d \in Depths' : stack'[d] = stack[d]
<1>. DEFINE n == Len(stack)
<1>1. n \in Nat /\ n # 0 /\ n - 1 \in Nat /\ n \in 1 .. n
  OBVIOUS
<1>2. ASSUME NEW s \in Seq(Entry), NEW k \in 1 .. Len(s)
      PROVE  /\ SubSeq(s, 1, k - 1) \in Seq(Entry) /\ Len(SubSeq(s, 1, k - 1)) = k - 1
             /\ \A d \in 1 .. k - 1 : SubSeq(s, 1, k - 1)[d] = s[d]
  OBVIOUS
<1>3. stack' = SubSeq(stack, 1, n - 1)
  BY DEF Pop
<1>4. /\ stack' \in Seq(Entry) /\ Len(stack') = n - 1
      /\ \A d \in 1 .. n - 1 : stack'[d] = stack[d]
  BY <1>1, <1>2, <1>3
<1>. QED BY <1>1, <1>4 DEF Depths

(* The innermost loop, where it is. *)
LEMMA TopIs ==
    ASSUME Shape, NEW kind, NEW at, At(kind, at)
    PROVE  /\ stack # <<>> /\ Len(stack) \in Depths /\ Top = stack[Len(stack)]
           /\ Top \in Entry /\ Top.kind = kind /\ Top.at = at
<1>1. stack # <<>> /\ Top.kind = kind /\ Top.at = at
  BY DEF At
<1>2. Len(stack) \in 1 .. Len(stack) /\ stack[Len(stack)] \in Entry
  BY <1>1 DEF Shape
<1>. QED BY <1>1, <1>2 DEF Top, Depths

(* While events are handled every loop waits. *)
LEMMA AllWait ==
    ASSUME Shape, OuterWait, HandlesEvents PROVE \A d \in Depths : stack[d].at \in Waiting
<1>1. CASE stack = <<>>
  BY <1>1 DEF Depths
<1>2. CASE stack # <<>>
  <2>1. stack[Len(stack)].at \in Waiting
    BY <1>2 DEF HandlesEvents, Top, Waiting
  <2>. QED BY <2>1 DEF OuterWait
<1>. QED BY <1>1, <1>2

-----------------------------------------------------------------------------
(* Steps that leave the loops where they are. *)
LEMMA SameLoops ==
    ASSUME Inductive, UNCHANGED <<stack, analyses>>, on' \in {0, 1} PROVE Loops'
BY DEF Inductive, Loops, Shape, OuterWait, Places, Newest, Depths

LEMMA QuietStep ==
    ASSUME Inductive, UNCHANGED <<stack, analyses, realOn, acq_on, window>>,
           on' \in {0, 1}, on' = 1 /\ up' => on = 1 /\ up
    PROVE  Inductive'
<1>1. Loops'
  BY SameLoops
<1>2. Flags'
  BY DEF Inductive, Flags, FlagOfAna, FlagOfAcq, Draws, Depths
<1>3. Started'
  BY DEF Inductive, Started, Depths
<1>. QED BY <1>1, <1>2, <1>3 DEF Inductive

(* The innermost loop goes on. *)
LEMMA GotoStep ==
    ASSUME Inductive, stack # <<>>, UNCHANGED <<analyses, realOn, acq_on, window>>,
           NEW at \in AtOf(Top) \ {"notice"}, NEW i \in Nat, Goto(at, i),
           at \in {"config", "start"} => realOn,
           Top.kind = "ana" /\ at # "events" => window.open /\ Top.win = analyses,
           on' \in {0, 1},
           \/ on' = 1 /\ up' => on = 1 /\ up /\ (Top.kind = "acq" => at \in {"body", "events"})
           \/ realOn
           \/ acq_on /\ Top.kind = "acq" /\ at \in {"body", "events"}
    PROVE  Inductive'
<1>. DEFINE n == Len(stack)
<1>1. stack \in Seq(Entry) /\ analyses \in Nat
  BY DEF Inductive, Loops, Shape
<1>2. n \in Nat /\ n \in Depths /\ Top = stack[n] /\ Top \in Entry
  BY <1>1 DEF Depths, Top
<1>3. at \in {"config", "start", "body"} \cup Waiting
  BY DEF AtOf, Waiting
<1>4. /\ stack' \in Seq(Entry) /\ Len(stack') = n /\ Depths' = Depths
      /\ \A d \in Depths : d # n => stack'[d] = stack[d]
      /\ stack'[n] = [kind |-> Top.kind, at |-> at, i |-> i, win |-> Top.win]
  BY <1>1, <1>3, GotoStack
<1>. HIDE DEF n
<1>5. \A d \in Depths : stack'[d].kind = stack[d].kind /\ stack'[d].win = stack[d].win
  BY <1>2, <1>4
<1>6. Shape' /\ OuterWait' /\ Newest'
  <2>1. OuterWait'
    BY <1>4 DEF Inductive, Loops, OuterWait, n
  <2>. QED BY <1>1, <1>4, <1>5, <2>1 DEF Inductive, Loops, Shape, Newest
<1>7. Places'
  <2>1. ASSUME NEW d \in Depths PROVE stack'[d].at \in AtOf(stack'[d])
    <3>1. CASE d = n
      BY <1>2, <1>4, <3>1 DEF AtOf
    <3>2. CASE d # n
      BY <1>4, <3>2 DEF Inductive, Loops, Places
    <3>. QED BY <3>1, <3>2
  <2>. QED BY <1>4, <2>1 DEF Places
<1>8. FlagOfAna'
  <2>1. ASSUME NEW d \in Depths, stack'[d].at \in {"config", "start"} PROVE realOn
    <3>1. CASE d = n
      BY <1>4, <2>1, <3>1
    <3>2. CASE d # n
      BY <1>4, <2>1, <3>2 DEF Inductive, Flags, FlagOfAna
    <3>. QED BY <3>1, <3>2
  <2>2. realOn => window.open /\ \E d \in Depths : stack'[d].kind = "ana" /\ stack'[d].win = analyses
    BY <1>5 DEF Inductive, Flags, FlagOfAna
  <2>. QED BY <1>4, <2>1, <2>2 DEF FlagOfAna
<1>9. FlagOfAcq'
  <2>1. ASSUME NEW d \in Depths, stack'[d].at = "notice" PROVE acq_on
    <3>1. CASE d = n
      BY <1>4, <2>1, <3>1
    <3>2. CASE d # n
      BY <1>4, <2>1, <3>2 DEF Inductive, Flags, FlagOfAcq
    <3>. QED BY <3>1, <3>2
  <2>. QED BY <1>4, <2>1 DEF FlagOfAcq
<1>10. Draws'
  <2>1. ASSUME NEW d \in Depths, stack'[d].kind = "ana", stack'[d].at # "events"
        PROVE  window.open /\ stack'[d].win = analyses
    <3>1. CASE d = n
      BY <1>4, <2>1, <3>1
    <3>2. CASE d # n
      BY <1>4, <2>1, <3>2 DEF Inductive, Flags, Draws
    <3>. QED BY <3>1, <3>2
  <2>. QED BY <1>4, <2>1 DEF Draws
<1>11. Started'
  <2>. SUFFICES ASSUME on' = 1, up', ~realOn
                PROVE  acq_on /\ \E d \in Depths : /\ stack'[d].kind = "acq"
                                                   /\ stack'[d].at \in {"body", "events"}
    BY <1>4 DEF Started
  <2>1. CASE acq_on /\ Top.kind = "acq" /\ at \in {"body", "events"}
    BY <1>2, <1>4, <2>1
  <2>2. CASE on = 1 /\ up /\ (Top.kind = "acq" => at \in {"body", "events"})
    <3>1. PICK d \in Depths : stack[d].kind = "acq" /\ stack[d].at \in {"body", "events"}
      BY <2>2 DEF Inductive, Started
    <3>2. acq_on
      BY <2>2 DEF Inductive, Started
    <3>3. CASE d = n
      BY <1>2, <1>4, <2>2, <3>1, <3>2, <3>3
    <3>4. CASE d # n
      BY <1>4, <3>1, <3>2, <3>4
    <3>. QED BY <3>3, <3>4
  <2>. QED BY <2>1, <2>2
<1>. QED BY <1>6, <1>7, <1>8, <1>9, <1>10, <1>11 DEF Inductive, Loops, Flags

(* A loop is entered on top of the others. *)
LEMMA PushStep ==
    ASSUME Inductive, HandlesEvents, analyses' \in Nat,
           NEW kind \in {"ana", "acq"}, NEW at, Push(kind, at),
           kind = "ana" => /\ at \in {"config", "start", "body", "events"}
                           /\ analyses' = analyses + 1 /\ realOn' /\ window'.open,
           kind = "acq" => /\ at \in {"body", "events", "notice", "warning"}
                           /\ analyses' = analyses /\ realOn' = realOn /\ window' = window,
           acq_on => acq_on', kind = "acq" => acq_on',
           on' \in {0, 1},
           on' = 1 /\ up' => (on = 1 /\ up) \/ (kind = "acq" /\ at = "body")
    PROVE  Inductive'
<1>. DEFINE n == Len(stack')
<1>1. stack \in Seq(Entry) /\ analyses \in Nat
  BY DEF Inductive, Loops, Shape
<1>2. at \in {"config", "start", "body"} \cup Waiting
  BY DEF Waiting
<1>3. /\ stack' \in Seq(Entry)
      /\ Depths' = Depths \cup {n} /\ n \notin Depths /\ n = Len(stack) + 1
      /\ \A d \in Depths : stack'[d] = stack[d] /\ d < n
      /\ stack'[n] = [kind |-> kind, at |-> at, i |-> 0, win |-> analyses']
  BY <1>1, <1>2, PushStack
<1>4. \A d \in Depths : stack[d].at \in Waiting
  BY AllWait DEF Inductive, Loops
<1>. HIDE DEF n
<1>5. Shape'
  BY <1>3 DEF Shape
<1>6. OuterWait'
  BY <1>3, <1>4 DEF OuterWait, n
<1>7. Places'
  <2>1. \A d \in Depths : stack'[d].at \in AtOf(stack'[d])
    BY <1>3 DEF Inductive, Loops, Places
  <2>2. stack'[n].at \in AtOf(stack'[n])
    BY <1>3 DEF AtOf
  <2>. QED BY <1>3, <2>1, <2>2 DEF Places
<1>8. Newest'
  <2>0. ASSUME NEW d \in Depths, stack'[d].kind = "ana"
        PROVE  stack'[d].win = stack[d].win /\ stack[d].win <= analyses /\ stack[d].win \in Nat
    <3>1. stack[d] \in Entry
      BY <1>1 DEF Depths
    <3>2. stack[d].win \in Nat
      BY <3>1 DEF Entry
    <3>3. stack[d].kind = "ana"
      BY <1>3, <2>0
    <3>4. stack[d].win <= analyses
      BY <3>3 DEF Inductive, Loops, Newest
    <3>. QED BY <1>3, <3>2, <3>4
  <2>1. ASSUME NEW d \in Depths, stack'[d].kind = "ana"
        PROVE  stack'[d].win <= analyses'
    <3>1. analyses' = analyses \/ analyses' = analyses + 1
      OBVIOUS
    <3>. QED BY <1>1, <2>0, <2>1, <3>1
  <2>2. ASSUME NEW d \in Depths, NEW e \in Depths, stack'[d].kind = "ana",
               d < e, stack'[e].kind = "ana"
        PROVE  stack'[d].win < stack'[e].win
    BY <1>3, <2>2 DEF Inductive, Loops, Newest
  <2>3. ASSUME NEW d \in Depths, stack'[d].kind = "ana", stack'[n].kind = "ana"
        PROVE  stack'[d].win < stack'[n].win
    <3>1. kind = "ana" /\ analyses' = analyses + 1 /\ stack'[n].win = analyses + 1
      BY <1>3, <2>3
    <3>. QED BY <1>1, <2>0, <2>3, <3>1
  <2>4. \A d \in Depths : ~(n < d)
    BY <1>3 DEF Depths
  <2>. QED BY <1>3, <2>1, <2>2, <2>3, <2>4 DEF Newest
<1>9. FlagOfAna'
  <2>1. \A d \in Depths : stack'[d].at \notin {"config", "start"}
    BY <1>3, <1>4 DEF Waiting
  <2>2. CASE kind = "ana"
    BY <1>3, <2>1, <2>2 DEF FlagOfAna
  <2>3. CASE kind = "acq"
    <3>1. realOn => window.open /\ \E d \in Depths : stack[d].kind = "ana" /\ stack[d].win = analyses
      BY DEF Inductive, Flags, FlagOfAna
    <3>. QED BY <1>3, <2>1, <2>3, <3>1 DEF FlagOfAna
  <2>. QED BY <2>2, <2>3
<1>10. FlagOfAcq'
  <2>1. \A d \in Depths : stack'[d].at = "notice" => acq_on'
    BY <1>3 DEF Inductive, Flags, FlagOfAcq
  <2>2. stack'[n].at = "notice" => acq_on'
    BY <1>3
  <2>. QED BY <1>3, <2>1, <2>2 DEF FlagOfAcq
<1>11. Draws'
  <2>1. \A d \in Depths : stack'[d].kind = "ana" => stack'[d].at = "events"
    BY <1>3, <1>4 DEF Inductive, Loops, Places, AtOf, Waiting
  <2>. QED BY <1>3, <2>1 DEF Draws
<1>12. Started'
  <2>. SUFFICES ASSUME on' = 1, up', ~realOn'
                PROVE  acq_on' /\ \E d \in Depths' : /\ stack'[d].kind = "acq"
                                                     /\ stack'[d].at \in {"body", "events"}
    BY DEF Started
  <2>1. CASE kind = "acq" /\ at = "body"
    BY <1>3, <2>1
  <2>2. CASE on = 1 /\ up
    <3>1. ~realOn
      OBVIOUS
    <3>2. PICK d \in Depths : stack[d].kind = "acq" /\ stack[d].at \in {"body", "events"}
      BY <2>2, <3>1 DEF Inductive, Started
    <3>3. acq_on
      BY <2>2, <3>1 DEF Inductive, Started
    <3>. QED BY <1>3, <3>2, <3>3
  <2>. QED BY <2>1, <2>2
<1>. QED BY <1>5, <1>6, <1>7, <1>8, <1>9, <1>10, <1>11, <1>12 DEF Inductive, Loops, Flags

(* A loop is left: its flag is no longer set, or it was at its warning. *)
LEMMA PopStep ==
    ASSUME Inductive, stack # <<>>, Pop, HandlesEvents,
           UNCHANGED <<analyses, realOn, acq_on, window, up, on>>,
           \/ Top.kind = "ana" /\ ~realOn
           \/ Top.kind = "acq" /\ ~acq_on
           \/ Top.kind = "acq" /\ Top.at = "warning"
    PROVE  Inductive'
<1>. DEFINE n == Len(stack)
<1>1. stack \in Seq(Entry) /\ Top = stack[n]
  BY DEF Inductive, Loops, Shape, Top
<1>2. /\ stack' \in Seq(Entry) /\ Len(stack') = n - 1
      /\ Depths = Depths' \cup {n} /\ n \notin Depths'
      /\ \A d \in Depths' : stack'[d] = stack[d]
  BY <1>1, PopStack
<1>3. \A d \in Depths : stack[d].at \in Waiting
  BY AllWait DEF Inductive, Loops
<1>. HIDE DEF n
<1>4. Shape' /\ OuterWait' /\ Places' /\ Newest'
  <2>1. Shape' /\ OuterWait'
    BY <1>2, <1>3 DEF Inductive, Loops, Shape, OuterWait
  <2>2. Places'
    BY <1>2 DEF Inductive, Loops, Places
  <2>3. Newest'
    BY <1>2 DEF Inductive, Loops, Newest
  <2>. QED BY <2>1, <2>2, <2>3
<1>5. FlagOfAna'
  BY <1>1, <1>2 DEF Inductive, Flags, FlagOfAna
<1>6. FlagOfAcq' /\ Draws'
  BY <1>2 DEF Inductive, Flags, FlagOfAcq, Draws
<1>7. Started'
  BY <1>1, <1>2 DEF Inductive, Flags, FlagOfAna, Started
<1>. QED BY <1>4, <1>5, <1>6, <1>7 DEF Inductive, Loops, Flags

(* A window's button, while every loop waits. *)
LEMMA ButtonStep ==
    ASSUME Inductive, HandlesEvents, UNCHANGED <<stack, analyses>>,
           \/ realOn' = FALSE /\ acq_on' = acq_on
           \/ acq_on' = FALSE /\ ~Notified /\ realOn' = realOn /\ window' = window,
           on' \in {0, 1}, ~(on' = 1 /\ up')
    PROVE  Inductive'
<1>1. Loops'
  BY SameLoops
<1>2. \A d \in Depths : stack[d].at \in Waiting
  BY AllWait DEF Inductive, Loops
<1>3. Depths' = Depths /\ stack' = stack
  BY DEF Depths
<1>4. FlagOfAna'
  BY <1>2, <1>3 DEF Inductive, Flags, FlagOfAna, Waiting
<1>5. FlagOfAcq'
  <2>1. CASE acq_on' = acq_on
    BY <1>3, <2>1 DEF Inductive, Flags, FlagOfAcq
  <2>2. CASE ~Notified
    BY <1>3, <2>2 DEF FlagOfAcq, Notified, Inductive, Loops, Shape, Depths
  <2>. QED BY <2>1, <2>2
<1>6. Draws'
  <2>1. \A d \in Depths : stack[d].kind = "ana" => stack[d].at = "events"
    BY <1>2 DEF Inductive, Loops, Places, AtOf, Waiting
  <2>. QED BY <1>3, <2>1 DEF Draws
<1>7. Started'
  BY DEF Started
<1>. QED BY <1>1, <1>4, <1>5, <1>6, <1>7 DEF Inductive, Flags

-----------------------------------------------------------------------------
(* The actions. *)

LEMMA InitInductive == Init => Inductive
<1>. SUFFICES ASSUME Init PROVE Inductive
  OBVIOUS
<1>1. /\ stack = <<>> /\ ~realOn /\ on = 0 /\ analyses = 0
      /\ Depths = {}
  BY DEF Init, Depths
<1>2. Loops
  BY <1>1 DEF Loops, Shape, OuterWait, Places, Newest
<1>3. Flags /\ Started
  BY <1>1 DEF Flags, FlagOfAna, FlagOfAcq, Draws, Started
<1>. QED BY <1>2, <1>3 DEF Inductive

LEMMA OnIsFlag == Inductive => on \in {0, 1}
BY DEF Inductive, Loops, Shape

LEMMA StopServed ==
    ASSUME Inductive, Request(ServeStop) PROVE on' \in {0, 1} /\ ~(on' = 1 /\ up')
<1>1. CASE up
  BY <1>1, OnIsFlag DEF Request, ServeStop
<1>2. CASE ~up
  BY <1>2, OnIsFlag DEF Request, server
<1>. QED BY <1>1, <1>2

LEMMA SetupConfigInductive == Inductive /\ SetupConfig => Inductive'
<1>. SUFFICES ASSUME Inductive, SetupConfig PROVE Inductive'
  OBVIOUS
<1>1. /\ At("ana", "config") /\ Goto("start", 0) /\ UNCHANGED <<analyses, realOn, acq_on, window>>
      /\ Request(ServeConfig)
  BY DEF SetupConfig, history
<1>2. stack # <<>> /\ Top.kind = "ana" /\ Top.at = "config" /\ Top = stack[Len(stack)]
      /\ Len(stack) \in Depths
  BY <1>1, TopIs DEF Inductive, Loops
<1>3. realOn /\ window.open /\ Top.win = analyses
  BY <1>2 DEF Inductive, Flags, FlagOfAna, Draws
<1>4. on' \in {0, 1}
  BY <1>1, OnIsFlag DEF Request, ServeConfig, server
<1>. QED BY <1>1, <1>2, <1>3, <1>4, GotoStep DEF AtOf

LEMMA SetupStartInductive == Inductive /\ SetupStart => Inductive'
<1>. SUFFICES ASSUME Inductive, SetupStart PROVE Inductive'
  OBVIOUS
<1>1. /\ At("ana", "start") /\ Goto("body", 0) /\ UNCHANGED <<analyses, realOn, acq_on, window>>
      /\ Request(ServeStart)
  BY DEF SetupStart, history
<1>2. stack # <<>> /\ Top.kind = "ana" /\ Top.at = "start" /\ Top = stack[Len(stack)]
      /\ Len(stack) \in Depths
  BY <1>1, TopIs DEF Inductive, Loops
<1>3. realOn /\ window.open /\ Top.win = analyses
  BY <1>2 DEF Inductive, Flags, FlagOfAna, Draws
<1>4. on' \in {0, 1}
  BY <1>1, OnIsFlag DEF Request, ServeStart, server
<1>. QED BY <1>1, <1>2, <1>3, <1>4, GotoStep DEF AtOf

LEMMA SetupRealInductive == Inductive /\ SetupReal => Inductive'
<1>. SUFFICES ASSUME Inductive, SetupReal PROVE Inductive'
  OBVIOUS
<1>1. /\ At("ana", "body") /\ UNCHANGED <<analyses, realOn, acq_on, window>>
      /\ on' = on /\ up' = up
      /\ Goto("body", Top.i + 1) \/ Goto("events", 0)
  BY DEF SetupReal, AfterPoll, history, server
<1>2. stack # <<>> /\ Top.kind = "ana" /\ Top.at = "body" /\ Top = stack[Len(stack)]
      /\ Len(stack) \in Depths /\ Top \in Entry
  BY <1>1, TopIs DEF Inductive, Loops
<1>3. window.open /\ Top.win = analyses
  BY <1>2 DEF Inductive, Flags, Draws
<1>4. Top.i + 1 \in Nat /\ 0 \in Nat
  BY <1>2 DEF Entry
<1>5. on' \in {0, 1}
  BY <1>1, OnIsFlag
<1>6. CASE Goto("body", Top.i + 1)
  BY <1>1, <1>2, <1>3, <1>4, <1>5, <1>6, GotoStep DEF AtOf
<1>7. CASE Goto("events", 0)
  BY <1>1, <1>2, <1>4, <1>5, <1>7, GotoStep DEF AtOf
<1>. QED BY <1>1, <1>6, <1>7

LEMMA SetupCurrentInductive == Inductive /\ SetupCurrent => Inductive'
<1>. SUFFICES ASSUME Inductive, SetupCurrent PROVE Inductive'
  OBVIOUS
<1>1. /\ At("acq", "body") /\ Goto("events", 0) /\ UNCHANGED <<analyses, realOn, acq_on, window>>
      /\ on' = on /\ (up' => up)
  BY DEF SetupCurrent, Request, ServeCurr, history, server
<1>2. stack # <<>> /\ Top.kind = "acq"
  BY <1>1, TopIs DEF Inductive, Loops
<1>. QED BY <1>1, <1>2, OnIsFlag, GotoStep DEF AtOf

(* The loop of an analysis that goes on is the newest: it is the innermost *)
(* of its kind, and realOn is that of the newest.                          *)
LEMMA LoopOrBreakInductive == Inductive /\ LoopOrBreak => Inductive'
<1>. SUFFICES ASSUME Inductive, LoopOrBreak PROVE Inductive'
  OBVIOUS
<1>1. /\ stack # <<>> /\ Top.at = "events"
      /\ UNCHANGED <<analyses, realOn, acq_on, window, up, on>>
      /\ IF (Top.kind = "ana" /\ realOn) \/ (Top.kind = "acq" /\ acq_on)
         THEN Goto("body", 0) ELSE Pop
  BY DEF LoopOrBreak, history, server
<1>2. At(Top.kind, "events")
  BY <1>1 DEF At
<1>3. Len(stack) \in Depths /\ Top = stack[Len(stack)] /\ Top \in Entry
  BY <1>2, TopIs DEF Inductive, Loops
<1>4. Top.kind \in {"ana", "acq"} /\ on' \in {0, 1}
  BY <1>1, <1>3, OnIsFlag DEF Entry
<1>5. CASE Top.kind = "ana" /\ realOn
  <2>1. window.open
    BY <1>5 DEF Inductive, Flags, FlagOfAna
  <2>2. PICK d \in Depths : stack[d].kind = "ana" /\ stack[d].win = analyses
    BY <1>5 DEF Inductive, Flags, FlagOfAna
  <2>3. ~(d < Len(stack))
    <3>1. stack[Len(stack)].win <= analyses /\ stack[Len(stack)].win \in Nat /\ analyses \in Nat
      BY <1>3, <1>5 DEF Inductive, Loops, Newest, Shape, Entry
    <3>2. d < Len(stack) => stack[d].win < stack[Len(stack)].win
      BY <1>3, <1>5, <2>2 DEF Inductive, Loops, Newest
    <3>. QED BY <2>2, <3>1, <3>2
  <2>4. Top.win = analyses
    <3>1. d = Len(stack)
      BY <1>3, <2>3 DEF Depths
    <3>. QED BY <1>3, <2>2, <3>1
  <2>. QED BY <1>1, <1>4, <1>5, <2>1, <2>4, GotoStep DEF AtOf
<1>6. CASE Top.kind = "acq" /\ acq_on
  BY <1>1, <1>4, <1>6, GotoStep DEF AtOf
<1>7. CASE ~((Top.kind = "ana" /\ realOn) \/ (Top.kind = "acq" /\ acq_on))
  <2>1. HandlesEvents
    BY <1>1 DEF HandlesEvents
  <2>. QED BY <1>1, <1>4, <1>7, <2>1, PopStep
<1>. QED BY <1>5, <1>6, <1>7

LEMMA OkayInductive == Inductive /\ Okay => Inductive'
<1>. SUFFICES ASSUME Inductive, Okay PROVE Inductive'
  OBVIOUS
<1>1. /\ HandlesEvents /\ analyses' = analyses + 1 /\ realOn' /\ window'.open
      /\ acq_on' = acq_on /\ on' = on /\ up' = up /\ Push("ana", "config")
  BY DEF Okay, addconfig, server
<1>2. analyses' \in Nat
  BY <1>1 DEF Inductive, Loops, Shape
<1>. QED BY <1>1, <1>2, OnIsFlag, PushStep

LEMMA StartDaInductive == ASSUME NEW needed \in BOOLEAN PROVE Inductive /\ StartDa(needed) => Inductive'
<1>. SUFFICES ASSUME Inductive, StartDa(needed) PROVE Inductive'
  OBVIOUS
<1>. DEFINE at == IF ~up THEN "warning" ELSE IF needed THEN "body" ELSE "notice"
<1>1. /\ HandlesEvents /\ acq_on' /\ UNCHANGED <<analyses, realOn, window>>
      /\ Push("acq", at)
      /\ IF up /\ needed THEN ServeStartWo(TRUE) ELSE UNCHANGED server
  BY DEF StartDa
<1>2. analyses' \in Nat /\ on \in {0, 1}
  BY <1>1 DEF Inductive, Loops, Shape
<1>3. /\ on' \in {0, 1}
      /\ on' = 1 /\ up' => (on = 1 /\ up) \/ at = "body"
  BY <1>1, <1>2 DEF ServeStartWo, server
<1>4. at \in {"body", "events", "notice", "warning"}
  OBVIOUS
<1>. HIDE DEF at
<1>. QED BY <1>1, <1>2, <1>3, <1>4, PushStep

LEMMA DismissInductive == Inductive /\ Dismiss => Inductive'
<1>. SUFFICES ASSUME Inductive, Dismiss PROVE Inductive'
  OBVIOUS
<1>1. UNCHANGED <<analyses, realOn, acq_on, window>>
  BY DEF Dismiss, history
<1>2. CASE At("acq", "warning") /\ Pop /\ UNCHANGED server
  <2>1. stack # <<>> /\ Top.kind = "acq" /\ Top.at = "warning"
    BY <1>2, TopIs DEF Inductive, Loops
  <2>2. HandlesEvents
    BY <2>1 DEF HandlesEvents
  <2>. QED BY <1>1, <1>2, <2>1, <2>2, PopStep DEF server
<1>3. CASE At("acq", "notice") /\ Request(ServeStartWo(FALSE)) /\ Goto("body", 0)
  <2>1. stack # <<>> /\ Top.kind = "acq" /\ Top = stack[Len(stack)] /\ Top.at = "notice"
        /\ Len(stack) \in Depths
    BY <1>3, TopIs DEF Inductive, Loops
  <2>2. acq_on
    BY <2>1 DEF Inductive, Flags, FlagOfAcq
  <2>3. on' \in {0, 1}
    BY <1>3, OnIsFlag DEF Request, ServeStartWo, server
  <2>. QED BY <1>1, <1>3, <2>1, <2>2, <2>3, GotoStep DEF AtOf
<1>. QED BY <1>2, <1>3 DEF Dismiss

LEMMA ButtonsInductive == Inductive /\ (PackanaStop \/ PackanaClose \/ StopDa) => Inductive'
<1>. SUFFICES ASSUME Inductive, PackanaStop \/ PackanaClose \/ StopDa PROVE Inductive'
  OBVIOUS
<1>1. /\ HandlesEvents /\ UNCHANGED <<stack, analyses>> /\ Request(ServeStop)
      /\ \/ realOn' = FALSE /\ acq_on' = acq_on
         \/ acq_on' = FALSE /\ ~Notified /\ realOn' = realOn /\ window' = window
  BY DEF PackanaStop, PackanaClose, StopDa, history
<1>. QED BY <1>1, StopServed, ButtonStep

LEMMA QuietInductive ==
    ASSUME Inductive,
           \/ RtanaRealized \/ (\E p \in Packages : AddPackage(p))
           \/ OpenAcqWindow \/ CloseAcqWindow \/ ServerStep \/ UNCHANGED vars
    PROVE  Inductive'
<1>1. UNCHANGED <<stack, analyses, realOn, acq_on, window>>
  BY DEF RtanaRealized, AddPackage, OpenAcqWindow, CloseAcqWindow, ServerStep, Post,
         StoreMessage, Kill, Restart, vars, client, history
<1>2. on' \in {0, 1} /\ (on' = 1 /\ up' => on = 1 /\ up)
  <2>1. CASE ServerStep
    <3>1. CASE \E o \in Objects : Post(o)
      <4>1. on' = on /\ up' = up
        BY <3>1 DEF Post
      <4>. QED BY <4>1, OnIsFlag
    <3>2. CASE StoreMessage \/ Kill \/ Restart
      <4>1. (on' = on /\ up' = FALSE) \/ on' = 0
        BY <3>2 DEF StoreMessage, Kill, Restart
      <4>. QED BY <4>1, OnIsFlag
    <3>. QED BY <2>1, <3>1, <3>2 DEF ServerStep
  <2>2. CASE ~ServerStep
    <3>1. UNCHANGED server
      BY <2>2 DEF RtanaRealized, AddPackage, OpenAcqWindow, CloseAcqWindow, vars
    <3>. QED BY <3>1, OnIsFlag DEF server
  <2>. QED BY <2>1, <2>2
<1>. QED BY <1>1, <1>2, QuietStep

LEMMA NextInductive == Inductive /\ [Next]_vars => Inductive'
BY SetupConfigInductive, SetupStartInductive, SetupRealInductive, SetupCurrentInductive,
   LoopOrBreakInductive, OkayInductive, StartDaInductive, DismissInductive, ButtonsInductive,
   QuietInductive DEF Next, LoopStep, Event

LEMMA Invariance == Spec => []Inductive
BY InitInductive, NextInductive, PTL DEF Spec

LEMMA TopLoop ==
    ASSUME Inductive, stack # <<>>
    PROVE  Len(stack) \in Depths /\ Top = stack[Len(stack)]
BY DEF Inductive, Loops, Shape, Depths, Top

(* The loop of packana_post_realise_callback draws only in a window that is*)
(* open and is its own, whatever the user does from inside it.             *)
THEOREM LoopDrawsOpenWindow == Spec => []DrawsOpenWindow
<1>1. Inductive => DrawsOpenWindow
  BY TopLoop DEF Inductive, Flags, Draws, DrawsOpenWindow
<1>. QED BY <1>1, Invariance, PTL

(* When the last loop of either window has ended, the server that runs has *)
(* been stopped: no Stop, Close or notice of one window leaves the         *)
(* acquisition of the other running without anyone polling it.             *)
THEOREM IdleIsQuiet == Spec => []QuietWhenIdle
<1>1. Inductive => QuietWhenIdle
  BY DEF Inductive, Loops, Shape, Flags, FlagOfAna, Started, Depths, QuietWhenIdle
<1>. QED BY <1>1, Invariance, PTL

-----------------------------------------------------------------------------
(* The first analysis of a client.  As long as no more packages exist than *)
(* a CONFIG_MSG has details, the object polled for a package is the one    *)
(* that was configured for it: the selection was sent as it is, to a       *)
(* server that had no object in use.                                       *)
Fits ==
    /\ IsFiniteSet(Packages) /\ Cardinality(Packages) <= MaxPkg
    /\ MaxPkg <= ArraySize

(* A package is selected once. *)
Chosen ==
    /\ sel \in Seq(Packages)
    /\ \A i, j \in DOMAIN sel : i # j => sel[i] # sel[j]

First == analyses <= 1 /\ ~upset /\ up

(* Is the analysis not about to send its CONFIG, has it sent it? *)
NoConfig == \A d \in Depths : stack[d].at # "config"
Begun == \E d \in Depths : stack[d].kind = "ana" /\ stack[d].at # "config"

(* What keeps the server alive, its objects' frames their own, and ties    *)
(* the objects to the selection.                                           *)
Alive == ~(writeGlobal = 1 /\ globalfile = "NULL")
Named == Packages \cup {"unset", "junk"}
Object == [pkg : Named, rdy : {0, 1}, frame : Named \cup {"zero"}]
OwnObjects ==
    /\ obj \in [Objects -> Object]
    /\ \A o \in Objects : obj[o].frame \in {"zero", obj[o].pkg}
Untouched ==
    analyses = 0 => /\ msg = [pkgs |-> <<>>, store |-> 0] /\ config_count = 0
                    /\ ~InLoop("ana")
Configured ==
    /\ ~NoConfig => msg = [pkgs |-> sel, store |-> 0] /\ config_count = 0
    /\ Begun => \A i \in DOMAIN sel : obj[i - 1].pkg = sel[i]

Own == First => Alive /\ OwnFrames /\ OwnObjects /\ Untouched /\ Configured

(* What two fields' change makes of an object. *)
LEMMA ObjectIs ==
    ASSUME NEW b \in Object PROVE b = [pkg |-> b.pkg, rdy |-> b.rdy, frame |-> b.frame]
BY DEF Object

LEMMA Registered ==
    ASSUME NEW b \in Object, NEW p \in Named
    PROVE  [b EXCEPT !.pkg = p, !.frame = "zero"]
             = [pkg |-> p, rdy |-> b.rdy, frame |-> "zero"]
<1>. DEFINE c == [b EXCEPT !.pkg = p, !.frame = "zero"]
<1>1. c \in Object /\ c.pkg = p /\ c.rdy = b.rdy /\ c.frame = "zero"
  BY DEF Object
<1>. QED BY <1>1, ObjectIs

LEMMA Posted ==
    ASSUME NEW b \in Object
    PROVE  [b EXCEPT !.rdy = 1, !.frame = b.pkg]
             = [pkg |-> b.pkg, rdy |-> 1, frame |-> b.pkg]
<1>. DEFINE c == [b EXCEPT !.rdy = 1, !.frame = b.pkg]
<1>1. c \in Object /\ c.pkg = b.pkg /\ c.rdy = 1 /\ c.frame = b.pkg
  BY DEF Object
<1>. QED BY <1>1, ObjectIs

LEMMA ChosenFits ==
    ASSUME Fits, Chosen
    PROVE  /\ Len(sel) \in Nat /\ Len(sel) <= MaxPkg
           /\ DOMAIN sel = 1 .. Len(sel)
           /\ \A i \in DOMAIN sel : i \in 1 .. MaxPkg /\ i - 1 \in Objects
<1>1. Len(sel) \in Nat /\ DOMAIN sel = 1 .. Len(sel) /\ sel \in [1 .. Len(sel) -> Packages]
  BY DEF Chosen
<1>2. Cardinality(Packages) \in Nat
  BY FS_CardinalityType DEF Fits
<1>3. Len(sel) <= Cardinality(Packages)
  <2>. SUFFICES ASSUME Cardinality(Packages) < Len(sel) PROVE FALSE
    BY <1>1, <1>2
  <2>. DEFINE S == 1 .. Len(sel)
  <2>1. IsFiniteSet(S) /\ Cardinality(S) = Len(sel)
    BY <1>1, FS_Interval
  <2>2. \E x, y \in S : x # y /\ sel[x] = sel[y]
    BY <1>1, <2>1, FS_PigeonHole DEF Fits
  <2>. QED BY <1>1, <2>2 DEF Chosen
<1>4. MaxPkg \in Nat /\ ArraySize \in Nat
  BY AnalysisAssumption
<1>5. Len(sel) <= MaxPkg
  BY <1>1, <1>2, <1>3, <1>4 DEF Fits
<1>. QED BY <1>1, <1>4, <1>5 DEF Fits, Objects

LEMMA ChosenInvariant == Chosen /\ [Next]_vars => Chosen'
<1>. SUFFICES ASSUME Chosen, [Next]_vars PROVE Chosen'
  OBVIOUS
<1>1. CASE sel' = sel
  BY <1>1 DEF Chosen
<1>2. CASE sel' = <<>>
  BY <1>2 DEF Chosen
<1>3. ASSUME NEW p \in Packages, AddPackage(p) PROVE Chosen'
  <2>1. sel' = Append(sel, p) /\ sel \in Seq(Packages)
    BY <1>3 DEF AddPackage, Chosen
  <2>2. /\ sel' \in Seq(Packages) /\ DOMAIN sel' = 1 .. Len(sel) + 1 /\ Len(sel) \in Nat
        /\ DOMAIN sel = 1 .. Len(sel) /\ sel'[Len(sel) + 1] = p
        /\ \A i \in 1 .. Len(sel) : sel'[i] = sel[i] /\ sel'[i] # p
    BY <1>3, <2>1 DEF AddPackage
  <2>3. \A i, j \in DOMAIN sel' : i # j => sel'[i] # sel'[j]
    BY <2>2 DEF Chosen
  <2>. QED BY <2>2, <2>3 DEF Chosen
<1>4. sel' = sel \/ sel' = <<>> \/ \E p \in Packages : AddPackage(p)
  BY DEF Next, LoopStep, Event, ServerStep, SetupConfig, SetupStart, SetupReal, SetupCurrent,
         LoopOrBreak, RtanaRealized, Okay, PackanaStop, PackanaClose, OpenAcqWindow,
         CloseAcqWindow, StartDa, Dismiss, StopDa, Post, StoreMessage, Kill, Restart,
         vars, client
<1>. QED BY <1>1, <1>2, <1>3, <1>4

(* Loops that are not about to configure, and those that wait. *)
LEMMA LoopDomain == Inductive => DOMAIN stack = Depths
BY DEF Inductive, Loops, Shape, Depths

LEMMA GotoOwn ==
    ASSUME Inductive, Inductive', stack # <<>>, Top.at # "config", NEW i \in Nat,
           NEW at \in {"start", "body"} \cup Waiting, Goto(at, i)
    PROVE  NoConfig' /\ (Begun' => Begun) /\ (InLoop("ana")' => InLoop("ana"))
<1>1. stack \in Seq(Entry)
  BY DEF Inductive, Loops, Shape
<1>2. /\ Depths' = Depths /\ Len(stack) \in Depths
      /\ \A d \in Depths : d # Len(stack) => stack'[d] = stack[d]
      /\ stack'[Len(stack)] = [kind |-> Top.kind, at |-> at, i |-> i, win |-> Top.win]
  BY <1>1, GotoStack
<1>3. \A d \in Depths : d # Len(stack) => stack[d].at # "config"
  BY DEF Inductive, Loops, OuterWait, Waiting
<1>4. \A d \in Depths : stack'[d].at # "config" /\ stack'[d].kind = stack[d].kind
  BY <1>2, <1>3 DEF Waiting, Top
<1>5. \A d \in Depths : stack[d].at # "config"
  BY <1>2, <1>3 DEF Top
<1>6. DOMAIN stack = Depths /\ DOMAIN stack' = Depths
  BY <1>2, LoopDomain DEF Inductive, Loops, Shape, Depths
<1>7. NoConfig'
  BY <1>2, <1>4 DEF NoConfig
<1>8. Begun' => Begun
  BY <1>2, <1>4, <1>5 DEF Begun
<1>9. InLoop("ana")' => InLoop("ana")
  BY <1>4, <1>6 DEF InLoop
<1>. QED BY <1>7, <1>8, <1>9

LEMMA PopOwn ==
    ASSUME Inductive, Inductive', stack # <<>>, HandlesEvents, Pop
    PROVE  NoConfig' /\ (Begun' => Begun) /\ (InLoop("ana")' => InLoop("ana"))
<1>1. Depths = Depths' \cup {Len(stack)} /\ \A d \in Depths' : stack'[d] = stack[d]
  BY PopStack DEF Inductive, Loops, Shape
<1>2. \A d \in Depths : stack[d].at # "config"
  BY AllWait DEF Inductive, Loops, Waiting
<1>3. DOMAIN stack = Depths /\ DOMAIN stack' = Depths'
  BY DEF Inductive, Loops, Shape, Depths
<1>. QED BY <1>1, <1>2, <1>3 DEF NoConfig, Begun, InLoop

LEMMA PushOwn ==
    ASSUME Inductive, Inductive', HandlesEvents, NEW at \in {"body"} \cup Waiting, Push("acq", at)
    PROVE  NoConfig' /\ (Begun' => Begun) /\ (InLoop("ana")' => InLoop("ana"))
<1>1. /\ Depths' = Depths \cup {Len(stack')}
      /\ \A d \in Depths : stack'[d] = stack[d]
      /\ stack'[Len(stack')] = [kind |-> "acq", at |-> at, i |-> 0, win |-> analyses']
  BY PushStack DEF Inductive, Loops, Shape
<1>2. \A d \in Depths : stack[d].at # "config"
  BY AllWait DEF Inductive, Loops, Waiting
<1>3. DOMAIN stack = Depths /\ DOMAIN stack' = Depths'
  BY DEF Inductive, Loops, Shape, Depths
<1>4. NoConfig'
  BY <1>1, <1>2 DEF NoConfig, Waiting
<1>5. Begun' => Begun
  BY <1>1, <1>2 DEF Begun
<1>6. InLoop("ana")' => InLoop("ana")
  <2>1. \A d \in Depths' : stack'[d].kind = "ana" => d \in Depths /\ stack[d].kind = "ana"
    BY <1>1
  <2>. QED BY <1>3, <2>1 DEF InLoop
<1>. QED BY <1>4, <1>5, <1>6

(* While the client handles an event, the loops stay as they are.          *)
LEMMA WaitOwn ==
    ASSUME Inductive, HandlesEvents, UNCHANGED stack
    PROVE  NoConfig' /\ (Begun' => Begun) /\ (InLoop("ana")' => InLoop("ana"))
<1>1. \A d \in Depths : stack[d].at # "config"
  BY AllWait DEF Inductive, Loops, Waiting
<1>. QED BY <1>1 DEF NoConfig, Begun, InLoop, Depths

(* Every step that neither opens an analysis nor configures the server.    *)
LEMMA OwnStep ==
    ASSUME Own, First' => First, analyses' = analyses,
           NoConfig' /\ (Begun' => Begun) /\ (InLoop("ana")' => InLoop("ana")),
           First' /\ Begun => sel' = sel,
           First' /\ First /\ Alive => Alive' /\ OwnFrames' /\ OwnObjects',
           First' /\ OwnObjects => \A o \in Objects : obj'[o].pkg = obj[o].pkg,
           First' /\ analyses = 0 /\ ~InLoop("ana") => msg' = msg,
           config_count' \in {config_count, 0},
           \A i \in DOMAIN sel : i - 1 \in Objects
    PROVE  Own'
<1>. SUFFICES ASSUME First' PROVE Alive' /\ OwnFrames' /\ OwnObjects' /\ Untouched' /\ Configured'
  BY DEF Own
<1>1. First /\ Alive /\ OwnObjects /\ Untouched /\ Configured
  BY DEF Own
<1>2. Untouched'
  BY <1>1 DEF Untouched
<1>3. Configured'
  BY <1>1 DEF Configured
<1>. QED BY <1>1, <1>2, <1>3

LEMMA BegunLoops == Inductive /\ Begun => InLoop("ana")
BY LoopDomain DEF Begun, InLoop

(* CONFIG: the objects from 0 on are those of the selection. *)
LEMMA ConfigOwn ==
    ASSUME Fits, Chosen, Inductive, Inductive', Own, SetupConfig PROVE Own'
<1>. SUFFICES ASSUME First' PROVE Alive' /\ OwnFrames' /\ OwnObjects' /\ Untouched' /\ Configured'
  BY DEF Own
<1>1. /\ At("ana", "config") /\ Request(ServeConfig) /\ Goto("start", 0)
      /\ UNCHANGED <<sel, msg, view, analyses, upset>>
  BY DEF SetupConfig, data, history
<1>2. First /\ Alive /\ OwnFrames /\ OwnObjects /\ Untouched /\ Configured
  BY <1>1 DEF Own, First, Request, server
<1>3. stack # <<>> /\ Len(stack) \in Depths /\ Top = stack[Len(stack)] /\ Top \in Entry
      /\ Top.kind = "ana" /\ Top.at = "config"
  BY <1>1, TopIs DEF Inductive, Loops
<1>4. msg = [pkgs |-> sel, store |-> 0] /\ config_count = 0 /\ ServeConfig
  BY <1>1, <1>2, <1>3 DEF Configured, NoConfig, Request, First
<1>5. /\ Len(sel) \in Nat /\ Len(sel) <= MaxPkg /\ DOMAIN sel = 1 .. Len(sel)
      /\ \A i \in DOMAIN sel : i \in 1 .. MaxPkg /\ i - 1 \in Objects
      /\ MaxPkg \in Nat
  BY ChosenFits, AnalysisAssumption
<1>6. /\ \A o \in Objects : obj'[o] =
            IF o \in 0 .. Len(sel) - 1
            THEN [pkg |-> sel[o + 1], rdy |-> obj[o].rdy, frame |-> "zero"] ELSE obj[o]
      /\ DOMAIN obj' = Objects
      /\ up' = TRUE /\ UNCHANGED <<writeGlobal, globalfile>>
  <2>1. msg.pkgs = sel /\ msg.store = 0 /\ config_count = 0
    BY <1>4
  <2>2. /\ up' \in {TRUE} /\ UNCHANGED <<writeGlobal, globalfile>>
    <3>1. ~(Len(msg.pkgs) > MaxPkg) /\ ~(msg.store = 1)
      BY <1>5, <2>1
    <3>. QED BY <1>4, <3>1 DEF ServeConfig
  <2>3. obj' = [o \in Objects |->
                 IF o \in 0 .. 0 + Len(sel) - 1
                 THEN [obj[o] EXCEPT !.pkg = Detail(o - 0 + 1), !.frame = "zero"]
                 ELSE obj[o]]
    BY <1>4, <2>1 DEF ServeConfig
  <2>4. \A o \in Objects : o \in Nat /\ o - 0 + 1 = o + 1
    BY AnalysisAssumption DEF Objects
  <2>5. 0 + Len(sel) - 1 = Len(sel) - 1
    BY <1>5
  <2>6. ASSUME NEW o \in Objects, o \in 0 .. Len(sel) - 1
        PROVE  [obj[o] EXCEPT !.pkg = Detail(o + 1), !.frame = "zero"]
                 = [pkg |-> sel[o + 1], rdy |-> obj[o].rdy, frame |-> "zero"]
    <3>1. o + 1 \in DOMAIN sel /\ sel[o + 1] \in Named
      BY <1>5, <2>4, <2>6 DEF Chosen, Named
    <3>2. Detail(o + 1) = sel[o + 1]
      BY <1>5, <2>1, <2>4, <3>1 DEF Detail
    <3>3. obj[o] \in Object
      BY <1>2 DEF OwnObjects
    <3>. QED BY <3>1, <3>2, <3>3, Registered
  <2>. QED BY <2>2, <2>3, <2>4, <2>5, <2>6
<1>7. Alive' /\ OwnFrames'
  BY <1>1, <1>2, <1>6 DEF Alive, OwnFrames
<1>8. OwnObjects'
  <2>1. \A o \in Objects : o \in 0 .. Len(sel) - 1 => o + 1 \in DOMAIN sel /\ sel[o + 1] \in Named
    BY <1>5, AnalysisAssumption DEF Objects, Chosen, Named
  <2>2. \A o \in Objects : obj'[o] \in Object /\ obj'[o].frame \in {"zero", obj'[o].pkg}
    BY <1>2, <1>6, <2>1 DEF OwnObjects, Object
  <2>3. obj' = [o \in Objects |-> obj'[o]]
    BY <1>1, <1>4 DEF ServeConfig
  <2>. QED BY <2>2, <2>3 DEF OwnObjects
<1>9. ~(analyses' = 0)
  <2>1. InLoop("ana")
    BY <1>3, LoopDomain DEF InLoop
  <2>. QED BY <1>1, <1>2, <2>1 DEF Untouched
<1>10. Configured'
  <2>1. NoConfig'
    <3>1. stack \in Seq(Entry)
      BY DEF Inductive, Loops, Shape
    <3>2. /\ Depths' = Depths
          /\ \A d \in Depths : d # Len(stack) => stack'[d] = stack[d]
          /\ stack'[Len(stack)] = [kind |-> Top.kind, at |-> "start", i |-> 0, win |-> Top.win]
      BY <1>1, <1>3, <3>1, GotoStack
    <3>3. \A d \in Depths : d # Len(stack) => stack[d].at # "config"
      BY DEF Inductive, Loops, OuterWait, Waiting
    <3>. QED BY <3>2, <3>3 DEF NoConfig
  <2>2. \A i \in DOMAIN sel : obj'[i - 1].pkg = sel[i]
    <3>. SUFFICES ASSUME NEW i \in DOMAIN sel PROVE obj'[i - 1].pkg = sel[i]
      OBVIOUS
    <3>1. i \in Nat /\ i - 1 \in Objects /\ i - 1 \in 0 .. Len(sel) - 1 /\ i <= MaxPkg
          /\ (i - 1) + 1 = i
      BY <1>5
    <3>2. obj'[i - 1] = [pkg |-> sel[i], rdy |-> obj[i - 1].rdy, frame |-> "zero"]
      BY <1>6, <3>1
    <3>. QED BY <3>2
  <2>. QED BY <1>1, <2>1, <2>2 DEF Configured
<1>. QED BY <1>7, <1>8, <1>9, <1>10 DEF Untouched

LEMMA OkayOwn ==
    ASSUME Chosen, Inductive, Inductive', Own, Okay PROVE Own'
<1>. SUFFICES ASSUME First' PROVE Alive' /\ OwnFrames' /\ OwnObjects' /\ Untouched' /\ Configured'
  BY DEF Own
<1>1. /\ HandlesEvents /\ analyses' = analyses + 1 /\ addconfig(sel)
      /\ view' = Nothing /\ Push("ana", "config")
      /\ UNCHANGED <<sel, server, upset>>
  BY DEF Okay
<1>2. analyses \in Nat /\ analyses = 0 /\ First
  BY <1>1 DEF First, Inductive, Loops, Shape, server
<1>3. Alive /\ OwnObjects /\ Untouched
  BY <1>2 DEF Own
<1>4. msg = [pkgs |-> <<>>, store |-> 0] /\ config_count = 0 /\ ~InLoop("ana")
  BY <1>2, <1>3 DEF Untouched
<1>5. Alive' /\ OwnFrames' /\ OwnObjects'
  BY <1>1, <1>3 DEF Alive, OwnFrames, OwnObjects, Nothing, server
<1>6. ~Begun'
  <2>1. /\ Depths' = Depths \cup {Len(stack')}
        /\ \A d \in Depths : stack'[d] = stack[d]
        /\ stack'[Len(stack')] = [kind |-> "ana", at |-> "config", i |-> 0, win |-> analyses']
    BY <1>1, <1>2, PushStack DEF Inductive, Loops, Shape
  <2>2. \A d \in Depths : stack[d].kind # "ana"
    BY <1>4, LoopDomain DEF InLoop
  <2>. QED BY <2>1, <2>2 DEF Begun
<1>7. msg' = [pkgs |-> sel, store |-> 0]
  <2>1. <<>> \o sel = sel
    BY DEF Chosen
  <2>. QED BY <1>1, <1>4, <2>1 DEF addconfig
<1>8. Untouched' /\ Configured'
  BY <1>1, <1>2, <1>4, <1>6, <1>7 DEF Untouched, Configured, server
<1>. QED BY <1>5, <1>8

(* A poll shows the frame of the package it is made for. *)
LEMMA RealOwn ==
    ASSUME Fits, Chosen, Inductive, Inductive', Own, SetupReal PROVE Own'
<1>1. /\ At("ana", "body")
      /\ UNCHANGED <<sel, analyses, upset, server>>
      /\ \/ Top.i < Len(sel) /\ Poll(Top.i)
         \/ UNCHANGED view
      /\ Goto("body", Top.i + 1) \/ Goto("events", 0)
  BY DEF SetupReal, AfterPoll, history
<1>2. stack # <<>> /\ Len(stack) \in Depths /\ Top = stack[Len(stack)] /\ Top \in Entry
      /\ Top.kind = "ana" /\ Top.at = "body"
  BY <1>1, TopIs DEF Inductive, Loops
<1>3. Begun /\ InLoop("ana")
  BY <1>2, LoopDomain DEF Begun, InLoop
<1>4. Top.i \in Nat
  BY <1>2 DEF Entry
<1>5. NoConfig' /\ (Begun' => Begun) /\ (InLoop("ana")' => InLoop("ana"))
  BY <1>1, <1>2, <1>4, GotoOwn DEF Waiting
<1>6. \A i \in DOMAIN sel : i - 1 \in Objects
  BY ChosenFits
<1>7. ASSUME First, OwnFrames PROVE OwnFrames'
  <2>1. CASE UNCHANGED view
    BY <1>7, <2>1 DEF OwnFrames
  <2>2. CASE Top.i < Len(sel) /\ Poll(Top.i)
    <3>1. up /\ OwnObjects /\ Configured
      BY <1>7 DEF Own, First
    <3>2. Top.i + 1 \in DOMAIN sel /\ (Top.i + 1) - 1 = Top.i
      BY <1>4, <2>2, ChosenFits
    <3>3. Top.i \in Objects /\ obj[Top.i].pkg = sel[Top.i + 1]
      BY <1>3, <1>6, <3>1, <3>2 DEF Configured
    <3>4. realtimeData' = RealReply(Top.i)
      BY <2>2, <3>1 DEF Poll
    <3>5. realtimeData'.status = 1 =>
             realtimeData'.frame \in {"zero", sel[Top.i + 1]}
      BY <3>1, <3>3, <3>4 DEF RealReply, OwnObjects
    <3>6. \/ view' = view
          \/ /\ view' = [pkg |-> sel[Top.i + 1], frame |-> realtimeData'.frame]
             /\ realtimeData'.status = 1
      BY <2>2 DEF Poll
    <3>. QED BY <1>7, <3>5, <3>6 DEF OwnFrames
  <2>. QED BY <1>1, <2>1, <2>2
<1>8. Own => (First => OwnFrames /\ OwnObjects /\ Alive)
  BY DEF Own
<1>9. (First' => First) /\ config_count' = config_count
  BY <1>1 DEF First, server
<1>10. First /\ Alive => Alive' /\ OwnFrames' /\ OwnObjects'
  BY <1>1, <1>7, <1>8 DEF Alive, OwnObjects, server
<1>11. \A o \in Objects : obj'[o].pkg = obj[o].pkg
  BY <1>1 DEF server
<1>. QED BY <1>1, <1>3, <1>5, <1>6, <1>9, <1>10, <1>11, OwnStep

LEMMA StopOwn ==
    ASSUME Request(ServeStop)
    PROVE  /\ UNCHANGED <<up, obj, globalfile>>
           /\ config_count' \in {config_count, 0} /\ writeGlobal' \in {writeGlobal, 0}
BY DEF Request, ServeStop, server

LEMMA StartWoOwn ==
    ASSUME NEW needed, \/ Request(ServeStartWo(needed))
                       \/ ServeStartWo(needed)
                       \/ UNCHANGED server
    PROVE  /\ UNCHANGED <<up, obj, config_count>>
           /\ \/ UNCHANGED <<writeGlobal, globalfile>>
              \/ writeGlobal' = 1 /\ globalfile' \in {"open", "refused"}
              \/ writeGlobal' = 0
BY DEF Request, ServeStartWo, server

(* The user's events but Okay. *)
LEMMA EventOwn ==
    ASSUME Fits, Chosen, Inductive, Inductive', Own, Event, ~Okay PROVE Own'
<1>0. \A i \in DOMAIN sel : i - 1 \in Objects
  BY ChosenFits
<1>1. ASSUME HandlesEvents, UNCHANGED <<stack, data, analyses>>, upset => upset',
             ~upset' => (sel' = sel \/ ~InLoop("ana")),
             UNCHANGED <<up, obj, globalfile>>,
             config_count' \in {config_count, 0}, writeGlobal' \in {writeGlobal, 0}
      PROVE  Own'
  <2>1. NoConfig' /\ (Begun' => Begun) /\ (InLoop("ana")' => InLoop("ana"))
    BY <1>1, WaitOwn
  <2>2. First' => First
    BY <1>1 DEF First
  <2>3. First' /\ Begun => sel' = sel
    BY <1>1, BegunLoops DEF First
  <2>4. First => Alive /\ OwnFrames /\ OwnObjects
    BY DEF Own
  <2>5. First => Alive' /\ OwnFrames' /\ OwnObjects'
    BY <1>1, <2>4 DEF Alive, OwnFrames, OwnObjects, data
  <2>6. msg' = msg
    BY <1>1 DEF data
  <2>. QED BY <1>0, <1>1, <2>1, <2>2, <2>3, <2>5, <2>6, OwnStep
<1>2. CASE RtanaRealized \/ (\E p \in Packages : AddPackage(p)) \/ OpenAcqWindow \/ CloseAcqWindow
  <2>1. /\ HandlesEvents /\ UNCHANGED <<stack, data, analyses, server>> /\ (upset => upset')
        /\ ~upset' => (sel' = sel \/ ~InLoop("ana"))
    <3>1. CASE RtanaRealized
      BY <3>1 DEF RtanaRealized, history
    <3>2. ASSUME NEW p \in Packages, AddPackage(p)
          PROVE  /\ HandlesEvents /\ UNCHANGED <<stack, data, analyses, server>>
                 /\ (upset => upset')
                 /\ ~upset' => (sel' = sel \/ ~InLoop("ana"))
      BY <3>2 DEF AddPackage, history
    <3>3. CASE OpenAcqWindow \/ CloseAcqWindow
      BY <3>3 DEF OpenAcqWindow, CloseAcqWindow, history
    <3>. QED BY <1>2, <3>1, <3>2, <3>3
  <2>. QED BY <1>1, <2>1 DEF server
<1>3. CASE PackanaStop \/ PackanaClose \/ StopDa
  <2>1. /\ HandlesEvents /\ UNCHANGED <<stack, data, analyses, upset, sel>> /\ Request(ServeStop)
    BY <1>3 DEF PackanaStop, PackanaClose, StopDa, history
  <2>. QED BY <1>1, <2>1, StopOwn
<1>4. ASSUME UNCHANGED <<data, analyses, upset, sel, obj, up, config_count>>,
             NoConfig' /\ (Begun' => Begun) /\ (InLoop("ana")' => InLoop("ana")),
             \/ UNCHANGED <<writeGlobal, globalfile>>
             \/ writeGlobal' = 1 /\ globalfile' \in {"open", "refused"}
             \/ writeGlobal' = 0
      PROVE  Own'
  <2>1. First' => First
    BY <1>4 DEF First
  <2>2. First => Alive /\ OwnFrames /\ OwnObjects
    BY DEF Own
  <2>3. First => Alive' /\ OwnFrames' /\ OwnObjects'
    BY <1>4, <2>2 DEF Alive, OwnFrames, OwnObjects, data
  <2>4. msg' = msg
    BY <1>4 DEF data
  <2>. QED BY <1>0, <1>4, <2>1, <2>3, <2>4, OwnStep
<1>5. ASSUME NEW needed \in BOOLEAN, StartDa(needed) PROVE Own'
  <2>1. /\ HandlesEvents /\ UNCHANGED <<data, analyses, upset, sel>>
        /\ ServeStartWo(TRUE) \/ UNCHANGED server
        /\ Push("acq", IF ~up THEN "warning" ELSE IF needed THEN "body" ELSE "notice")
    BY <1>5 DEF StartDa
  <2>2. NoConfig' /\ (Begun' => Begun) /\ (InLoop("ana")' => InLoop("ana"))
    <3>. DEFINE at == IF ~up THEN "warning" ELSE IF needed THEN "body" ELSE "notice"
    <3>1. at \in {"body"} \cup Waiting /\ Push("acq", at)
      BY <2>1 DEF Waiting
    <3>. HIDE DEF at
    <3>. QED BY <2>1, <3>1, PushOwn
  <2>. QED BY <1>4, <2>1, <2>2, StartWoOwn
<1>6. CASE Dismiss
  <2>1. UNCHANGED <<data, analyses, upset, sel>>
    BY <1>6 DEF Dismiss, history
  <2>2. CASE At("acq", "warning") /\ Pop /\ UNCHANGED server
    <3>1. stack # <<>> /\ HandlesEvents
      BY <2>2, TopIs DEF Inductive, Loops, HandlesEvents
    <3>. QED BY <1>4, <2>1, <2>2, <3>1, PopOwn, StartWoOwn
  <2>3. CASE At("acq", "notice") /\ Request(ServeStartWo(FALSE)) /\ Goto("body", 0)
    <3>1. stack # <<>> /\ Top.at = "notice"
      BY <2>3, TopIs DEF Inductive, Loops
    <3>2. NoConfig' /\ (Begun' => Begun) /\ (InLoop("ana")' => InLoop("ana"))
      BY <2>3, <3>1, GotoOwn
    <3>. QED BY <1>4, <2>1, <2>3, <3>2, StartWoOwn
  <2>. QED BY <1>6, <2>2, <2>3 DEF Dismiss
<1>. QED BY <1>2, <1>3, <1>5, <1>6 DEF Event

(* The other steps of the loops, and the server by itself. *)
LEMMA LoopOwn ==
    ASSUME Fits, Chosen, Inductive, Inductive', Own, SetupStart \/ SetupCurrent \/ LoopOrBreak
    PROVE  Own'
<1>0. \A i \in DOMAIN sel : i - 1 \in Objects
  BY ChosenFits
<1>1. UNCHANGED <<sel, data, analyses, upset>>
  BY DEF SetupStart, SetupCurrent, LoopOrBreak, history
<1>2. NoConfig' /\ (Begun' => Begun) /\ (InLoop("ana")' => InLoop("ana"))
  <2>1. CASE SetupStart
    <3>1. stack # <<>> /\ Top.at = "start" /\ Goto("body", 0)
      BY <2>1, TopIs DEF SetupStart, Inductive, Loops
    <3>. QED BY <3>1, GotoOwn
  <2>2. CASE SetupCurrent
    <3>1. stack # <<>> /\ Top.at = "body" /\ Goto("events", 0)
      BY <2>2, TopIs DEF SetupCurrent, Inductive, Loops
    <3>. QED BY <3>1, GotoOwn DEF Waiting
  <2>3. CASE LoopOrBreak
    <3>1. stack # <<>> /\ Top.at = "events" /\ (Goto("body", 0) \/ Pop)
      BY <2>3 DEF LoopOrBreak
    <3>2. HandlesEvents
      BY <3>1 DEF HandlesEvents
    <3>. QED BY <3>1, <3>2, GotoOwn, PopOwn
  <2>. QED BY <2>1, <2>2, <2>3
<1>3. UNCHANGED <<obj, config_count, writeGlobal, globalfile>> /\ (up' => up)
  BY DEF SetupStart, SetupCurrent, LoopOrBreak, Request, ServeStart, ServeCurr, server
<1>4. UNCHANGED <<obj, config_count>>
  BY DEF SetupStart, SetupCurrent, LoopOrBreak, Request, ServeStart, ServeCurr, server
<1>5. First' => First
  BY <1>1, <1>3 DEF First
<1>6. First => Alive /\ OwnFrames /\ OwnObjects
  BY DEF Own
<1>7. First => Alive' /\ OwnFrames' /\ OwnObjects'
  BY <1>1, <1>3, <1>6 DEF Alive, OwnFrames, OwnObjects, data
<1>8. msg' = msg
  BY <1>1 DEF data
<1>. QED BY <1>0, <1>1, <1>2, <1>4, <1>5, <1>7, <1>8, OwnStep

LEMMA ServerOwn ==
    ASSUME Fits, Chosen, Own, ServerStep \/ UNCHANGED vars PROVE Own'
<1>1. CASE UNCHANGED vars
  BY <1>1 DEF vars, client, server, data, history, Own, First, Alive, OwnFrames, OwnObjects,
              Untouched, Configured, NoConfig, Begun, InLoop, Depths
<1>2. CASE Kill \/ Restart
  BY <1>2 DEF Kill, Restart, Own, First
<1>3. CASE StoreMessage
  BY <1>3 DEF StoreMessage, Own, First, Alive, client, history
<1>4. ASSUME NEW o \in Objects, Post(o) PROVE Own'
  <2>1. /\ UNCHANGED <<up, config_count, writeGlobal, globalfile, sel, stack, view, msg,
                       analyses, upset>>
        /\ obj' = [obj EXCEPT ![o].rdy = 1, ![o].frame = obj[o].pkg]
    BY <1>4 DEF Post, client, data, history
  <2>. SUFFICES ASSUME First
                PROVE  Alive' /\ OwnFrames' /\ OwnObjects' /\ Untouched' /\ Configured'
    BY <2>1 DEF Own, First
  <2>2. Alive /\ OwnFrames /\ OwnObjects /\ Untouched /\ Configured
    BY DEF Own
  <2>3. /\ DOMAIN obj' = Objects
        /\ \A p \in Objects : p # o => obj'[p] = obj[p]
        /\ obj'[o] = [pkg |-> obj[o].pkg, rdy |-> 1, frame |-> obj[o].pkg]
    <3>1. obj[o] \in Object
      BY <2>2 DEF OwnObjects
    <3>2. [obj[o] EXCEPT !.rdy = 1, !.frame = obj[o].pkg]
            = [pkg |-> obj[o].pkg, rdy |-> 1, frame |-> obj[o].pkg]
      BY <3>1, Posted
    <3>3. obj' = [obj EXCEPT ![o] = [obj[o] EXCEPT !.rdy = 1, !.frame = obj[o].pkg]]
      BY <2>1, <2>2 DEF OwnObjects
    <3>4. DOMAIN obj = Objects
      BY <2>2 DEF OwnObjects
    <3>. QED BY <3>2, <3>3, <3>4
  <2>4. OwnObjects'
    <3>1. obj[o].pkg \in Named
      BY <2>2 DEF OwnObjects, Object
    <3>2. obj' = [p \in Objects |-> obj'[p]]
      BY <2>1, <2>2 DEF OwnObjects
    <3>. QED BY <2>2, <2>3, <3>1, <3>2 DEF OwnObjects, Object
  <2>5. \A p \in Objects : obj'[p].pkg = obj[p].pkg
    BY <2>3
  <2>6. Configured'
    <3>1. ASSUME Begun, NEW i \in DOMAIN sel PROVE obj'[i - 1].pkg = sel[i]
      BY <2>2, <2>5, <3>1, ChosenFits DEF Configured
    <3>. QED BY <2>1, <2>2, <3>1 DEF Configured, NoConfig, Begun, Depths
  <2>. QED BY <2>1, <2>2, <2>4, <2>6 DEF Alive, OwnFrames, Untouched, InLoop
<1>. QED BY <1>1, <1>2, <1>3, <1>4 DEF ServerStep

LEMMA InitOwn == Init => Chosen /\ Own
<1>. SUFFICES ASSUME Init PROVE Chosen /\ Own
  OBVIOUS
<1>1. Chosen
  BY DEF Init, Chosen
<1>2. Alive /\ OwnFrames /\ OwnObjects /\ Untouched
  BY DEF Init, Alive, OwnFrames, OwnObjects, Object, Named, Untouched, Nothing, InLoop, Unset
<1>3. Configured
  BY DEF Init, Configured, NoConfig, Begun, Depths
<1>. QED BY <1>1, <1>2, <1>3 DEF Own

LEMMA NextOwn ==
    ASSUME Fits, Chosen, Inductive, Inductive', Own, [Next]_vars PROVE Own'
BY ConfigOwn, OkayOwn, RealOwn, EventOwn, LoopOwn, ServerOwn DEF Next, LoopStep

(* In the first analysis of a client the window shows as a package's data  *)
(* that package's frames, whatever the acquisition window does meanwhile,  *)
(* as long as the server it was configured in runs.                        *)
THEOREM FirstShowsItsOwn == Fits => (Spec => []FirstAnalysisOwn)
<1>. SUFFICES ASSUME Fits PROVE Spec => []FirstAnalysisOwn
  OBVIOUS
<1>1. Chosen /\ Inductive /\ Inductive' /\ Own /\ [Next]_vars => Own'
  BY NextOwn
<1>2. Own => FirstAnalysisOwn
  BY DEF Own, First, FirstAnalysisOwn
<1>3. Spec => []Chosen
  BY InitOwn, ChosenInvariant, PTL DEF Spec
<1>. QED BY <1>1, <1>2, <1>3, InitOwn, Invariance, PTL DEF Spec

(* A bus file that was refused is all that may have ended the server.      *)
EndedByFile == analyses <= 1 /\ ~upset => up \/ globalfile = "refused"

LEMMA OneAnalysis ==
    ASSUME Inductive, [Next]_vars, analyses' <= 1 /\ ~upset'
    PROVE  analyses <= 1 /\ ~upset
<1>1. analyses \in Nat
  BY DEF Inductive, Loops, Shape
<1>2. CASE LoopStep
  BY <1>2 DEF LoopStep, SetupConfig, SetupStart, SetupReal, SetupCurrent, LoopOrBreak, history
<1>3. CASE Okay
  BY <1>1, <1>3 DEF Okay
<1>4. CASE RtanaRealized \/ \E p \in Packages : AddPackage(p)
  BY <1>4 DEF RtanaRealized, AddPackage, history
<1>5. CASE \/ PackanaStop \/ PackanaClose \/ OpenAcqWindow \/ CloseAcqWindow
           \/ (\E needed \in BOOLEAN : StartDa(needed)) \/ Dismiss \/ StopDa
  <2>1. UNCHANGED <<analyses, upset>>
    BY <1>5 DEF PackanaStop, PackanaClose, OpenAcqWindow, CloseAcqWindow, StartDa, Dismiss,
           StopDa, history
  <2>. QED BY <2>1
<1>6. CASE ServerStep
  <2>1. analyses' = analyses /\ (upset' = upset \/ upset' = TRUE)
    BY <1>6 DEF ServerStep, Post, StoreMessage, Kill, Restart, client, history
  <2>. QED BY <2>1
<1>7. CASE UNCHANGED vars
  BY <1>7 DEF vars, client, history
<1>. QED BY <1>2, <1>3, <1>4, <1>5, <1>6, <1>7 DEF Next, Event

(* A server that answers a request or stores a message without such a file *)
(* is still up; one that is down is asked nothing.                         *)
LEMMA ServedOrEnded ==
    ASSUME Fits, Chosen, Inductive, Own, EndedByFile, [Next]_vars, analyses' <= 1 /\ ~upset'
    PROVE  up' \/ globalfile' = "refused"
<1>1. analyses <= 1 /\ ~upset
  BY OneAnalysis
<1>2. up => ~(writeGlobal = 1 /\ globalfile = "NULL")
  BY <1>1 DEF Own, First, Alive
<1>3. ~up => globalfile = "refused"
  BY <1>1 DEF EndedByFile
<1>4. CASE SetupConfig
  <2>1. CASE up
    <3>1. stack # <<>> /\ Len(stack) \in Depths /\ Top = stack[Len(stack)]
          /\ Top.at = "config"
      BY <1>4, TopIs DEF SetupConfig, Inductive, Loops
    <3>2. msg = [pkgs |-> sel, store |-> 0]
      BY <1>1, <2>1, <3>1 DEF Own, First, Configured, NoConfig
    <3>3. Len(sel) \in Nat /\ Len(sel) <= MaxPkg /\ MaxPkg \in Nat
      BY ChosenFits, AnalysisAssumption
    <3>4. ~(Len(msg.pkgs) > MaxPkg)
      BY <3>2, <3>3
    <3>. QED BY <1>4, <2>1, <3>4 DEF SetupConfig, Request, ServeConfig
  <2>2. CASE ~up
    BY <1>3, <1>4, <2>2 DEF SetupConfig, Request, server
  <2>. QED BY <2>1, <2>2
<1>5. CASE SetupCurrent
  BY <1>2, <1>3, <1>5 DEF SetupCurrent, Request, ServeCurr, NoBusFile, server
<1>6. CASE StoreMessage
  BY <1>2, <1>6 DEF StoreMessage, NoBusFile
<1>7. CASE SetupStart \/ SetupReal \/ LoopOrBreak
  BY <1>3, <1>7 DEF SetupStart, SetupReal, LoopOrBreak, Request, ServeStart, server
<1>8. CASE Event
  <2>1. up' = up /\ (~up => globalfile' = globalfile)
    BY <1>8 DEF Event, RtanaRealized, AddPackage, Okay, PackanaStop, PackanaClose, OpenAcqWindow,
           CloseAcqWindow, StartDa, Dismiss, StopDa, Request, ServeStop, ServeStartWo, server
  <2>. QED BY <1>3, <2>1
<1>9. CASE Kill \/ Restart
  BY <1>9 DEF Kill, Restart
<1>10. CASE \E o \in Objects : Post(o)
  BY <1>10 DEF Post
<1>11. CASE UNCHANGED vars
  BY <1>3, <1>11 DEF vars, server
<1>. QED BY <1>4, <1>5, <1>6, <1>7, <1>8, <1>9, <1>10, <1>11 DEF Next, LoopStep, ServerStep

(* Nothing a client asks during its first analysis ends the server, but an *)
(* acquisition into a file that cannot be opened.                          *)
THEOREM FirstEndsByFileOnly == Fits => (Spec => []EndedByFile)
<1>. SUFFICES ASSUME Fits PROVE Spec => []EndedByFile
  OBVIOUS
<1>1. Chosen /\ Inductive /\ Inductive' /\ Own /\ [Next]_vars => Own'
  BY NextOwn
<1>2. Init => EndedByFile
  BY DEF Init, EndedByFile
<1>3. Chosen /\ Inductive /\ Own /\ EndedByFile /\ [Next]_vars => EndedByFile'
  BY ServedOrEnded DEF EndedByFile
<1>4. Spec => []Chosen
  BY InitOwn, ChosenInvariant, PTL DEF Spec
<1>. QED BY <1>1, <1>2, <1>3, <1>4, InitOwn, Invariance, PTL DEF Spec

-----------------------------------------------------------------------------
(* A request over a connection.                                            *)
Chars == STRING \cup {Svr!Nul}
Messages == [type : {"none", "START_WO", "STOP", "CURR"}, name : [1 .. NameSize -> Chars],
             needed : BOOLEAN]
SvrTyped ==
    /\ svrServer \in Nat /\ svrServer # 0 /\ answered \in Nat /\ answered <= svrServer
    /\ svrUp \in BOOLEAN /\ svrOn \in BOOLEAN /\ calm \in BOOLEAN /\ wasOn \in BOOLEAN
    /\ svrAt \in {"idle", "send", "connect", "second", "return"}
    /\ svrMsg \in Messages

Sent == svrAt \in {"send", "connect", "second"}
(* While one server runs nobody else changes what it does, so the second   *)
(* try at the latest reaches it.                                           *)
OneServer ==
    /\ calm => svrUp
    /\ Sent => answered = 0 /\ (calm => svrOn = wasOn)
    /\ svrAt = "second" /\ calm => coid = svrServer
    /\ svrAt = "return" /\ calm =>
          /\ answered = svrServer
          /\ svrMsg.type = "START_WO" =>
                reply = [type |-> "START_REPLY", status |-> IF wasOn THEN 0 ELSE 1]
          /\ svrMsg.type = "STOP" =>
                reply = [type |-> "STOP_REPLY", status |-> IF wasOn THEN 1 ELSE 0]

(* The name in the union is the one typed last, and behind it what longer  *)
(* names before it left.                                                   *)
NameKept ==
    /\ longest \in Nat /\ longest < NameSize
    /\ \A k \in 1 .. NameSize : svrMsg.name[k] = Svr!Nul <=> k > longest
    /\ typed \in Seq(Chars) /\ Len(typed) <= longest
    /\ \A k \in 1 .. Len(typed) : svrMsg.name[k] = typed[k]
    /\ svrMsg.needed <=> typed # <<>>

NameOpened ==
    svrAt = "return" /\ svrUp /\ answered = svrServer /\ svrMsg.type = "START_WO"
        /\ reply = [type |-> "START_REPLY", status |-> 1] /\ typed # <<>>
    => svrFileName = Svr!CString(svrMsg.name)
SvrInv == SvrTyped /\ OneServer /\ NameKept /\ NameOpened

(* The callbacks up to the call of ToSvr.                                  *)
LEMMA StartKeeps == ASSUME SvrInv, NEW n \in FileNames \cup {<<>>}, Svr!StartDa(n) PROVE SvrInv'
<1>. USE DEF SvrInv
<1>1. CASE ~svrUp
  BY <1>1 DEF Svr!StartDa, Svr!history, SvrTyped, OneServer, Sent, NameKept, NameOpened
<1>2. CASE svrUp
  <2>. DEFINE old == svrMsg.name
              new == [k \in 1 .. NameSize |-> IF k <= Len(n) THEN n[k] ELSE old[k]]
  <2>1. /\ svrAt = "idle" /\ svrAt' = "send" /\ answered' = 0 /\ calm' = svrUp /\ wasOn' = svrOn
        /\ svrMsg' = [svrMsg EXCEPT !.type = "START_WO", !.needed = n # <<>>, !.name = new]
        /\ typed' = n /\ longest' = Svr!Max({longest, Len(n)})
        /\ UNCHANGED <<svrUp, svrServer, svrOn>>
    BY <1>2 DEF Svr!StartDa, Svr!Begin, Svr!SetStart, Svr!Name
  <2>2. n \in Seq(Chars) /\ Len(n) < NameSize /\ \A k \in 1 .. Len(n) : n[k] # Svr!Nul
    <3>1. CASE n = <<>>
      BY <3>1, ClientAssumption
    <3>2. CASE n \in FileNames
      <4>1. n \in Seq(STRING) /\ Len(n) < NameSize /\ \A k \in DOMAIN n : n[k] # Svr!Nul
        BY <3>2, ClientAssumption
      <4>2. n \in Seq(Chars)
        BY <4>1 DEF Chars
      <4>. QED BY <4>1, <4>2
    <3>. QED BY <3>1, <3>2
  <2>3. NameSize \in Nat /\ Len(n) \in Nat /\ longest \in Nat /\ longest < NameSize
        /\ old \in [1 .. NameSize -> Chars]
    BY <2>2, ClientAssumption DEF NameKept, SvrTyped, Messages
  <2>4. longest' \in Nat /\ longest' < NameSize /\ longest' >= longest /\ longest' >= Len(n)
        /\ (longest' = longest \/ longest' = Len(n))
    <3>. DEFINE m == IF longest >= Len(n) THEN longest ELSE Len(n)
    <3>1. m \in {longest, Len(n)} /\ \A k \in {longest, Len(n)} : m >= k
      BY <2>3
    <3>2. longest' \in {longest, Len(n)} /\ \A k \in {longest, Len(n)} : longest' >= k
      <4>. HIDE DEF m
      <4>. QED BY <2>1, <3>1 DEF Svr!Max
    <3>. QED BY <2>2, <2>3, <3>2
  <2>5. new \in [1 .. NameSize -> Chars] /\ \A k \in 1 .. Len(n) : new[k] = n[k]
    BY <2>2, <2>3
  <2>6. \A k \in 1 .. NameSize : new[k] = Svr!Nul <=> k > longest'
    <3>1. \A k \in 1 .. NameSize : old[k] = Svr!Nul <=> k > longest
      BY DEF NameKept
    <3>2. ASSUME NEW k \in 1 .. NameSize PROVE new[k] = Svr!Nul <=> k > longest'
      <4>1. CASE k <= Len(n)
        BY <2>2, <2>3, <2>4, <2>5, <4>1
      <4>2. CASE k > Len(n)
        BY <2>2, <2>3, <2>4, <3>1, <4>2
      <4>. QED BY <2>3, <4>1, <4>2
    <3>. QED BY <3>2
  <2>. HIDE DEF new, old
  <2>7. /\ svrMsg'.name = new /\ (svrMsg'.needed <=> n # <<>>) /\ svrMsg'.type = "START_WO"
        /\ svrMsg' \in Messages
    <3>1. svrMsg \in Messages
      BY DEF SvrTyped
    <3>. QED BY <2>1, <2>5, <3>1 DEF Messages
  <2>8. SvrTyped'
    BY <1>2, <2>1, <2>7 DEF SvrTyped
  <2>9. OneServer'
    BY <1>2, <2>1 DEF OneServer, Sent
  <2>10. NameKept'
    BY <2>1, <2>2, <2>4, <2>5, <2>6, <2>7 DEF NameKept
  <2>11. NameOpened'
    BY <2>1 DEF NameOpened
  <2>. QED BY <2>8, <2>9, <2>10, <2>11
<1>. QED BY <1>1, <1>2 DEF SvrTyped

LEMMA AskKeeps ==
    ASSUME SvrInv, NEW type \in {"STOP", "CURR"}, svrAt = "idle", Svr!Begin,
           svrMsg' = [svrMsg EXCEPT !.type = type],
           UNCHANGED <<svrUp, svrServer, svrOn, typed, longest>>
    PROVE  SvrInv'
<1>. USE DEF SvrInv
<1>1. svrAt' = "send" /\ answered' = 0 /\ calm' = svrUp /\ wasOn' = svrOn
  BY DEF Svr!Begin
<1>2. svrMsg'.name = svrMsg.name /\ svrMsg'.needed = svrMsg.needed
      /\ svrMsg' \in Messages
  <2>1. svrMsg \in Messages
    BY DEF SvrTyped
  <2>. QED BY <2>1 DEF Messages
<1>3. SvrTyped'
  BY <1>1, <1>2 DEF SvrTyped
<1>4. OneServer'
  BY <1>1 DEF OneServer, Sent, SvrTyped
<1>5. NameKept'
  BY <1>2 DEF NameKept
<1>6. NameOpened'
  BY <1>1 DEF NameOpened
<1>. QED BY <1>3, <1>4, <1>5, <1>6

LEMMA ReplyKeeps == ASSUME SvrInv, Svr!Reply PROVE SvrInv'
<1>. USE DEF SvrInv
<1>1. /\ svrAt \in {"send", "second"} /\ svrUp /\ coid = svrServer
      /\ svrAt' = "return" /\ answered' = svrServer
      /\ reply' = Svr!Answer /\ Svr!Handle
      /\ UNCHANGED <<svrUp, svrServer, coid, svrMsg, typed, longest, calm, wasOn>>
  BY DEF Svr!Reply, Svr!Sending, Svr!Reaches, Svr!Receive
<1>2. SvrTyped'
  <2>1. svrOn' \in BOOLEAN
    BY <1>1 DEF Svr!Handle, SvrTyped
  <2>. QED BY <1>1, <2>1 DEF SvrTyped
<1>3. OneServer'
  <2>1. calm => svrOn = wasOn
    BY <1>1 DEF OneServer, Sent
  <2>2. /\ svrMsg.type = "START_WO" =>
               reply' = [type |-> "START_REPLY", status |-> IF svrOn THEN 0 ELSE 1]
        /\ svrMsg.type = "STOP" =>
               reply' = [type |-> "STOP_REPLY", status |-> IF svrOn THEN 1 ELSE 0]
    BY <1>1 DEF Svr!Answer
  <2>. QED BY <1>1, <2>1, <2>2 DEF OneServer, Sent
<1>4. NameKept'
  BY <1>1 DEF NameKept
<1>5. NameOpened'
  <2>1. ASSUME svrMsg.type = "START_WO", reply'.status = 1, typed # <<>>
        PROVE  svrFileName' = Svr!CString(svrMsg.name)
    <3>1. reply' = [type |-> "START_REPLY", status |-> IF svrOn THEN 0 ELSE 1]
      BY <1>1, <2>1 DEF Svr!Answer
    <3>2. ~svrOn
      BY <2>1, <3>1
    <3>3. svrMsg.needed
      BY <2>1 DEF NameKept
    <3>. QED BY <1>1, <2>1, <3>2, <3>3 DEF Svr!Handle
  <2>. QED BY <1>1, <2>1 DEF NameOpened
<1>. QED BY <1>2, <1>3, <1>4, <1>5

LEMMA DeathKeeps ==
    ASSUME SvrInv, Svr!Dead, svrAt' = svrAt \/ (Sent /\ svrAt' \in {"connect", "return"}),
           UNCHANGED <<svrServer, svrMsg, typed, longest, answered, wasOn>>
    PROVE  SvrInv'
<1>. USE DEF SvrInv
<1>1. svrUp' = FALSE /\ svrOn' = FALSE /\ calm' = FALSE
  BY DEF Svr!Dead
<1>2. SvrTyped'
  BY <1>1 DEF SvrTyped, Sent
<1>3. OneServer'
  BY <1>1 DEF OneServer, Sent
<1>4. NameKept' /\ NameOpened'
  BY <1>1 DEF NameKept, NameOpened
<1>. QED BY <1>2, <1>3, <1>4

LEMMA SvrSteps == ASSUME SvrInv, Svr!Next PROVE SvrInv'
<1>. USE DEF SvrInv
<1>1. ASSUME Svr!StopDa \/ Svr!SetupCurrent PROVE SvrInv'
  BY <1>1, AskKeeps DEF Svr!StopDa, Svr!SetupCurrent
<1>2. ASSUME Svr!TestConnectivity \/ Svr!Reopen PROVE SvrInv'
  <2>1. svrAt = "idle" /\ UNCHANGED <<svrUp, svrServer, svrOn, svrFileName, svrAt, svrMsg, reply,
                                      typed, longest, answered, calm, wasOn>>
    BY <1>2 DEF Svr!TestConnectivity, Svr!Reopen, Svr!history
  <2>2. SvrTyped'
    BY <2>1 DEF SvrTyped
  <2>3. OneServer'
    BY <2>1 DEF OneServer, Sent
  <2>4. NameKept' /\ NameOpened'
    BY <2>1 DEF NameKept, NameOpened
  <2>. QED BY <2>2, <2>3, <2>4
<1>3. ASSUME Svr!NoServer PROVE SvrInv'
  <2>1. /\ svrAt \in {"send", "second"} /\ ~(svrUp /\ coid = svrServer)
        /\ svrAt' = IF svrAt = "send" THEN "connect" ELSE "return"
        /\ UNCHANGED <<svrUp, svrServer, svrOn, svrFileName, svrMsg, reply,
                       typed, longest, answered, calm, wasOn>>
    BY <1>3 DEF Svr!NoServer, Svr!history, Svr!Sending, Svr!Reaches, Svr!Failed
  <2>2. SvrTyped'
    BY <2>1 DEF SvrTyped
  <2>3. OneServer'
    BY <2>1 DEF OneServer, Sent
  <2>4. NameKept'
    BY <2>1 DEF NameKept
  <2>5. NameOpened'
    BY <2>1 DEF NameOpened, OneServer, Sent, SvrTyped
  <2>. QED BY <2>2, <2>3, <2>4, <2>5
<1>4. ASSUME Svr!DiesBeforeReply \/ Svr!Kill PROVE SvrInv'
  <2>1. CASE Svr!DiesBeforeReply
    <3>1. /\ Svr!Dead /\ Sent /\ svrAt' \in {"connect", "return"}
          /\ UNCHANGED <<svrServer, svrMsg, typed, longest, answered, wasOn>>
      BY <2>1 DEF Svr!DiesBeforeReply, Svr!Failed, Svr!Sending, Sent
    <3>. QED BY <3>1, DeathKeeps
  <2>2. CASE Svr!Kill
    <3>1. /\ Svr!Dead /\ svrAt' = svrAt
          /\ UNCHANGED <<svrServer, svrMsg, typed, longest, answered, wasOn>>
      BY <2>2 DEF Svr!Kill, Svr!client
    <3>. QED BY <3>1, DeathKeeps
  <2>. QED BY <1>4, <2>1, <2>2
<1>5. ASSUME Svr!Reconnect PROVE SvrInv'
  <2>1. /\ svrAt = "connect" /\ svrAt' = "second" /\ coid' = IF svrUp THEN svrServer ELSE 0
        /\ UNCHANGED <<svrUp, svrServer, svrOn, svrFileName, svrMsg, reply,
                       typed, longest, answered, calm, wasOn>>
    BY <1>5 DEF Svr!Reconnect, Svr!history, Svr!Connect
  <2>2. SvrTyped'
    BY <2>1 DEF SvrTyped
  <2>3. OneServer'
    BY <2>1 DEF OneServer, Sent
  <2>4. NameKept' /\ NameOpened'
    BY <2>1 DEF NameKept, NameOpened
  <2>. QED BY <2>2, <2>3, <2>4
<1>6. ASSUME Svr!Return PROVE SvrInv'
  <2>1. /\ svrAt = "return" /\ svrAt' = "idle"
        /\ UNCHANGED <<svrUp, svrServer, svrOn, svrFileName, svrMsg, reply,
                       typed, longest, answered, calm, wasOn>>
    BY <1>6 DEF Svr!Return, Svr!history
  <2>2. SvrTyped'
    BY <2>1 DEF SvrTyped
  <2>3. OneServer'
    BY <2>1 DEF OneServer, Sent
  <2>4. NameKept' /\ NameOpened'
    BY <2>1 DEF NameKept, NameOpened
  <2>. QED BY <2>2, <2>3, <2>4
<1>7. ASSUME Svr!Restart PROVE SvrInv'
  <2>1. /\ ~svrUp /\ svrUp' = TRUE /\ svrServer' = svrServer + 1
        /\ UNCHANGED <<svrOn, svrFileName, coid, svrAt, svrMsg, reply,
                       typed, longest, answered, calm, wasOn>>
    BY <1>7 DEF Svr!Restart, Svr!client, Svr!history
  <2>2. SvrTyped'
    BY <2>1 DEF SvrTyped
  <2>3. OneServer'
    BY <2>1 DEF OneServer, Sent
  <2>4. NameKept'
    BY <2>1 DEF NameKept
  <2>5. NameOpened'
    <3>1. answered # svrServer'
      BY <2>1 DEF SvrTyped
    <3>. QED BY <2>1, <3>1 DEF NameOpened
  <2>. QED BY <2>2, <2>3, <2>4, <2>5
<1>. QED BY <1>1, <1>2, <1>3, <1>4, <1>5, <1>6, <1>7, StartKeeps, ReplyKeeps DEF Svr!Next

(* The name as it is opened ends before the first character of no name.    *)
LEMMA NameIsLongest ==
    ASSUME SvrInv
    PROVE  LET name == Svr!CString(svrMsg.name)
           IN  Svr!IsPrefix(typed, name) /\ Len(name) = longest
<1>. DEFINE f == svrMsg.name
            ends == {k \in 1 .. NameSize : f[k] = Svr!Nul} \cup {NameSize + 1}
            name == SubSeq(f, 1, longest)
<1>1. /\ f \in [1 .. NameSize -> Chars] /\ NameSize \in Nat
      /\ longest \in Nat /\ longest < NameSize
      /\ \A k \in 1 .. NameSize : f[k] = Svr!Nul <=> k > longest
      /\ typed \in Seq(Chars) /\ Len(typed) <= longest /\ Len(typed) \in Nat
      /\ \A k \in 1 .. Len(typed) : f[k] = typed[k]
  BY ClientAssumption DEF SvrInv, SvrTyped, NameKept, Messages
<1>. HIDE DEF f
<1>2. longest + 1 \in ends /\ \A k \in ends : longest + 1 <= k /\ k \in Nat
  BY <1>1
<1>3. Svr!Min(ends) \in ends /\ \A k \in ends : Svr!Min(ends) <= k
  <2>. HIDE DEF ends
  <2>. QED BY <1>2 DEF Svr!Min
<1>4. Svr!Min(ends) - 1 = longest
  <2>. HIDE DEF ends
  <2>1. Svr!Min(ends) <= longest + 1 /\ longest + 1 <= Svr!Min(ends) /\ Svr!Min(ends) \in Nat
    BY <1>2, <1>3
  <2>. QED BY <1>1, <2>1
<1>5. Svr!CString(f) = name
  BY <1>4 DEF Svr!CString
<1>6. f \in Seq(Chars) /\ Len(f) = NameSize
  BY <1>1
<1>7. name \in Seq(Chars) /\ Len(name) = longest /\ \A k \in 1 .. longest : name[k] = f[k]
  BY <1>1, <1>6
<1>. HIDE DEF name
<1>8. SubSeq(typed, 1, Len(typed)) = SubSeq(name, 1, Len(typed))
  <2>. DEFINE n == Len(typed)
              a == SubSeq(typed, 1, n)
              b == SubSeq(name, 1, n)
  <2>1. a \in Seq(Chars) /\ Len(a) = n /\ \A k \in 1 .. n : a[k] = typed[k]
    BY <1>1
  <2>2. b \in Seq(Chars) /\ Len(b) = n /\ \A k \in 1 .. n : b[k] = name[k]
    BY <1>1, <1>7
  <2>3. \A k \in 1 .. n : typed[k] = name[k]
    BY <1>1, <1>7
  <2>. HIDE DEF a, b
  <2>4. a = b
    BY <2>1, <2>2, <2>3
  <2>. QED BY <2>4 DEF a, b
<1>9. Svr!IsPrefix(typed, name)
  BY <1>1, <1>7, <1>8 DEF Svr!IsPrefix
<1>. QED BY <1>5, <1>7, <1>9 DEF f

(* For any file names and any number of servers that die at any step: what *)
(* the client says of a start or a stop during which one server ran is     *)
(* what that server did.  The name given to fopen is the one typed, with   *)
(* the tail of a longer one typed before, if there was one; whether fopen  *)
(* could open it is not said by the server, nor here.  ToSvr, setupstartwo,*)
(* setupstop.                                                              *)
THEOREM ReportsAreTrue == ClientSpec => []ReportIsTrue
<1>1. ClientInit => SvrInv
  <2>. SUFFICES ASSUME Svr!Init PROVE SvrInv
    BY DEF ClientInit
  <2>. DEFINE none == [k \in 1 .. NameSize |-> Svr!Nul]
  <2>1. /\ svrUp \in BOOLEAN /\ svrServer = 1 /\ svrOn = FALSE /\ svrAt = "idle"
        /\ svrMsg = [type |-> "none", name |-> none, needed |-> FALSE]
        /\ typed = <<>> /\ longest = 0 /\ answered = 0 /\ calm = FALSE /\ wasOn = FALSE
    BY DEF Svr!Init
  <2>2. none \in [1 .. NameSize -> Chars] /\ \A k \in 1 .. NameSize : none[k] = Svr!Nul
    BY DEF Chars
  <2>3. svrMsg.name = none /\ svrMsg.needed = FALSE
    BY <2>1
  <2>. HIDE DEF none
  <2>4. SvrTyped
    <3>1. svrMsg \in Messages
      <4>. DEFINE first == [type |-> "none", name |-> none, needed |-> FALSE]
      <4>1. first \in Messages
        BY <2>2 DEF Messages
      <4>2. svrMsg = first
        BY <2>1
      <4>. QED BY <4>1, <4>2
    <3>2. svrServer \in Nat /\ svrServer # 0 /\ answered \in Nat /\ answered <= svrServer
      BY <2>1
    <3>3. svrUp \in BOOLEAN /\ svrOn \in BOOLEAN /\ calm \in BOOLEAN /\ wasOn \in BOOLEAN
      BY <2>1
    <3>4. svrAt \in {"idle", "send", "connect", "second", "return"}
      BY <2>1
    <3>. QED BY <3>1, <3>2, <3>3, <3>4 DEF SvrTyped
  <2>5. NameKept
    <3>1. NameSize \in Nat /\ 0 < NameSize /\ <<>> \in Seq(Chars) /\ Len(<<>>) = 0
      BY ClientAssumption
    <3>. QED BY <2>1, <2>2, <2>3, <3>1 DEF NameKept
  <2>. QED BY <2>1, <2>4, <2>5 DEF SvrInv, OneServer, NameOpened, Sent
<1>2. SvrInv /\ [ClientNext]_clientVars => SvrInv'
  <2>. SUFFICES ASSUME SvrInv, [ClientNext]_clientVars PROVE SvrInv'
    OBVIOUS
  <2>1. CASE UNCHANGED svrVars
    <3>1. SvrTyped' /\ OneServer'
      BY <2>1 DEF SvrInv, svrVars, SvrTyped, OneServer, Sent
    <3>2. NameKept' /\ NameOpened'
      BY <2>1 DEF SvrInv, svrVars, NameKept, NameOpened
    <3>. QED BY <3>1, <3>2 DEF SvrInv
  <2>2. Svr!Next \/ UNCHANGED svrVars
    BY DEF ClientNext, clientVars
  <2>. QED BY <2>1, <2>2, SvrSteps
<1>3. SvrInv => ReportIsTrue
  <2>. SUFFICES ASSUME SvrInv PROVE ReportIsTrue
    OBVIOUS
  <2>1. ASSUME svrAt = "return", calm
        PROVE  /\ answered = svrServer
               /\ svrMsg.type = "START_WO" => (Svr!Said = "started" <=> ~wasOn)
               /\ svrMsg.type = "STOP" => (Svr!Said = "stopped" <=> wasOn)
    <3>1. answered = svrServer
      BY <2>1 DEF SvrInv, OneServer
    <3>2. svrMsg.type = "START_WO" => (Svr!Said = "started" <=> ~wasOn)
      <4>1. ASSUME svrMsg.type = "START_WO"
            PROVE  /\ reply.status = (IF wasOn THEN 0 ELSE 1) /\ reply.type = "START_REPLY"
                   /\ reply = [type |-> "START_REPLY", status |-> 1] <=> ~wasOn
        BY <2>1, <4>1 DEF SvrInv, OneServer
      <4>. QED BY <4>1 DEF Svr!Said
    <3>3. svrMsg.type = "STOP" => (Svr!Said = "stopped" <=> wasOn)
      <4>1. ASSUME svrMsg.type = "STOP"
            PROVE  /\ reply.status = (IF wasOn THEN 1 ELSE 0) /\ reply.type = "STOP_REPLY"
                   /\ reply = [type |-> "STOP_REPLY", status |-> 1] <=> wasOn
        BY <2>1, <4>1 DEF SvrInv, OneServer
      <4>. QED BY <4>1 DEF Svr!Said
    <3>. QED BY <3>1, <3>2, <3>3
  <2>2. ASSUME Svr!Started PROVE Svr!IsPrefix(typed, svrFileName) /\ Len(svrFileName) = longest
    <3>1. svrMsg.type = "START_WO" /\ Svr!Said = "started" /\ svrAt = "return" /\ svrUp
          /\ answered = svrServer /\ typed # <<>>
      BY <2>2 DEF Svr!Started
    <3>2. reply = [type |-> "START_REPLY", status |-> 1]
      BY <3>1 DEF Svr!Said
    <3>3. svrFileName = Svr!CString(svrMsg.name)
      BY <3>1, <3>2 DEF SvrInv, NameOpened
    <3>. QED BY <3>3, NameIsLongest
  <2>. QED BY <2>1, <2>2 DEF ReportIsTrue, Svr!ReportIsTrue, Svr!NameOrLonger
<1>. QED BY <1>1, <1>2, <1>3, PTL DEF ClientSpec
=============================================================================
