---------------------------- MODULE GraphProofs ----------------------------
(***************************************************************************)
(* For every length of the array, every stream of rows and every sequence  *)
(* of resizes: the picture and its axes are those of the points held.  The *)
(* rows that draw one segment only are right because what they add to was  *)
(* whole and prev_point is its last point; an empty graph is no exception  *)
(* because its first point always moves a limit.                           *)
(*                                                                         *)
(* The second part is the earlier graph (ControlCheck), which shows a full *)
(* window less one segment at the most.                                    *)
(*                                                                         *)
(* The third part is the rows on their way to the plot (LivePlot): what    *)
(* the FIFO, the stream and the callback hold together is always the rest  *)
(* of the header or of the row being read, and then the rows not plotted   *)
(* yet, so that the reader's line count and index tell what it reads.      *)
(***************************************************************************)
EXTENDS MCPlot, ListProofs, FiniteSetTheorems, TLAPS

Shape ==
    /\ act_point \in Seq(Points) /\ Len(act_point) < ArraySize
    /\ limits \in Limits
    /\ time \in Nat /\ redraw \in {0, 1}
    /\ two_points \in Nat /\ Len(act_point) <= two_points

(* What an empty graph starts with lies outside itself. *)
EmptyAsks == act_point = <<>> => limits.low_y = 100 /\ limits.max_y = -100

PrevCurrent == act_point # <<>> => prev_point = LastPosition(act_point, limits, size)

Inductive == Shape /\ EmptyAsks /\ PrevCurrent /\ PictureWhole /\ TicksMatch

-----------------------------------------------------------------------------
(* One more point is one more segment. *)
LEMMA PictureAppend ==
    ASSUME NEW pts \in Seq(Points), pts # <<>>, NEW p \in Points, NEW lim, NEW s
    PROVE  Picture(Append(pts, p), lim, s)
             = Picture(pts, lim, s)
                 \cup {<<LastPosition(pts, lim, s), LastPosition(Append(pts, p), lim, s)>>}
<1>. DEFINE n == Len(pts)
            new == Append(pts, p)
            seg(q, i) == <<Position(q[i], lim, s), Position(q[i + 1], lim, s)>>
<1>1. /\ n \in Nat /\ n # 0 /\ Len(new) = n + 1 /\ new # <<>>
      /\ \A i \in 1 .. n : new[i] = pts[i]
      /\ new[n + 1] = p
  OBVIOUS
<1>2. LastPosition(pts, lim, s) = Position(pts[n], lim, s)
  BY DEF LastPosition
<1>3. LastPosition(new, lim, s) = Position(p, lim, s)
  BY <1>1 DEF LastPosition
<1>4. Picture(new, lim, s) = {seg(new, i) : i \in 1 .. n}
  BY <1>1 DEF Picture
<1>5. Picture(pts, lim, s) = {seg(pts, i) : i \in 1 .. n - 1}
  BY DEF Picture
<1>. HIDE DEF new, n
<1>6. \A i \in 1 .. n - 1 : seg(new, i) = seg(pts, i)
  BY <1>1
<1>7. seg(new, n) = <<Position(pts[n], lim, s), Position(p, lim, s)>>
  BY <1>1
<1>. HIDE DEF seg
<1>8. 1 .. n = (1 .. n - 1) \cup {n}
  BY <1>1
<1>9. {seg(new, i) : i \in 1 .. n} = {seg(new, i) : i \in 1 .. n - 1} \cup {seg(new, n)}
  BY <1>8
<1>10. {seg(new, i) : i \in 1 .. n - 1} = {seg(pts, i) : i \in 1 .. n - 1}
  BY <1>6
<1>. QED BY <1>2, <1>3, <1>4, <1>5, <1>7, <1>9, <1>10 DEF new

(* The position of a point is never taken for "no point yet". *)
LEMMA PositionIsOne == \A p, lim, s : Position(p, lim, s) # NoPoint
<1>. SUFFICES ASSUME NEW p, NEW lim, NEW s, Position(p, lim, s) = NoPoint PROVE FALSE
  OBVIOUS
<1>1. Position(p, lim, s).x = <<p.x, lim.max_x>>
  BY DEF Position
<1>2. NoPoint.x = <<>>
  BY DEF NoPoint
<1>3. <<p.x, lim.max_x>> = <<>>
  BY <1>1, <1>2
<1>. QED BY <1>3

(* The ticks fix_units computes are those of the limits it is given. *)
LEMMA FixUnitsMatch ==
    ASSUME NEW old, NEW lim, NEW s
    PROVE  /\ FixUnits(old, lim, s).x = <<lim.max_x, s>>
           /\ lim.low_y < 0 => FixUnits(old, lim, s).low = <<lim.low_y, s>>
           /\ lim.max_y > 0 => FixUnits(old, lim, s).high = <<lim.max_y, s>>
BY DEF FixUnits

(* A redraw that was asked for leaves everything current. *)
LEMMA AbcCurrent ==
    ASSUME NEW pts, NEW lim, NEW s, Abc(pts, lim, s, 1)
    PROVE  /\ canvas' = Picture(pts, lim, s)
           /\ prev_point' = LastPosition(pts, lim, s)
           /\ ticks' = FixUnits(ticks, lim, s)
BY DEF Abc, Get_points

-----------------------------------------------------------------------------
LEMMA InitInductive == Init => Inductive
<1>. SUFFICES ASSUME Init PROVE Inductive
  OBVIOUS
<1>1. act_point = <<>> /\ limits = [max_x |-> 5, low_y |-> 100, max_y |-> -100]
  BY DEF Init
<1>2. Shape
  BY <1>1, GraphAssumption DEF Init, Shape, Limits
<1>. QED BY <1>1, <1>2 DEF Inductive, EmptyAsks, PrevCurrent, PictureWhole, TicksMatch

LEMMA WidenedIs ==
    ASSUME limits \in Limits, NEW a \in Nat, NEW b \in Int
    PROVE  /\ Widened(a, b) \in Limits
           /\ limits.low_y = 100 /\ limits.max_y = -100 => Widened(a, b) # limits
<1>1. PICK x \in Int, y \in Int, z \in Int : limits = [max_x |-> x, low_y |-> y, max_y |-> z]
  BY DEF Limits
<1>2. CASE a >= x
  <2>1. Widened(a, b) = [max_x |-> x + 5, low_y |-> y, max_y |-> z]
    BY <1>1, <1>2 DEF Widened
  <2>. QED BY <1>1, <2>1 DEF Limits
<1>3. CASE ~(a >= x) /\ b < y
  <2>1. Widened(a, b) = [max_x |-> x, low_y |-> b, max_y |-> z]
    BY <1>1, <1>3 DEF Widened
  <2>. QED BY <1>1, <1>3, <2>1 DEF Limits
<1>4. CASE ~(a >= x) /\ ~(b < y) /\ b > z
  <2>1. Widened(a, b) = [max_x |-> x, low_y |-> y, max_y |-> b]
    BY <1>1, <1>4 DEF Widened
  <2>. QED BY <1>1, <1>4, <2>1 DEF Limits
<1>5. CASE ~(a >= x) /\ ~(b < y) /\ ~(b > z)
  <2>1. Widened(a, b) = limits
    BY <1>1, <1>5 DEF Widened
  <2>2. ~(y = 100 /\ z = -100)
    BY <1>5
  <2>. QED BY <1>1, <2>1, <2>2
<1>. QED BY <1>2, <1>3, <1>4, <1>5

(* A row: the array is full, or a limit moved, or one segment is added. *)
LEMMA ReadPointInductive ==
    ASSUME Inductive, NEW a \in Nat, NEW b \in Values, ReadPoint(a, b)
    PROVE  Inductive'
<1>. DEFINE new == Append(act_point, [x |-> a, y |-> b])
            last == LastPosition(act_point', limits', size)
<1>1. /\ time' = a /\ two_points' = two_points + 1 /\ redraw' = 0 /\ size' = size
      /\ AddPoint(a, b)
      /\ Asked(a, b) = 0 => DrawSegment(last)
      /\ Asked(a, b) # 0 => DrawAll
  BY DEF ReadPoint
<1>2. /\ act_point \in Seq(Points) /\ Len(act_point) \in Nat /\ Len(act_point) < ArraySize
      /\ ArraySize \in Nat /\ ArraySize \notin {0, 1} /\ limits \in Limits /\ b \in Int
      /\ redraw \in {0, 1} /\ two_points \in Nat /\ Len(act_point) <= two_points
  BY GraphAssumption DEF Inductive, Shape
<1>3. CASE Full
  <2>1. act_point' = <<>> /\ limits' = ResetLimits
    BY <1>1, <1>3 DEF AddPoint, Reset
  <2>2. Shape' /\ EmptyAsks'
    BY <1>1, <1>2, <2>1 DEF Shape, EmptyAsks, ResetLimits, Limits
  <2>. QED BY <2>1, <2>2 DEF Inductive, PrevCurrent, PictureWhole, TicksMatch
<1>4. CASE ~Full
  <2>1. act_point' = new /\ limits' = Widened(a, b)
    BY <1>1, <1>4 DEF AddPoint
  <2>2. [x |-> a, y |-> b] \in Points
    BY DEF Points
  <2>3. /\ new \in Seq(Points) /\ Len(new) = Len(act_point) + 1 /\ new # <<>>
    BY <1>2, <2>2
  <2>4. Len(new) < ArraySize
    BY <1>2, <1>4, <2>3 DEF Full
  <2>5. Shape' /\ EmptyAsks'
    BY <1>1, <1>2, <2>1, <2>3, <2>4, WidenedIs DEF Shape, EmptyAsks
  <2>6. CASE Asked(a, b) # 0
    <3>1. Abc(act_point', limits', size, 1)
      BY <1>1, <2>6 DEF DrawAll
    <3>2. /\ canvas' = Picture(act_point', limits', size')
          /\ prev_point' = LastPosition(act_point', limits', size')
          /\ ticks' = FixUnits(ticks, limits', size')
      BY <1>1, <3>1, AbcCurrent
    <3>3. PrevCurrent' /\ PictureWhole'
      BY <3>2 DEF PrevCurrent, PictureWhole
    <3>4. TicksMatch'
      BY <3>2, FixUnitsMatch DEF TicksMatch
    <3>. QED BY <2>5, <3>3, <3>4 DEF Inductive
  <2>7. CASE Asked(a, b) = 0
    <3>1. limits' = limits /\ redraw = 0
      BY <1>4, <2>1, <2>7 DEF Asked
    <3>2. act_point # <<>>
      BY <1>2, <2>1, <3>1, WidenedIs DEF Inductive, EmptyAsks
    <3>3. /\ prev_point = LastPosition(act_point, limits, size)
          /\ canvas = Picture(act_point, limits, size)
      BY <3>2 DEF Inductive, PrevCurrent, PictureWhole
    <3>4. prev_point # NoPoint /\ last # NoPoint
      BY <2>1, <2>3, <3>2, <3>3, PositionIsOne DEF LastPosition
    <3>5. two_points' # 1
      BY <1>1, <1>2, <3>2
    <3>6. canvas' = canvas \cup {<<prev_point, last>>} /\ prev_point' = last /\ ticks' = ticks
      BY <1>1, <2>7, <3>4, <3>5 DEF DrawSegment
    <3>7. PictureWhole'
      BY <1>1, <1>2, <2>1, <2>2, <3>1, <3>2, <3>3, <3>6, PictureAppend DEF PictureWhole
    <3>8. PrevCurrent'
      BY <1>1, <3>6 DEF PrevCurrent
    <3>9. TicksMatch'
      BY <1>1, <3>1, <3>2, <3>6 DEF Inductive, TicksMatch
    <3>. QED BY <2>5, <3>7, <3>8, <3>9 DEF Inductive
  <2>. QED BY <2>6, <2>7
<1>. QED BY <1>3, <1>4

LEMMA EventInductive ==
    ASSUME Inductive, Expose \/ \E s \in Sizes : Resize(s) PROVE Inductive'
<1>1. /\ act_point' = act_point /\ limits' = limits /\ time' = time /\ two_points' = two_points
      /\ redraw' \in {0, 1}
      /\ canvas' = Picture(act_point', limits', size')
      /\ prev_point' = LastPosition(act_point', limits', size')
      /\ \/ ticks' = FixUnits(ticks, limits', size')
         \/ ticks' = ticks /\ size' = size
  <2>1. CASE Expose
    BY <2>1 DEF Inductive, Shape, Expose, Abc, Get_points
  <2>2. ASSUME NEW s \in Sizes, Resize(s)
        PROVE  /\ act_point' = act_point /\ limits' = limits /\ time' = time
               /\ two_points' = two_points /\ redraw' = 1 /\ size' = s
               /\ canvas' = Picture(act_point, limits, s)
               /\ prev_point' = LastPosition(act_point, limits, s)
               /\ ticks' = FixUnits(ticks, limits, s)
    BY <2>2, AbcCurrent DEF Resize, Set_dim_graph
  <2>3. CASE \E s \in Sizes : Resize(s)
    <3>1. PICK s \in Sizes : Resize(s)
      BY <2>3
    <3>2. size' = s /\ act_point' = act_point /\ limits' = limits
      BY <2>2, <3>1
    <3>3. /\ canvas' = Picture(act_point', limits', size')
          /\ prev_point' = LastPosition(act_point', limits', size')
          /\ ticks' = FixUnits(ticks, limits', size')
      BY <2>2, <3>1, <3>2
    <3>4. time' = time /\ two_points' = two_points /\ redraw' = 1
      BY <2>2, <3>1
    <3>. QED BY <3>2, <3>3, <3>4
  <2>. QED BY <2>1, <2>3
<1>2. Shape' /\ EmptyAsks'
  BY <1>1 DEF Inductive, Shape, EmptyAsks
<1>3. PrevCurrent' /\ PictureWhole'
  BY <1>1 DEF PrevCurrent, PictureWhole
<1>4. TicksMatch'
  <2>1. CASE ticks' = FixUnits(ticks, limits', size')
    BY <2>1, FixUnitsMatch DEF TicksMatch
  <2>2. CASE ticks' = ticks /\ size' = size
    BY <1>1, <2>2 DEF Inductive, TicksMatch
  <2>. QED BY <1>1, <2>1, <2>2
<1>. QED BY <1>2, <1>3, <1>4 DEF Inductive

LEMMA NextInductive == Inductive /\ [Next]_vars => Inductive'
<1>. SUFFICES ASSUME Inductive, [Next]_vars PROVE Inductive'
  OBVIOUS
<1>1. CASE \E d \in Steps, b \in Values : ReadPoint(time + d, b)
  <2>1. PICK d \in Steps, b \in Values : ReadPoint(time + d, b)
    BY <1>1
  <2>2. time + d \in Nat
    BY GraphAssumption DEF Inductive, Shape
  <2>. QED BY <2>1, <2>2, ReadPointInductive
<1>2. CASE Expose \/ \E s \in Sizes : Resize(s)
  BY <1>2, EventInductive
<1>3. CASE ReadHeader \/ ReadEnds \/ EventsHandled \/ UNCHANGED vars
  <2>1. UNCHANGED <<two_points, time, act_point, limits, size, redraw, ticks, prev_point, canvas>>
    BY <1>3 DEF ReadHeader, ReadEnds, EventsHandled, vars
  <2>. QED BY <2>1 DEF Inductive, Shape, EmptyAsks, PrevCurrent, PictureWhole, TicksMatch
<1>. QED BY <1>1, <1>2, <1>3 DEF Next

LEMMA Invariance == Spec => []Inductive
BY InitInductive, NextInductive, PTL DEF Spec

(* The window shows the segments between all points held, at one scale:    *)
(* setup and abc of window_callbacks.cpp with graph::add_point, whatever   *)
(* rows are read, limits move and sizes the window is given.               *)
THEOREM PictureIsWhole == Spec => []PictureWhole
<1>1. Inductive => PictureWhole
  BY DEF Inductive
<1>. QED BY <1>1, Invariance, PTL

(* The numbers at the axes belong to that scale: graph::fix_units, which   *)
(* get_points calls only when a redraw was asked for.                      *)
THEOREM TicksAreThose == Spec => []TicksMatch
<1>1. Inductive => TicksMatch
  BY DEF Inductive
<1>. QED BY <1>1, Invariance, PTL

-----------------------------------------------------------------------------
(* The earlier plot (ControlCheck).                                        *)
CheckShape ==
    /\ check_points \in Seq(Points) /\ check_limits \in Limits /\ check_time \in Nat
    /\ check_redraw \in {0, 1} /\ drawn_before \in {0, 1}
CheckEmptyAsks == check_points = <<>> => check_limits.low_y = 100 /\ check_limits.max_y = -100
CheckPrevCurrent ==
    check_points # <<>> => check_prev = LastPosition(check_points, check_limits, check_size)
Whole == Picture(check_points, check_limits, check_size)
Missing == Whole \ check_canvas
(* Nothing is missing until a segment has been drawn by itself.            *)
OneMissing ==
    /\ check_canvas \subseteq Whole
    /\ drawn_before = 0 => Missing = {}
    /\ IsFiniteSet(Missing) /\ Cardinality(Missing) <= 1
CheckTicks ==
    check_points # <<>> =>
        /\ check_ticks.x = <<check_limits.max_x, check_size>>
        /\ check_limits.low_y < 0 => check_ticks.low = <<check_limits.low_y, check_size>>
        /\ check_limits.max_y > 0 => check_ticks.high = <<check_limits.max_y, check_size>>
CheckInductive ==
    CheckShape /\ CheckEmptyAsks /\ CheckPrevCurrent /\ OneMissing /\ CheckTicks

LEMMA SameGeometry ==
    ASSUME NEW pts, NEW lim, NEW s
    PROVE  /\ \A p : Check!Position(p, lim, s) = Position(p, lim, s)
           /\ Check!Picture(pts, lim, s) = Picture(pts, lim, s)
           /\ Check!Scale_points(pts, lim, s) = [i \in DOMAIN pts |-> Position(pts[i], lim, s)]
<1>1. \A p : Check!Position(p, lim, s) = Position(p, lim, s)
  BY DEF Check!Position, Position, Check!Below, Below
<1>2. Check!Picture(pts, lim, s) = Picture(pts, lim, s)
  BY <1>1 DEF Check!Picture, Picture
<1>3. Check!Scale_points(pts, lim, s) = [i \in DOMAIN pts |-> Position(pts[i], lim, s)]
  BY <1>1 DEF Check!Scale_points
<1>. QED BY <1>1, <1>2, <1>3

LEMMA CheckAbcIs ==
    ASSUME NEW pts \in Seq(Points), NEW lim, NEW s, NEW asked, Check!CheckAbc(pts, lim, s, asked)
    PROVE  /\ check_canvas' = Picture(pts, lim, s)
           /\ pts # <<>> => check_prev' = LastPosition(pts, lim, s)
           /\ asked = 1 =>
                 /\ check_ticks'.x = <<lim.max_x, s>>
                 /\ lim.low_y < 0 => check_ticks'.low = <<lim.low_y, s>>
                 /\ lim.max_y > 0 => check_ticks'.high = <<lim.max_y, s>>
           /\ asked # 1 => check_ticks' = check_ticks
<1>. DEFINE q == [i \in DOMAIN pts |-> Position(pts[i], lim, s)]
            n == Len(pts)
            drawn == Check!Draw_points(pts, lim, s, asked)
<1>1. drawn.points = q
  BY SameGeometry DEF Check!Draw_points
<1>2. n \in Nat /\ DOMAIN pts = 1 .. n /\ (n = 0 <=> pts = <<>>)
  OBVIOUS
<1>3. Len(q) = n /\ \A i \in 1 .. n : q[i] = Position(pts[i], lim, s)
  BY <1>2
<1>4. drawn.ticks = IF asked = 1 THEN Check!Fix_units(check_ticks, lim, s) ELSE check_ticks
  BY DEF Check!Draw_points
<1>. HIDE DEF drawn, n
<1>5. /\ check_canvas' = {<<q[i], q[i + 1]>> : i \in 1 .. Len(q) - 1}
      /\ check_prev' = IF Len(q) = 0 THEN Check!NoPoint ELSE q[Len(q)]
      /\ check_ticks' = drawn.ticks
  BY <1>1 DEF Check!CheckAbc, drawn
<1>. HIDE DEF q
<1>6. check_canvas' = Picture(pts, lim, s)
  <2>1. \A i \in 1 .. n - 1 :
            <<q[i], q[i + 1]>> = <<Position(pts[i], lim, s), Position(pts[i + 1], lim, s)>>
    BY <1>2, <1>3
  <2>2. check_canvas' = {<<q[i], q[i + 1]>> : i \in 1 .. n - 1}
    BY <1>3, <1>5
  <2>3. check_canvas' =
            {<<Position(pts[i], lim, s), Position(pts[i + 1], lim, s)>> : i \in 1 .. n - 1}
    BY <2>1, <2>2
  <2>. QED BY <2>3 DEF Picture, n
<1>7. ASSUME pts # <<>> PROVE check_prev' = LastPosition(pts, lim, s)
  <2>1. n \in 1 .. n /\ n # 0
    BY <1>2, <1>7
  <2>. QED BY <1>3, <1>5, <1>7, <2>1 DEF LastPosition, n
<1>8. ASSUME asked = 1
      PROVE  /\ check_ticks'.x = <<lim.max_x, s>>
             /\ lim.low_y < 0 => check_ticks'.low = <<lim.low_y, s>>
             /\ lim.max_y > 0 => check_ticks'.high = <<lim.max_y, s>>
  BY <1>4, <1>5, <1>8 DEF Check!Fix_units
<1>. QED BY <1>4, <1>5, <1>6, <1>7, <1>8

LEMMA CheckWidenedIs ==
    ASSUME check_limits \in Limits, NEW a \in Nat, NEW b \in Int
    PROVE  /\ Check!Widened(a, b) \in Limits
           /\ check_limits.low_y = 100 /\ check_limits.max_y = -100
              => Check!Widened(a, b) # check_limits
<1>1. PICK x \in Int, y \in Int, z \in Int : check_limits = [max_x |-> x, low_y |-> y, max_y |-> z]
  BY DEF Limits
<1>2. CASE a >= x
  <2>1. Check!Widened(a, b) = [max_x |-> x + 5, low_y |-> y, max_y |-> z]
    BY <1>1, <1>2 DEF Check!Widened
  <2>. QED BY <1>1, <2>1 DEF Limits
<1>3. CASE ~(a >= x) /\ b < y
  <2>1. Check!Widened(a, b) = [max_x |-> x, low_y |-> b, max_y |-> z]
    BY <1>1, <1>3 DEF Check!Widened
  <2>. QED BY <1>1, <1>3, <2>1 DEF Limits
<1>4. CASE ~(a >= x) /\ ~(b < y) /\ b > z
  <2>1. Check!Widened(a, b) = [max_x |-> x, low_y |-> y, max_y |-> b]
    BY <1>1, <1>4 DEF Check!Widened
  <2>. QED BY <1>1, <1>4, <2>1 DEF Limits
<1>5. CASE ~(a >= x) /\ ~(b < y) /\ ~(b > z)
  <2>1. Check!Widened(a, b) = check_limits
    BY <1>1, <1>5 DEF Check!Widened
  <2>2. ~(y = 100 /\ z = -100)
    BY <1>5
  <2>. QED BY <1>1, <2>1, <2>2
<1>. QED BY <1>2, <1>3, <1>4, <1>5

(* After a redraw nothing is missing.                                      *)
LEMMA RedrawnWhole ==
    ASSUME CheckInductive, check_points' \in Seq(Points), check_canvas' = Whole',
           drawn_before' \in {0, 1}
    PROVE  OneMissing'
<1>1. Missing' = {}
  BY DEF Missing
<1>2. IsFiniteSet({}) /\ Cardinality({}) = 0
  BY FS_EmptySet
<1>. QED BY <1>1, <1>2 DEF OneMissing

(* A row: a limit moved or a redraw was asked for, or one segment is drawn.*)
LEMMA RowKeeps ==
    ASSUME CheckInductive, NEW a \in Nat, NEW b \in Values, Check!ReadRow(a, b)
    PROVE  CheckInductive'
<1>. DEFINE old == check_points
            new == Append(old, [x |-> a, y |-> b])
            curr == Check!Last_point(check_points', check_limits', check_size)
<1>1. /\ check_points' = new /\ check_limits' = Check!Widened(a, b)
      /\ check_time' = a /\ check_redraw' = 0 /\ check_size' = check_size
      /\ IF Check!RedrawNeeded(a, b) THEN Check!Redraw ELSE Check!DrawNext(curr)
  BY DEF Check!ReadRow, Check!Add_Point
<1>2. /\ old \in Seq(Points) /\ check_limits \in Limits /\ b \in Int
      /\ check_redraw \in {0, 1} /\ drawn_before \in {0, 1}
  BY GraphAssumption DEF CheckInductive, CheckShape
<1>3. [x |-> a, y |-> b] \in Points
  BY DEF Points
<1>4. new \in Seq(Points) /\ new # <<>> /\ Len(new) \in Nat /\ Len(new) # 0 /\ DOMAIN new = 1 .. Len(new)
  BY <1>2, <1>3
<1>5. check_limits' \in Limits
  BY <1>1, <1>2, CheckWidenedIs
<1>6. CASE Check!RedrawNeeded(a, b)
  <2>1. Check!CheckAbc(check_points', check_limits', check_size, 1) /\ drawn_before' = drawn_before
    BY <1>1, <1>6 DEF Check!Redraw
  <2>2. /\ check_canvas' = Picture(new, check_limits', check_size')
        /\ check_prev' = LastPosition(new, check_limits', check_size')
        /\ check_ticks'.x = <<check_limits'.max_x, check_size'>>
        /\ check_limits'.low_y < 0 => check_ticks'.low = <<check_limits'.low_y, check_size'>>
        /\ check_limits'.max_y > 0 => check_ticks'.high = <<check_limits'.max_y, check_size'>>
    <3>. HIDE DEF new
    <3>. QED BY <1>1, <1>4, <2>1, CheckAbcIs
  <2>. HIDE DEF new
  <2>3. CheckShape' /\ CheckEmptyAsks'
    BY <1>1, <1>2, <1>4, <1>5, <2>1 DEF CheckShape, CheckEmptyAsks
  <2>4. CheckPrevCurrent' /\ CheckTicks'
    BY <1>1, <2>2 DEF CheckPrevCurrent, CheckTicks
  <2>5. OneMissing'
    BY <1>1, <1>2, <1>4, <2>1, <2>2, RedrawnWhole DEF Whole
  <2>. QED BY <2>3, <2>4, <2>5 DEF CheckInductive
<1>7. CASE ~Check!RedrawNeeded(a, b)
  <2>1. check_limits' = check_limits /\ check_redraw # 1
    BY <1>1, <1>7 DEF Check!RedrawNeeded
  <2>2. old # <<>>
    <3>1. Check!Widened(a, b) = check_limits
      BY <1>1, <2>1
    <3>2. ~(check_limits.low_y = 100 /\ check_limits.max_y = -100)
      BY <1>2, <3>1, CheckWidenedIs
    <3>. QED BY <3>2 DEF CheckInductive, CheckEmptyAsks
  <2>3. check_prev = LastPosition(old, check_limits, check_size)
    BY <2>2 DEF CheckInductive, CheckPrevCurrent
  <2>4. curr = LastPosition(new, check_limits, check_size)
    <3>. HIDE DEF new
    <3>1. Len(new) \in DOMAIN new
      BY <1>4
    <3>. QED BY <1>1, <1>4, <2>1, <3>1, SameGeometry DEF Check!Last_point, LastPosition
  <2>5. /\ check_canvas' = IF drawn_before # 0 THEN check_canvas \cup {<<check_prev, curr>>}
                           ELSE check_canvas
        /\ drawn_before' = 1 /\ check_prev' = curr /\ check_ticks' = check_ticks
    BY <1>1, <1>7 DEF Check!DrawNext
  <2>. HIDE DEF curr
  <2>6. Whole' = Whole \cup {<<check_prev, curr>>}
    BY <1>1, <1>2, <1>3, <2>1, <2>2, <2>3, <2>4, PictureAppend DEF Whole
  <2>. HIDE DEF new
  <2>7. CheckShape' /\ CheckEmptyAsks'
    BY <1>1, <1>2, <1>4, <1>5, <2>5 DEF CheckShape, CheckEmptyAsks
  <2>8. CheckPrevCurrent'
    BY <1>1, <2>1, <2>4, <2>5 DEF CheckPrevCurrent
  <2>9. CheckTicks'
    BY <1>1, <2>1, <2>2, <2>5 DEF CheckInductive, CheckTicks
  <2>10. OneMissing'
    <3>. DEFINE seg == <<check_prev, curr>>
    <3>1. check_canvas \subseteq Whole /\ IsFiniteSet(Missing) /\ Cardinality(Missing) <= 1
          /\ (drawn_before = 0 => Missing = {})
      BY DEF CheckInductive, OneMissing
    <3>. HIDE DEF seg
    <3>2. check_canvas' \subseteq Whole'
      BY <2>5, <2>6, <3>1 DEF seg
    <3>3. CASE drawn_before # 0
      <4>1. Missing' = Missing \ {seg}
        BY <2>5, <2>6, <3>3 DEF Missing, seg
      <4>2. IsFiniteSet(Missing') /\ Cardinality(Missing') <= Cardinality(Missing)
            /\ Cardinality(Missing') \in Nat /\ Cardinality(Missing) \in Nat
        <5>1. Missing' \in SUBSET Missing
          BY <4>1
        <5>2. IsFiniteSet(Missing') /\ Cardinality(Missing') <= Cardinality(Missing)
          BY <3>1, <5>1, FS_Subset
        <5>. QED BY <3>1, <5>2, FS_CardinalityType
      <4>3. Cardinality(Missing') <= 1
        BY <3>1, <4>2
      <4>. QED BY <2>5, <3>2, <4>2, <4>3 DEF OneMissing
    <3>4. CASE drawn_before = 0
      <4>1. Missing' \in SUBSET {seg}
        BY <2>5, <2>6, <3>1, <3>4 DEF Missing, seg
      <4>2. IsFiniteSet({seg}) /\ Cardinality({seg}) = 1
        BY FS_Singleton
      <4>3. IsFiniteSet(Missing') /\ Cardinality(Missing') <= 1
        BY <4>1, <4>2, FS_Subset
      <4>. QED BY <2>5, <3>2, <4>3 DEF OneMissing
    <3>. QED BY <3>3, <3>4
  <2>. QED BY <2>7, <2>8, <2>9, <2>10 DEF CheckInductive
<1>. QED BY <1>6, <1>7

LEMMA CheckEventKeeps ==
    ASSUME CheckInductive, Check!CheckExpose \/ \E s \in Sizes : Check!CheckResize(s)
    PROVE  CheckInductive'
<1>1. ASSUME NEW s, NEW asked,
             Check!CheckAbc(check_points, check_limits, s, asked), check_size' = s,
             asked = 1 \/ s = check_size, check_redraw' \in {0, 1},
             UNCHANGED <<drawn_before, check_time, check_points, check_limits>>
      PROVE  CheckInductive'
  <2>1. check_points \in Seq(Points) /\ drawn_before \in {0, 1}
    BY DEF CheckInductive, CheckShape
  <2>2. /\ check_canvas' = Picture(check_points, check_limits, s)
        /\ check_points # <<>> => check_prev' = LastPosition(check_points, check_limits, s)
        /\ asked = 1 =>
                 /\ check_ticks'.x = <<check_limits.max_x, s>>
                 /\ check_limits.low_y < 0 => check_ticks'.low = <<check_limits.low_y, s>>
                 /\ check_limits.max_y > 0 => check_ticks'.high = <<check_limits.max_y, s>>
        /\ asked # 1 => check_ticks' = check_ticks
    BY <1>1, <2>1, CheckAbcIs
  <2>3. CheckShape' /\ CheckEmptyAsks'
    BY <1>1 DEF CheckInductive, CheckShape, CheckEmptyAsks
  <2>4. CheckPrevCurrent'
    BY <1>1, <2>2 DEF CheckPrevCurrent
  <2>5. CheckTicks'
    <3>1. CASE asked = 1
      BY <1>1, <2>2, <3>1 DEF CheckTicks
    <3>2. CASE asked # 1
      BY <1>1, <2>2, <3>2 DEF CheckInductive, CheckTicks
    <3>. QED BY <3>1, <3>2
  <2>6. OneMissing'
    BY <1>1, <2>1, <2>2, RedrawnWhole DEF Whole
  <2>. QED BY <2>3, <2>4, <2>5, <2>6 DEF CheckInductive
<1>2. CASE Check!CheckExpose
  <2>1. /\ Check!CheckAbc(check_points, check_limits, check_size, check_redraw)
        /\ UNCHANGED <<drawn_before, check_time, check_points, check_limits, check_size,
                       check_redraw>>
    BY <1>2 DEF Check!CheckExpose
  <2>2. check_redraw \in {0, 1}
    BY DEF CheckInductive, CheckShape
  <2>. QED BY <1>1, <2>1, <2>2
<1>3. ASSUME NEW s \in Sizes, Check!CheckResize(s) PROVE CheckInductive'
  <2>1. /\ Check!CheckAbc(check_points, check_limits, s, 1) /\ check_size' = s /\ check_redraw' = 1
        /\ UNCHANGED <<drawn_before, check_time, check_points, check_limits>>
    BY <1>3 DEF Check!CheckResize, Check!CheckDim
  <2>. QED BY <1>1, <2>1
<1>. QED BY <1>2, <1>3

(* For any rows and resizes the earlier plot shows no wrong segment and    *)
(* misses at most one, and its ticks are those of the scale: setup and abc *)
(* of ControlCheck.                                                        *)
THEOREM EarlierSegmentsRight == PlotSpec => []SegmentsRight
<1>1. PlotInit => CheckInductive
  <2>. SUFFICES ASSUME Check!CheckInit PROVE CheckInductive
    BY DEF PlotInit
  <2>1. /\ check_points = <<>> /\ check_limits = [max_x |-> 5, low_y |-> 100, max_y |-> -100]
        /\ check_time = 0 /\ drawn_before = 0 /\ check_redraw = 0 /\ check_canvas = {}
    BY DEF Check!CheckInit
  <2>2. CheckShape
    BY <2>1 DEF CheckShape, Limits
  <2>3. Whole = {}
    <3>1. 1 .. Len(<<>>) - 1 = {}
      OBVIOUS
    <3>. QED BY <2>1, <3>1 DEF Whole, Picture
  <2>4. Missing = {} /\ IsFiniteSet({}) /\ Cardinality({}) = 0
    BY <2>3, FS_EmptySet DEF Missing
  <2>5. OneMissing
    BY <2>1, <2>3, <2>4 DEF OneMissing
  <2>. QED BY <2>1, <2>2, <2>5 DEF CheckInductive, CheckEmptyAsks, CheckPrevCurrent, CheckTicks
<1>2. CheckInductive /\ [PlotNext]_plotVars => CheckInductive'
  <2>. SUFFICES ASSUME CheckInductive, [PlotNext]_plotVars PROVE CheckInductive'
    OBVIOUS
  <2>1. CASE UNCHANGED <<drawn_before, check_time, check_points, check_limits, check_size,
                         check_redraw, check_ticks, check_prev, check_canvas>>
    <3>1. CheckShape' /\ CheckEmptyAsks' /\ CheckPrevCurrent' /\ CheckTicks'
      BY <2>1 DEF CheckInductive, CheckShape, CheckEmptyAsks, CheckPrevCurrent, CheckTicks
    <3>2. OneMissing'
      BY <2>1 DEF CheckInductive, OneMissing, Missing, Whole
    <3>. QED BY <3>1, <3>2 DEF CheckInductive
  <2>2. CASE Check!CheckNext
    <3>1. ASSUME NEW d \in CheckSteps, NEW b \in Values, Check!ReadRow(check_time + d, b)
          PROVE  CheckInductive'
      <4>1. check_time + d \in Nat
        BY PlotAssumption DEF CheckInductive, CheckShape
      <4>. QED BY <3>1, <4>1, RowKeeps
    <3>2. ASSUME Check!ReadHeader \/ Check!ReadEnds \/ Check!EndsInRow \/ Check!EventsHandled
          PROVE  CheckInductive'
      <4>1. UNCHANGED <<drawn_before, check_time, check_points, check_limits, check_size,
                        check_redraw, check_ticks, check_prev, check_canvas>>
        BY <3>2 DEF Check!ReadHeader, Check!ReadEnds, Check!EndsInRow, Check!EventsHandled,
                    Check!others
      <4>. QED BY <2>1, <4>1
    <3>. QED BY <2>2, <3>1, <3>2, CheckEventKeeps DEF Check!CheckNext
  <2>. QED BY <2>1, <2>2 DEF PlotNext, plotVars, checkVars
<1>3. CheckInductive => SegmentsRight
  <2>. SUFFICES ASSUME CheckInductive PROVE SegmentsRight
    OBVIOUS
  <2>1. Check!Picture(check_points, check_limits, check_size) = Whole
    BY SameGeometry DEF Whole
  <2>2. Check!Cardinality(Missing) = Cardinality(Missing)
    BY DEF Cardinality, Check!Cardinality, IsFiniteSet, Check!IsFiniteSet
  <2>3. check_canvas \subseteq Whole /\ Cardinality(Missing) <= 1
    BY DEF CheckInductive, OneMissing
  <2>4. Check!TicksMatch
    BY DEF CheckInductive, CheckTicks, Check!TicksMatch
  <2>. QED BY <2>1, <2>2, <2>3, <2>4 DEF SegmentsRight, Check!SegmentsRight, Missing
<1>. QED BY <1>1, <1>2, <1>3, PTL DEF PlotSpec

-----------------------------------------------------------------------------
Kinds == {"nl", "none", "nul", "value", "name", "unit"} \cup Garbage
Cells == [kind : Kinds, pkg : Nat, col : Nat, n : Nat]
Text == Cells \ {Live!NewLine}
Packages == DOMAIN Fields

LEMMA SameFlatten == \A ss : Live!FlattenSeq(ss) = FlattenSeq(ss)
  BY DEF FlattenSeq, Live!FlattenSeq

LEMMA ColumnsAreText ==
    ASSUME NEW kind \in {"value", "name", "unit"}, NEW p \in Packages, NEW n \in Nat
    PROVE  /\ Live!Columns(kind, p, n) \in Seq(Text)
           /\ Len(Live!Columns(kind, p, n)) = Fields[p]
           /\ \A c \in 1 .. Fields[p] : Live!Columns(kind, p, n)[c] = Live!Cell(kind, p, c, n)
<1>1. Fields[p] \in Nat /\ p \in Nat
  BY PlotAssumption DEF Packages
<1>2. ASSUME NEW c \in 1 .. Fields[p] PROVE Live!Cell(kind, p, c, n) \in Text
  BY <1>1 DEF Live!Cell, Text, Cells, Kinds, Live!NewLine
<1>3. Live!Columns(kind, p, n) = [c \in 1 .. Fields[p] |-> Live!Cell(kind, p, c, n)]
  BY DEF Live!Columns
<1>. QED BY <1>1, <1>2, <1>3

(* A line of the header is text and then its end. *)
LineText(kind) == FlattenSeq([p \in Packages |-> Live!Columns(kind, p, 0)])

LEMMA LineIsText ==
    ASSUME NEW kind \in {"name", "unit"}
    PROVE  /\ LineText(kind) \in Seq(Text)
           /\ Live!Line(kind) = LineText(kind) \o <<Live!NewLine>>
<1>. DEFINE all == [p \in Packages |-> Live!Columns(kind, p, 0)]
<1>1. all \in Seq(Seq(Text))
  <2>1. \A p \in Packages : Live!Columns(kind, p, 0) \in Seq(Text)
    BY ColumnsAreText
  <2>2. Packages = 1 .. Len(Fields) /\ Len(Fields) \in Nat
    BY PlotAssumption DEF Packages
  <2>. QED BY <2>1, <2>2
<1>. HIDE DEF all
<1>2. FlattenSeq(all) \in Seq(Text)
  BY <1>1, FlattenElements
<1>3. Live!Line(kind) = Live!FlattenSeq(all) \o <<Live!NewLine>>
  BY DEF Live!Line, Live!Packages, Packages, all
<1>. QED BY <1>2, <1>3, SameFlatten DEF LineText, all

(* Where the ends of lines stand in a header of nine lines, names, units   *)
(* and one line more.                                                      *)
LEMMA EndsOfLines ==
    ASSUME NEW A \in Seq(Text), NEW B \in Seq(Text)
    PROVE  LET nl == Live!NewLine
               H == [k \in 1 .. 9 |-> nl] \o (A \o <<nl>>) \o (B \o <<nl>>) \o <<nl>>
               a == Len(A)
               b == Len(B)
           IN  /\ H \in Seq(Cells)
               /\ Len(H) = 12 + a + b
               /\ \A i \in 1 .. 12 + a + b :
                     H[i] = nl <=> i <= 9 \/ i = 10 + a \/ i >= 11 + a + b
<1>. DEFINE nl == Live!NewLine
            N == [k \in 1 .. 9 |-> nl]
            A1 == A \o <<nl>>
            B1 == B \o <<nl>>
            a == Len(A)
            b == Len(B)
<1>1. nl \in Cells /\ nl \notin Text
  BY DEF Live!NewLine, Text, Cells, Kinds
<1>. HIDE DEF nl
<1>2. N \in Seq(Cells) /\ Len(N) = 9 /\ \A i \in 1 .. 9 : N[i] = nl
  BY <1>1
<1>3. A \in Seq(Cells) /\ B \in Seq(Cells) /\ <<nl>> \in Seq(Cells) /\ Len(<<nl>>) = 1
  BY <1>1, SeqMonotonic DEF Text
<1>4. a \in Nat /\ b \in Nat
  OBVIOUS
<1>5. /\ A1 \in Seq(Cells) /\ Len(A1) = a + 1 /\ A1[a + 1] = nl
      /\ \A i \in 1 .. a : A1[i] \in Text
  BY <1>3
<1>6. /\ B1 \in Seq(Cells) /\ Len(B1) = b + 1 /\ B1[b + 1] = nl
      /\ \A i \in 1 .. b : B1[i] \in Text
  BY <1>3
<1>. HIDE DEF N, A1, B1, a, b
<1>. DEFINE H1 == N \o A1
            H2 == H1 \o B1
            H3 == H2 \o <<nl>>
<1>7. /\ H1 \in Seq(Cells) /\ Len(H1) = 10 + a
      /\ \A i \in 1 .. 10 + a : H1[i] = IF i <= 9 THEN N[i] ELSE A1[i - 9]
  <2>1. /\ N \o A1 \in Seq(Cells) /\ Len(N \o A1) = Len(N) + Len(A1)
        /\ \A i \in 1 .. Len(N) + Len(A1) :
              (N \o A1)[i] = IF i <= Len(N) THEN N[i] ELSE A1[i - Len(N)]
    BY <1>2, <1>5, ConcatProperties
  <2>2. Len(N) + Len(A1) = 10 + a
    BY <1>2, <1>4, <1>5
  <2>. QED BY <1>2, <2>1, <2>2
<1>. HIDE DEF H1
<1>8. /\ H2 \in Seq(Cells) /\ Len(H2) = 11 + a + b
      /\ \A i \in 1 .. 11 + a + b : H2[i] = IF i <= 10 + a THEN H1[i] ELSE B1[i - (10 + a)]
  <2>1. /\ H1 \o B1 \in Seq(Cells) /\ Len(H1 \o B1) = Len(H1) + Len(B1)
        /\ \A i \in 1 .. Len(H1) + Len(B1) :
              (H1 \o B1)[i] = IF i <= Len(H1) THEN H1[i] ELSE B1[i - Len(H1)]
    BY <1>6, <1>7, ConcatProperties
  <2>2. Len(H1) + Len(B1) = 11 + a + b
    BY <1>4, <1>6, <1>7
  <2>. QED BY <1>7, <2>1, <2>2
<1>. HIDE DEF H2
<1>9. /\ H3 \in Seq(Cells) /\ Len(H3) = 12 + a + b
      /\ \A i \in 1 .. 12 + a + b : H3[i] = IF i <= 11 + a + b THEN H2[i] ELSE nl
  <2>1. /\ H2 \o <<nl>> \in Seq(Cells) /\ Len(H2 \o <<nl>>) = Len(H2) + 1
        /\ \A i \in 1 .. Len(H2) + 1 :
              (H2 \o <<nl>>)[i] = IF i <= Len(H2) THEN H2[i] ELSE <<nl>>[i - Len(H2)]
    BY <1>3, <1>8, ConcatProperties
  <2>2. Len(H2) + 1 = 12 + a + b
    BY <1>4, <1>8
  <2>3. \A i \in 1 .. 12 + a + b : ~(i <= 11 + a + b) => i - (11 + a + b) = 1
    BY <1>4
  <2>4. <<nl>>[1] = nl
    OBVIOUS
  <2>. QED BY <1>8, <2>1, <2>2, <2>3, <2>4
<1>. HIDE DEF H3
<1>10. ASSUME NEW i \in 1 .. 12 + a + b
       PROVE  H3[i] = nl <=> i <= 9 \/ i = 10 + a \/ i >= 11 + a + b
  <2>1. i \in Nat /\ i >= 1
    BY <1>4
  <2>2. CASE i <= 9
    <3>1. i <= 11 + a + b /\ i <= 10 + a /\ i \in 1 .. 10 + a /\ i \in 1 .. 11 + a + b
          /\ i \in 1 .. 9
      BY <1>4, <2>1, <2>2
    <3>. QED BY <1>2, <1>7, <1>8, <1>9, <2>2, <3>1
  <2>3. CASE i > 9 /\ i <= 10 + a
    <3>1. i <= 11 + a + b /\ ~(i <= 9) /\ i \in 1 .. 10 + a /\ i \in 1 .. 11 + a + b
          /\ i - 9 \in 1 .. a + 1 /\ (i - 9 = a + 1 <=> i = 10 + a)
          /\ (i - 9 # a + 1 => i - 9 \in 1 .. a) /\ ~(i >= 11 + a + b)
      BY <1>4, <2>1, <2>3
    <3>2. H3[i] = A1[i - 9]
      BY <1>7, <1>8, <1>9, <2>3, <3>1
    <3>. QED BY <1>1, <1>5, <3>1, <3>2
  <2>4. CASE i > 10 + a /\ i <= 11 + a + b
    <3>1. /\ ~(i <= 10 + a) /\ i \in 1 .. 11 + a + b /\ ~(i <= 9) /\ i # 10 + a
          /\ (i - (10 + a) = b + 1 <=> i >= 11 + a + b)
          /\ (i - (10 + a) # b + 1 => i - (10 + a) \in 1 .. b)
      BY <1>4, <2>1, <2>4
    <3>2. H3[i] = B1[i - (10 + a)]
      BY <1>8, <1>9, <2>4, <3>1
    <3>. QED BY <1>1, <1>6, <3>1, <3>2
  <2>5. CASE i > 11 + a + b
    <3>1. ~(i <= 11 + a + b) /\ i >= 11 + a + b
      BY <1>4, <2>1, <2>5
    <3>. QED BY <1>9, <3>1
  <2>. QED BY <1>4, <2>1, <2>2, <2>3, <2>4, <2>5
<1>. QED BY <1>9, <1>10 DEF H3, H2, H1, N, A1, B1, a, b, nl

(* Lines ended among the first j cells of the header. *)
Names == Len(LineText("name"))
Units == Len(LineText("unit"))
LinesIn(j) ==
    IF j <= 9 THEN j
    ELSE IF j < 10 + Names THEN 9
    ELSE IF j < 11 + Names + Units THEN 10
    ELSE IF j = 11 + Names + Units THEN 11 ELSE 12

LEMMA HeaderLinesEnd ==
    /\ Live!Header \in Seq(Cells)
    /\ Len(Live!Header) = 12 + Names + Units
    /\ LinesIn(0) = 0 /\ LinesIn(Len(Live!Header)) = 12
    /\ \A j \in 0 .. Len(Live!Header) - 1 :
          /\ LinesIn(j) \in 0 .. 11
          /\ LinesIn(j + 1) =
                IF Live!Header[j + 1] = Live!NewLine THEN LinesIn(j) + 1 ELSE LinesIn(j)
<1>1. /\ LineText("name") \in Seq(Text) /\ LineText("unit") \in Seq(Text)
      /\ Live!Header = [k \in 1 .. 9 |-> Live!NewLine] \o (LineText("name") \o <<Live!NewLine>>)
                         \o (LineText("unit") \o <<Live!NewLine>>) \o <<Live!NewLine>>
  BY LineIsText DEF Live!Header
<1>2. /\ Live!Header \in Seq(Cells)
      /\ Len(Live!Header) = 12 + Names + Units
      /\ \A i \in 1 .. 12 + Names + Units :
            Live!Header[i] = Live!NewLine <=> i <= 9 \/ i = 10 + Names \/ i >= 11 + Names + Units
  <2>. DEFINE A == LineText("name")
              B == LineText("unit")
  <2>1. A \in Seq(Text) /\ B \in Seq(Text) /\ Names = Len(A) /\ Units = Len(B)
    BY <1>1 DEF Names, Units
  <2>2. Live!Header = [k \in 1 .. 9 |-> Live!NewLine] \o (A \o <<Live!NewLine>>)
                         \o (B \o <<Live!NewLine>>) \o <<Live!NewLine>>
    BY <1>1
  <2>. HIDE DEF A, B
  <2>. QED BY <2>1, <2>2, EndsOfLines
<1>3. Names \in Nat /\ Units \in Nat
  BY <1>1 DEF Names, Units
<1>4. LinesIn(0) = 0 /\ LinesIn(Len(Live!Header)) = 12
  BY <1>2, <1>3 DEF LinesIn
<1>5. ASSUME NEW j \in 0 .. Len(Live!Header) - 1
      PROVE  /\ LinesIn(j) \in 0 .. 11
             /\ LinesIn(j + 1) =
                   IF Live!Header[j + 1] = Live!NewLine THEN LinesIn(j) + 1 ELSE LinesIn(j)
  <2>1. j \in 0 .. 11 + Names + Units /\ j + 1 \in 1 .. 12 + Names + Units
    BY <1>2, <1>3
  <2>2. LinesIn(j) \in 0 .. 11
    BY <1>3, <2>1 DEF LinesIn
  <2>3. LinesIn(j + 1) = IF j + 1 <= 9 \/ j + 1 = 10 + Names \/ j + 1 >= 11 + Names + Units
                         THEN LinesIn(j) + 1 ELSE LinesIn(j)
    BY <1>3, <2>1 DEF LinesIn
  <2>. QED BY <1>2, <2>1, <2>2, <2>3
<1>. QED BY <1>2, <1>4, <1>5

-----------------------------------------------------------------------------
(* What is left of a sequence, and what is read from the front of two.     *)
Rest(s, j) == SubSeq(s, j + 1, Len(s))

LEMMA RestIs ==
    ASSUME NEW E, NEW s \in Seq(E)
    PROVE  /\ Rest(s, 0) = s /\ Rest(s, Len(s)) = <<>>
           /\ \A j \in 0 .. Len(s) : Rest(s, j) \in Seq(E)
           /\ \A j \in 0 .. Len(s) - 1 :
                 /\ Rest(s, j) # <<>> /\ Head(Rest(s, j)) = s[j + 1]
                 /\ Tail(Rest(s, j)) = Rest(s, j + 1)
<1>1. Rest(s, 0) = s /\ Rest(s, Len(s)) = <<>>
  BY DEF Rest
<1>2. \A j \in 0 .. Len(s) : Rest(s, j) \in Seq(E)
  BY DEF Rest
<1>3. ASSUME NEW j \in 0 .. Len(s) - 1
      PROVE  /\ Rest(s, j) # <<>> /\ Head(Rest(s, j)) = s[j + 1]
             /\ Tail(Rest(s, j)) = Rest(s, j + 1)
  <2>1. j + 1 \in 1 .. Len(s) /\ Len(s) \in j + 1 .. Len(s)
    OBVIOUS
  <2>2. Head(Rest(s, j)) = s[j + 1] /\ Tail(Rest(s, j)) = Rest(s, j + 1)
    BY <2>1, HeadTailOfSubSeq DEF Rest
  <2>3. Rest(s, j) # <<>>
    <3>1. Len(Rest(s, j)) = Len(s) - j
      BY <2>1 DEF Rest
    <3>2. Len(s) - j # 0 /\ Len(<<>>) = 0
      OBVIOUS
    <3>. QED BY <3>1, <3>2
  <2>. QED BY <2>2, <2>3
<1>. QED BY <1>1, <1>2, <1>3

LEMMA FrontOfTwo ==
    ASSUME NEW E, NEW s \in Seq(E), NEW t \in Seq(E), s # <<>>
    PROVE  s \o t # <<>> /\ Head(s \o t) = Head(s) /\ Tail(s \o t) = Tail(s) \o t
<1>1. Len(s) \in Nat /\ Len(s) # 0 /\ Len(t) \in Nat
  OBVIOUS
<1>2. s \o t # <<>> /\ Head(s \o t) = Head(s)
  BY <1>1
<1>3. /\ Tail(s \o t) \in Seq(E) /\ Tail(s) \o t \in Seq(E)
      /\ Len(Tail(s \o t)) = Len(s) + Len(t) - 1 /\ Len(Tail(s) \o t) = Len(s) + Len(t) - 1
  BY <1>1
<1>4. ASSUME NEW i \in 1 .. Len(s) + Len(t) - 1 PROVE Tail(s \o t)[i] = (Tail(s) \o t)[i]
  BY <1>1
<1>. QED BY <1>2, <1>3, <1>4, SeqEqual

(* The rows of the answers. *)
Sent == Packages \X Nat
RowsOf(s) == FlattenSeq([k \in DOMAIN s |-> Live!Row(s[k][1], s[k][2])])

LEMMA RowIs ==
    ASSUME NEW p \in Packages, NEW n \in Nat
    PROVE  LET row == Live!Row(p, n)
           IN  /\ row \in Seq(Cells) /\ Len(row) = Fields[p] + 1
               /\ row[Fields[p] + 1] = Live!NewLine
               /\ \A c \in 1 .. Fields[p] : row[c] = Live!Cell("value", p, c, n)
<1>. DEFINE cs == Live!Columns("value", p, n)
<1>1. /\ cs \in Seq(Text) /\ Len(cs) = Fields[p]
      /\ \A c \in 1 .. Fields[p] : cs[c] = Live!Cell("value", p, c, n)
  BY ColumnsAreText
<1>2. Live!NewLine \in Cells /\ Fields[p] \in Nat /\ cs \in Seq(Cells)
  <2>1. cs \in Seq(Cells)
    BY <1>1, SeqMonotonic DEF Text
  <2>. QED BY <2>1, PlotAssumption DEF Live!NewLine, Cells, Kinds, Packages
<1>3. Live!Row(p, n) = Append(cs, Live!NewLine)
  BY DEF Live!Row
<1>. HIDE DEF cs
<1>. QED BY <1>1, <1>2, <1>3

LEMMA RowsOfIs ==
    /\ RowsOf(<<>>) = <<>>
    /\ \A s \in Seq(Sent) : RowsOf(s) \in Seq(Cells)
    /\ \A s, t \in Seq(Sent) : RowsOf(s \o t) = RowsOf(s) \o RowsOf(t)
    /\ \A s \in Seq(Sent) : s # <<>> =>
          /\ s[1][1] \in Packages /\ s[1][2] \in Nat /\ Tail(s) \in Seq(Sent)
          /\ RowsOf(s) = Live!Row(s[1][1], s[1][2]) \o RowsOf(Tail(s))
<1>. DEFINE R(x) == Live!Row(x[1], x[2])
            M(s) == [k \in DOMAIN s |-> R(s[k])]
<1>1. \A x \in Sent : R(x) \in Seq(Cells)
  BY RowIs DEF Sent
<1>2. \A s : RowsOf(s) = FlattenSeq(M(s))
  BY DEF RowsOf
<1>. HIDE DEF R
<1>3. ASSUME NEW s \in Seq(Sent) PROVE M(s) \in Seq(Seq(Cells)) /\ Len(M(s)) = Len(s)
  <2>1. DOMAIN s = 1 .. Len(s) /\ Len(s) \in Nat
    OBVIOUS
  <2>2. \A k \in 1 .. Len(s) : R(s[k]) \in Seq(Cells)
    <3>1. \A k \in 1 .. Len(s) : s[k] \in Sent
      OBVIOUS
    <3>. QED BY <1>1, <3>1
  <2>3. M(s) = [k \in 1 .. Len(s) |-> R(s[k])]
    BY <2>1
  <2>. HIDE DEF M
  <2>. QED BY <2>1, <2>2, <2>3
<1>4. RowsOf(<<>>) = <<>>
  <2>1. M(<<>>) = <<>>
    OBVIOUS
  <2>. QED BY <1>2, <2>1 DEF FlattenSeq
<1>5. ASSUME NEW s \in Seq(Sent), NEW t \in Seq(Sent)
      PROVE  RowsOf(s \o t) = RowsOf(s) \o RowsOf(t)
  <2>1. M(s \o t) = M(s) \o M(t)
    <3>1. s \o t \in Seq(Sent) /\ Len(s \o t) = Len(s) + Len(t) /\ Len(s) \in Nat /\ Len(t) \in Nat
      OBVIOUS
    <3>2. /\ M(s \o t) \in Seq(Seq(Cells)) /\ M(s) \o M(t) \in Seq(Seq(Cells))
          /\ Len(M(s \o t)) = Len(s) + Len(t) /\ Len(M(s) \o M(t)) = Len(s) + Len(t)
      <4>1. /\ M(s) \in Seq(Seq(Cells)) /\ M(t) \in Seq(Seq(Cells))
            /\ M(s \o t) \in Seq(Seq(Cells))
            /\ Len(M(s)) = Len(s) /\ Len(M(t)) = Len(t) /\ Len(M(s \o t)) = Len(s \o t)
        BY <1>3, <3>1
      <4>. HIDE DEF M
      <4>. DEFINE a == M(s)
                  b == M(t)
                  E == Seq(Cells)
      <4>2. a \in Seq(E) /\ b \in Seq(E)
        BY <4>1
      <4>. HIDE DEF a, b, E
      <4>3. a \o b \in Seq(E) /\ Len(a \o b) = Len(a) + Len(b)
        BY <4>2, ConcatProperties
      <4>. QED BY <3>1, <4>1, <4>3 DEF a, b, E
    <3>3. ASSUME NEW i \in 1 .. Len(s) + Len(t) PROVE M(s \o t)[i] = (M(s) \o M(t))[i]
      <4>1. M(s \o t)[i] = R((s \o t)[i])
        BY <3>1
      <4>2. CASE i <= Len(s)
        BY <1>3, <3>1, <4>1, <4>2
      <4>3. CASE i > Len(s)
        BY <1>3, <3>1, <4>1, <4>3
      <4>. QED BY <3>1, <4>2, <4>3
    <3>. QED BY <3>2, <3>3, SeqEqual
  <2>2. M(s) \in Seq(Seq(Cells)) /\ M(t) \in Seq(Seq(Cells))
    BY <1>3
  <2>. HIDE DEF M
  <2>. QED BY <1>2, <2>1, <2>2, FlattenConcat
<1>6. ASSUME NEW s \in Seq(Sent) PROVE RowsOf(s) \in Seq(Cells)
  <2>1. M(s) \in Seq(Seq(Cells))
    BY <1>3
  <2>. HIDE DEF M
  <2>. QED BY <1>2, <2>1, FlattenElements
<1>7. ASSUME NEW s \in Seq(Sent), s # <<>>
      PROVE  /\ s[1][1] \in Packages /\ s[1][2] \in Nat /\ Tail(s) \in Seq(Sent)
             /\ RowsOf(s) = Live!Row(s[1][1], s[1][2]) \o RowsOf(Tail(s))
  <2>1. s[1] \in Sent /\ Tail(s) \in Seq(Sent) /\ <<s[1]>> \in Seq(Sent)
        /\ s = <<s[1]>> \o Tail(s)
    BY <1>7
  <2>2. RowsOf(<<s[1]>>) = R(s[1])
    <3>1. M(<<s[1]>>) = <<R(s[1])>>
      OBVIOUS
    <3>2. R(s[1]) \in Seq(Cells)
      BY <1>1, <2>1
    <3>3. <<R(s[1])>> = Append(<<>>, R(s[1])) /\ <<>> \in Seq(Seq(Cells))
      OBVIOUS
    <3>4. FlattenSeq(<<R(s[1])>>) = FlattenSeq(<<>>) \o R(s[1])
      BY <3>2, <3>3, FlattenAppend
    <3>5. FlattenSeq(<<>>) = <<>>
      BY DEF FlattenSeq
    <3>6. <<>> \o R(s[1]) = R(s[1])
      BY <3>2, ConcatEmptySeq
    <3>. QED BY <1>2, <3>1, <3>4, <3>5, <3>6
  <2>3. RowsOf(s) = RowsOf(<<s[1]>>) \o RowsOf(Tail(s))
    BY <1>5, <2>1
  <2>. QED BY <2>1, <2>2, <2>3 DEF R, Sent
<1>. QED BY <1>4, <1>5, <1>6, <1>7

(* A row fits in the buffer of the reader. *)
LEMMA WidthCovers == Live!Width \in Nat /\ \A p \in Packages : Fields[p] <= Live!Width
<1>1. Live!Width = SumOf(Fields)
  BY DEF Live!Width, SumOf, FoldLeft, Live!FoldLeft, MapThenFoldSet, Live!MapThenFoldSet,
         Max, Live!Max
<1>2. Fields \in Seq(Nat) /\ Packages = 1 .. Len(Fields)
  BY PlotAssumption DEF Packages
<1>. QED BY <1>1, <1>2, SumCovers

-----------------------------------------------------------------------------
LiveShape ==
    /\ todo \in Seq(Cells) /\ held \in Seq(Cells) /\ fifo \in Seq(Cells)
    /\ sent \in Seq(Sent)
    /\ DOMAIN reader = {"at", "count", "index", "a", "b", "buffer", "name"}
    /\ reader.count \in Nat /\ reader.index \in Nat
    /\ DOMAIN reader.buffer = 1 .. Live!Width
    /\ poll \in Nat /\ plots \in {0, 1}

(* What is under way: the rest of the header or of the row that is read,   *)
(* and the rows after it.                                                  *)
Stream == (fifo \o held) \o todo
InHeader ==
    \E j \in 0 .. Len(Live!Header) - 1 :
        /\ reader.count = LinesIn(j)
        /\ Stream = Rest(Live!Header, j) \o RowsOf(sent)
InRows ==
    /\ reader.count = 12
    /\ sent = <<>> => Stream = <<>> /\ reader.index = 0
    /\ sent # <<>> =>
          LET row == Live!Row(sent[1][1], sent[1][2])
          IN  /\ reader.index \in 0 .. Len(row) - 1
              /\ Stream = Rest(row, reader.index) \o RowsOf(Tail(sent))
              /\ \A j \in 1 .. reader.index : reader.buffer[j] = row[j]
Reading == reader.at = "read" => InHeader \/ InRows

(* Only one plot is started, and nothing is printed before.                *)
Idle ==
    /\ at \in {"events", "body"} => todo = <<>>
    /\ plots = 0 => fifo = <<>> /\ held = <<>> /\ ~graph /\ at # "header"

(* While rows are printed the plot is there, unless its user closed it.    *)
Awake == Live!IsOpen \/ byUser
Alive ==
    /\ at = "header" => Awake
    /\ at \in {"body", "print"} => loop /\ realOn
    /\ loop /\ realOn /\ graph => Awake
    /\ at = "print" /\ ~graph => todo = <<>>
    /\ at \in {"header", "print", "events", "body", "dead"}

LiveInductive == LiveShape /\ Reading /\ Idle /\ Alive

(* What does not touch the reader may move cells along.                    *)
LEMMA StillReading ==
    ASSUME Reading, Stream' = Stream, UNCHANGED <<reader, sent>> PROVE Reading'
<1>1. CASE InHeader
  BY <1>1 DEF InHeader, Reading
<1>2. CASE InRows
  BY <1>2 DEF InRows, Reading
<1>3. CASE reader.at # "read"
  BY <1>3 DEF Reading
<1>. QED BY <1>1, <1>2, <1>3 DEF Reading

LEMMA Moved ==
    \A f, h, x, y \in Seq(Cells) : (f \o (h \o x)) \o y = (f \o h) \o (x \o y)
<1>1. SUFFICES ASSUME NEW f \in Seq(Cells), NEW h \in Seq(Cells), NEW x \in Seq(Cells),
                      NEW y \in Seq(Cells)
               PROVE  (f \o (h \o x)) \o y = (f \o h) \o (x \o y)
  OBVIOUS
<1>2. f \o h \in Seq(Cells)
  OBVIOUS
<1>3. f \o (h \o x) = (f \o h) \o x
  BY ConcatAssociative
<1>4. ((f \o h) \o x) \o y = (f \o h) \o (x \o y)
  BY <1>2, ConcatAssociative
<1>. QED BY <1>3, <1>4

LEMMA FprintfKeeps == ASSUME LiveInductive, Live!Fprintf PROVE LiveInductive'
<1>1. /\ Live!Printing /\ held' = Append(held, Head(todo)) /\ todo' = Tail(todo)
      /\ UNCHANGED <<at, loop, window, realOn, graph, poll, fifo, reader, point, sent,
                     plots, byUser>>
  BY DEF Live!Fprintf
<1>2. todo \in Seq(Cells) /\ held \in Seq(Cells) /\ fifo \in Seq(Cells) /\ todo # <<>>
  BY <1>1 DEF Live!Printing, LiveInductive, LiveShape
<1>3. /\ Head(todo) \in Cells /\ Tail(todo) \in Seq(Cells)
      /\ held' = held \o <<Head(todo)>> /\ todo = <<Head(todo)>> \o Tail(todo)
      /\ held' \in Seq(Cells) /\ <<Head(todo)>> \in Seq(Cells)
  <2>1. Head(todo) \in Cells /\ Tail(todo) \in Seq(Cells)
    BY <1>2
  <2>2. <<Head(todo)>> \in Seq(Cells) /\ todo = <<Head(todo)>> \o Tail(todo)
    BY <1>2, <2>1
  <2>3. Append(held, Head(todo)) = held \o <<Head(todo)>> /\ Append(held, Head(todo)) \in Seq(Cells)
    BY <1>2, <2>1, AppendIsConcat
  <2>. QED BY <1>1, <2>1, <2>2, <2>3
<1>4. Stream' = Stream
  <2>. DEFINE x == <<Head(todo)>>
              y == Tail(todo)
  <2>1. x \in Seq(Cells) /\ y \in Seq(Cells) /\ todo = x \o y /\ held' = held \o x /\ todo' = y
    BY <1>1, <1>3
  <2>2. Stream' = (fifo \o (held \o x)) \o y
    BY <1>1, <2>1 DEF Stream
  <2>3. Stream = (fifo \o held) \o (x \o y)
    BY <2>1 DEF Stream
  <2>. HIDE DEF x, y
  <2>4. x \in Seq(Cells) /\ y \in Seq(Cells)
    BY <2>1
  <2>5. fifo \in Seq(Cells) /\ held \in Seq(Cells)
    BY <1>2
  <2>6. (fifo \o (held \o x)) \o y = (fifo \o held) \o (x \o y)
    BY <2>4, <2>5, Moved
  <2>. QED BY <2>2, <2>3, <2>6, Zenon
<1>5. Reading'
  BY <1>1, <1>4, StillReading DEF LiveInductive
<1>6. LiveShape'
  BY <1>1, <1>3 DEF LiveInductive, LiveShape
<1>7. Idle'
  BY <1>1 DEF LiveInductive, LiveShape, Idle, Alive, Live!Printing
<1>8. Alive'
  BY <1>1, <1>2 DEF LiveInductive, Alive, Awake, Live!IsOpen, Live!Printing
<1>. QED BY <1>5, <1>6, <1>7, <1>8 DEF LiveInductive

LEMMA WriteKeeps ==
    ASSUME LiveInductive, Live!Write PROVE LiveInductive' /\ (at' = "dead" => byUser)
<1>1. /\ Live!Printing
      /\ UNCHANGED <<loop, window, realOn, graph, poll, todo, reader, point, sent, plots, byUser>>
      /\ \/ Live!IsOpen /\ fifo' = fifo \o held /\ held' = <<>> /\ UNCHANGED at
         \/ ~Live!IsOpen /\ at' = "dead" /\ UNCHANGED <<fifo, held>>
  BY DEF Live!Write
<1>2. todo \in Seq(Cells) /\ held \in Seq(Cells) /\ fifo \in Seq(Cells) /\ todo # <<>>
  BY <1>1 DEF Live!Printing, LiveInductive, LiveShape
<1>3. Stream' = Stream
  <2>1. fifo \o held \in Seq(Cells) /\ (fifo \o held) \o <<>> = fifo \o held
    BY <1>2
  <2>. QED BY <1>1, <2>1 DEF Stream
<1>4. Reading'
  BY <1>1, <1>3, StillReading DEF LiveInductive
<1>5. LiveShape'
  <2>1. fifo \o held \in Seq(Cells) /\ <<>> \in Seq(Cells)
    BY <1>2
  <2>2. fifo' \in Seq(Cells) /\ held' \in Seq(Cells)
    BY <1>1, <1>2, <2>1
  <2>. QED BY <1>1, <2>2 DEF LiveInductive, LiveShape
<1>6. Awake
  BY <1>1, <1>2 DEF LiveInductive, Alive, Live!Printing
<1>7. Alive' /\ (at' = "dead" => byUser)
  BY <1>1, <1>2, <1>6 DEF LiveInductive, Alive, Awake, Live!IsOpen, Live!Printing
<1>8. Idle'
  <2>1. plots # 0
    BY <1>1, <1>2, <1>6 DEF LiveInductive, Idle, Alive, Live!Printing
  <2>. QED BY <1>1, <1>2, <2>1 DEF Idle, Live!Printing
<1>. QED BY <1>4, <1>5, <1>7, <1>8 DEF LiveInductive

(* What prints nothing.                                                    *)
LEMMA QuietKeeps ==
    ASSUME LiveInductive,
           Live!Printed \/ Live!LoopOrBreak \/ Live!Okay \/ Live!PackanaStop \/ Live!PackanOk
    PROVE  LiveInductive' /\ at' # "dead"
<1>1. /\ UNCHANGED <<poll, todo, held, fifo, reader, point, sent, plots, byUser>>
      /\ at # "dead" => at' \in {"events", "body"}
  BY DEF Live!Printed, Live!LoopOrBreak, Live!Okay, Live!PackanaStop, Live!PackanOk
<1>2. LiveShape'
  BY <1>1 DEF LiveInductive, LiveShape
<1>3. Reading'
  BY <1>1, StillReading DEF LiveInductive, Stream
<1>4. Idle' /\ Alive' /\ at' # "dead"
  <2>1. CASE Live!Printed
    <3>1. /\ at \in {"print", "header"} /\ todo = <<>> /\ at' = "events"
          /\ graph' = (graph \/ at = "header")
          /\ UNCHANGED <<loop, realOn, todo, held, fifo, plots, reader, byUser>>
      BY <2>1 DEF Live!Printed
    <3>2. plots = 0 => at # "header" /\ ~graph /\ fifo = <<>> /\ held = <<>>
      BY DEF LiveInductive, Idle
    <3>3. Idle'
      BY <3>1, <3>2, Zenon DEF Idle
    <3>4. (loop /\ realOn /\ graph') => Awake
      BY <3>1, Zenon DEF LiveInductive, Alive
    <3>5. Awake' = Awake
      BY <3>1 DEF Awake, Live!IsOpen
    <3>6. Alive'
      BY <3>1, <3>4, <3>5 DEF Alive
    <3>. QED BY <3>1, <3>3, <3>6
  <2>2. CASE Live!LoopOrBreak
    BY <1>1, <2>2 DEF LiveInductive, Idle, Alive, Awake, Live!IsOpen, Live!LoopOrBreak
  <2>3. CASE Live!Okay
    BY <1>1, <2>3 DEF LiveInductive, Idle, Alive, Awake, Live!IsOpen, Live!Okay
  <2>4. CASE Live!PackanaStop
    BY <1>1, <2>4 DEF LiveInductive, Idle, Alive, Awake, Live!IsOpen, Live!PackanaStop
  <2>5. CASE Live!PackanOk
    BY <1>1, <2>5 DEF LiveInductive, Idle, Alive, Awake, Live!IsOpen, Live!PackanOk
  <2>. QED BY <2>1, <2>2, <2>3, <2>4, <2>5
<1>. QED BY <1>2, <1>3, <1>4 DEF LiveInductive

LEMMA Regroup ==
    \A f, g, h \in Seq(Cells) : (f \o g) \o h = f \o (g \o h) /\ f \o g \in Seq(Cells)
  BY ConcatAssociative

(* A turn adds the rows of the packages that were answered.                *)
LEMMA TurnKeeps == ASSUME LiveInductive, Live!Turn PROVE LiveInductive' /\ at' # "dead"
<1>1. PICK ps \in Live!Answers :
          /\ todo' = IF graph THEN Live!FlattenSeq([k \in DOMAIN ps |-> Live!Row(ps[k], poll)])
                     ELSE <<>>
          /\ sent' = IF graph THEN sent \o [k \in DOMAIN ps |-> <<ps[k], poll>>] ELSE sent
  BY DEF Live!Turn
<1>2. /\ at = "body" /\ at' = "print"
      /\ poll' = IF graph THEN (poll + 1) % Polls ELSE poll
      /\ UNCHANGED <<loop, window, realOn, graph, held, fifo, reader, point, plots, byUser>>
  BY DEF Live!Turn
<1>3. todo = <<>> /\ loop /\ realOn /\ poll \in Nat /\ sent \in Seq(Sent)
      /\ fifo \in Seq(Cells) /\ held \in Seq(Cells)
  BY <1>2 DEF LiveInductive, LiveShape, Idle, Alive
<1>. DEFINE new == [k \in DOMAIN ps |-> <<ps[k], poll>>]
<1>4. new \in Seq(Sent) /\ DOMAIN new = DOMAIN ps
  <2>1. PICK n \in 0 .. Len(Fields) : ps \in [1 .. n -> Packages]
    BY DEF Live!Answers, Live!Packages, Packages
  <2>2. n \in Nat
    BY PlotAssumption
  <2>. QED BY <1>3, <2>1, <2>2 DEF Sent
<1>5. RowsOf(new) = FlattenSeq([k \in DOMAIN ps |-> Live!Row(ps[k], poll)])
  <2>1. [k \in DOMAIN new |-> Live!Row(new[k][1], new[k][2])]
          = [k \in DOMAIN ps |-> Live!Row(ps[k], poll)]
    OBVIOUS
  <2>. QED BY <2>1 DEF RowsOf
<1>. HIDE DEF new
<1>6. CASE ~graph
  <2>1. todo' = todo /\ sent' = sent /\ poll' = poll
    BY <1>1, <1>2, <1>3, <1>6
  <2>2. LiveShape'
    BY <1>2, <2>1 DEF LiveInductive, LiveShape
  <2>3. Stream' = Stream
    BY <1>2, <2>1 DEF Stream
  <2>4. Reading'
    BY <1>2, <2>1, <2>3, StillReading DEF LiveInductive
  <2>5. Idle' /\ Alive'
    BY <1>2, <1>3, <1>6, <2>1 DEF LiveInductive, Idle, Alive, Awake, Live!IsOpen
  <2>. QED BY <1>2, <2>2, <2>4, <2>5 DEF LiveInductive
<1>7. CASE graph
  <2>1. todo' = RowsOf(new) /\ sent' = sent \o new
    BY <1>1, <1>5, <1>7, SameFlatten DEF new
  <2>2. RowsOf(new) \in Seq(Cells) /\ sent \o new \in Seq(Sent)
    BY <1>3, <1>4, RowsOfIs
  <2>3. poll' \in Nat
    BY <1>2, <1>3, PlotAssumption
  <2>4. LiveShape'
    BY <1>2, <2>1, <2>2, <2>3 DEF LiveInductive, LiveShape
  <2>5. Stream = fifo \o held /\ fifo \o held \in Seq(Cells)
    BY <1>3 DEF Stream
  <2>6. Stream' = Stream \o RowsOf(new)
    BY <1>2, <2>1, <2>5 DEF Stream
  <2>7. RowsOf(sent') = RowsOf(sent) \o RowsOf(new) /\ RowsOf(sent) \in Seq(Cells)
    BY <1>3, <1>4, <2>1, RowsOfIs
  <2>8. ASSUME reader.at = "read", InHeader PROVE Reading'
    <3>1. PICK j \in 0 .. Len(Live!Header) - 1 :
             reader.count = LinesIn(j) /\ Stream = Rest(Live!Header, j) \o RowsOf(sent)
      BY <2>8 DEF InHeader
    <3>2. Rest(Live!Header, j) \in Seq(Cells)
      <4>1. Live!Header \in Seq(Cells) /\ j \in 0 .. Len(Live!Header)
        BY HeaderLinesEnd
      <4>. QED BY <4>1, RestIs
    <3>3. (Rest(Live!Header, j) \o RowsOf(sent)) \o RowsOf(new)
             = Rest(Live!Header, j) \o (RowsOf(sent) \o RowsOf(new))
      BY <2>2, <2>7, <3>2, Regroup
    <3>4. Stream' = Rest(Live!Header, j) \o RowsOf(sent')
      BY <2>6, <2>7, <3>1, <3>3
    <3>5. InHeader'
      BY <1>2, <3>1, <3>4 DEF InHeader
    <3>. QED BY <3>5 DEF Reading
  <2>9. ASSUME reader.at = "read", InRows, sent # <<>> PROVE Reading'
    <3>. DEFINE row == Live!Row(sent[1][1], sent[1][2])
    <3>1. /\ reader.count = 12 /\ reader.index \in 0 .. Len(row) - 1
          /\ Stream = Rest(row, reader.index) \o RowsOf(Tail(sent))
          /\ \A j \in 1 .. reader.index : reader.buffer[j] = row[j]
      BY <2>9 DEF InRows
    <3>2. /\ sent' # <<>> /\ sent'[1] = sent[1] /\ Tail(sent') = Tail(sent) \o new
          /\ Tail(sent) \in Seq(Sent)
      <4>1. Len(sent) \in Nat \ {0}
        BY <1>3, <2>9
      <4>. QED BY <1>3, <1>4, <2>1, <2>9, <4>1, FrontOfTwo
    <3>3. row \in Seq(Cells)
      BY <1>3, <2>9, RowsOfIs, RowIs
    <3>4. Rest(row, reader.index) \in Seq(Cells)
      <4>1. reader.index \in 0 .. Len(row)
        BY <3>1, <3>3
      <4>. QED BY <3>3, <4>1, RestIs
    <3>5. RowsOf(Tail(sent')) = RowsOf(Tail(sent)) \o RowsOf(new)
          /\ RowsOf(Tail(sent)) \in Seq(Cells)
      BY <1>4, <3>2, RowsOfIs
    <3>6. (Rest(row, reader.index) \o RowsOf(Tail(sent))) \o RowsOf(new)
             = Rest(row, reader.index) \o (RowsOf(Tail(sent)) \o RowsOf(new))
      BY <2>2, <3>4, <3>5, Regroup
    <3>7. Stream' = Rest(row, reader.index) \o RowsOf(Tail(sent'))
      BY <2>6, <3>1, <3>5, <3>6
    <3>8. row = Live!Row(sent'[1][1], sent'[1][2])
      BY <3>2
    <3>9. InRows'
      <4>. HIDE DEF row
      <4>. QED BY <1>2, <3>1, <3>2, <3>7, <3>8 DEF InRows
    <3>. QED BY <3>9 DEF Reading
  <2>10. ASSUME reader.at = "read", InRows, sent = <<>> PROVE Reading'
    <3>1. Stream = <<>> /\ reader.index = 0 /\ reader.count = 12
      BY <2>10 DEF InRows
    <3>2. sent' = new /\ Stream' = RowsOf(new)
      BY <1>4, <2>1, <2>2, <2>6, <2>10, <3>1, ConcatEmptySeq
    <3>3. CASE new = <<>>
      <4>1. InRows'
        BY <1>2, <3>1, <3>2, <3>3, RowsOfIs DEF InRows
      <4>. QED BY <4>1 DEF Reading
    <3>4. CASE new # <<>>
      <4>. DEFINE row == Live!Row(new[1][1], new[1][2])
      <4>1. /\ new[1][1] \in Packages /\ new[1][2] \in Nat
            /\ RowsOf(new) = row \o RowsOf(Tail(new))
        BY <1>4, <3>4, RowsOfIs
      <4>2. row \in Seq(Cells) /\ Len(row) \in Nat /\ Len(row) # 0
        <5>1. Fields[new[1][1]] \in Nat
          BY <4>1, PlotAssumption DEF Packages
        <5>2. row \in Seq(Cells) /\ Len(row) = Fields[new[1][1]] + 1
          BY <4>1, RowIs
        <5>. QED BY <5>1, <5>2
      <4>. HIDE DEF row
      <4>3. Rest(row, 0) = row /\ 0 \in 0 .. Len(row) - 1 /\ 1 .. 0 = {}
        BY <4>2, RestIs
      <4>4. InRows'
        BY <1>2, <3>1, <3>2, <3>4, <4>1, <4>3 DEF InRows, row
      <4>. QED BY <4>4 DEF Reading
    <3>. QED BY <3>3, <3>4
  <2>11. ASSUME reader.at # "read" PROVE Reading'
    BY <1>2, <2>11 DEF Reading
  <2>12. Reading'
    BY <2>8, <2>9, <2>10, <2>11 DEF LiveInductive, Reading
  <2>13. Idle' /\ Alive'
    BY <1>2, <1>3, <1>7 DEF LiveInductive, Idle, Alive, Awake, Live!IsOpen
  <2>. QED BY <1>2, <2>4, <2>12, <2>13 DEF LiveInductive
<1>. QED BY <1>6, <1>7

LEMMA RtgraphKeeps ==
    ASSUME LiveInductive, NEW g, Live!Rtgraph(g) PROVE LiveInductive' /\ at' # "dead"
<1>1. /\ at = "events" /\ window /\ plots < 1 /\ ~Live!IsOpen
      /\ reader' = [Live!NoReader("read") EXCEPT
                       !.buffer = [k \in 1 .. Live!Width |-> Live!Cell(g, 0, 0, 0)]]
      /\ plots' = plots + 1
      /\ held' = <<>> /\ todo' = Live!Header /\ sent' = <<>> /\ at' = "header"
      /\ UNCHANGED <<loop, window, realOn, graph, poll, fifo, point, byUser>>
  BY DEF Live!Rtgraph
<1>2. plots = 0 /\ plots' = 1
  BY <1>1 DEF LiveInductive, LiveShape
<1>3. fifo' = <<>>
  BY <1>1, <1>2 DEF LiveInductive, Idle
<1>4. /\ DOMAIN reader' = {"at", "count", "index", "a", "b", "buffer", "name"}
      /\ reader'.at = "read" /\ reader'.count = 0 /\ reader'.index = 0
      /\ DOMAIN reader'.buffer = 1 .. Live!Width
  BY <1>1 DEF Live!NoReader
<1>5. Live!Header \in Seq(Cells) /\ 0 \in 0 .. Len(Live!Header) - 1 /\ LinesIn(0) = 0
  <2>1. Names \in Nat /\ Units \in Nat
    BY LineIsText DEF Names, Units
  <2>. QED BY <2>1, HeaderLinesEnd
<1>6. LiveShape'
  BY <1>1, <1>2, <1>3, <1>4, <1>5 DEF LiveInductive, LiveShape
<1>7. Stream' = Rest(Live!Header, 0) \o RowsOf(sent')
  <2>1. RowsOf(sent') = <<>>
    BY <1>1, RowsOfIs
  <2>2. Rest(Live!Header, 0) = Live!Header /\ Live!Header \o <<>> = Live!Header
        /\ (<<>> \o <<>>) \o Live!Header = Live!Header
    BY <1>5, RestIs, ConcatEmptySeq
  <2>. QED BY <1>1, <1>3, <2>1, <2>2 DEF Stream
<1>8. InHeader'
  BY <1>4, <1>5, <1>7 DEF InHeader
<1>9. Reading'
  BY <1>8 DEF Reading
<1>10. Idle' /\ Alive'
  BY <1>1, <1>2, <1>4 DEF Idle, Alive, Awake, Live!IsOpen
<1>. QED BY <1>1, <1>6, <1>9, <1>10 DEF LiveInductive

LEMMA CloseKeeps ==
    ASSUME LiveInductive, Live!WindowClose \/ Live!ClosePlot
    PROVE  LiveInductive' /\ (at' = "dead" => at = "dead")
<1>1. /\ UNCHANGED <<at, loop, graph, poll, todo, held, fifo, point, sent, plots>>
      /\ reader' = Live!Slain
  BY DEF Live!WindowClose, Live!ClosePlot, Live!client
<1>2. /\ DOMAIN reader' = {"at", "count", "index", "a", "b", "buffer", "name"}
      /\ reader'.count \in Nat /\ reader'.index \in Nat
      /\ DOMAIN reader'.buffer = 1 .. Live!Width
      /\ reader'.at # "read"
  <2>1. CASE Live!IsOpen
    BY <1>1, <2>1 DEF Live!Slain, Live!NoReader
  <2>2. CASE ~Live!IsOpen
    BY <1>1, <2>2 DEF Live!Slain, Live!IsOpen, LiveInductive, LiveShape
  <2>. QED BY <2>1, <2>2
<1>3. LiveShape'
  BY <1>1, <1>2 DEF LiveInductive, LiveShape
<1>4. Reading'
  BY <1>2 DEF Reading
<1>5. Idle'
  BY <1>1 DEF LiveInductive, Idle
<1>6. Alive'
  <2>1. CASE Live!WindowClose
    BY <1>1, <2>1 DEF LiveInductive, Alive, Live!WindowClose
  <2>2. CASE Live!ClosePlot
    BY <1>1, <2>2 DEF LiveInductive, Alive, Awake, Live!ClosePlot, Live!client
  <2>. QED BY <2>1, <2>2
<1>. QED BY <1>1, <1>3, <1>4, <1>5, <1>6 DEF LiveInductive

-----------------------------------------------------------------------------
(* The reader takes the first cell under way.                              *)
LEMMA ReadTakesFirst ==
    ASSUME LiveShape, Live!ReadCell
    PROVE  /\ Stream # <<>> /\ Head(fifo) = Head(Stream) /\ Stream' = Tail(Stream)
           /\ fifo' \in Seq(Cells) /\ Head(fifo) \in Cells
<1>1. /\ fifo \in Seq(Cells) /\ held \in Seq(Cells) /\ todo \in Seq(Cells) /\ fifo # <<>>
      /\ fifo' = Tail(fifo) /\ UNCHANGED <<held, todo>>
  BY DEF LiveShape, Live!ReadCell, Live!client
<1>2. Tail(fifo) \in Seq(Cells) /\ Head(fifo) \in Cells
  BY <1>1
<1>3. /\ fifo \o held \in Seq(Cells) /\ fifo \o held # <<>>
      /\ Head(fifo \o held) = Head(fifo) /\ Tail(fifo \o held) = Tail(fifo) \o held
  BY <1>1, FrontOfTwo, Regroup
<1>4. /\ (fifo \o held) \o todo # <<>> /\ Head((fifo \o held) \o todo) = Head(fifo)
      /\ Tail((fifo \o held) \o todo) = (Tail(fifo) \o held) \o todo
  <2>. DEFINE s == fifo \o held
  <2>1. s \in Seq(Cells) /\ s # <<>> /\ Head(s) = Head(fifo) /\ Tail(s) = Tail(fifo) \o held
    BY <1>3
  <2>. HIDE DEF s
  <2>2. s \o todo # <<>> /\ Head(s \o todo) = Head(s) /\ Tail(s \o todo) = Tail(s) \o todo
    BY <1>1, <2>1, FrontOfTwo
  <2>. QED BY <2>1, <2>2 DEF s
<1>. QED BY <1>1, <1>2, <1>4 DEF Stream

(* ... which is the next of the header or of a row.                        *)
LEMMA TakenFromFront ==
    ASSUME NEW s \in Seq(Cells), NEW t \in Seq(Cells), NEW j \in 0 .. Len(s) - 1,
           Stream = Rest(s, j) \o t, Stream # <<>>
    PROVE  Head(Stream) = s[j + 1] /\ Tail(Stream) = Rest(s, j + 1) \o t
<1>1. /\ Rest(s, j) \in Seq(Cells) /\ Rest(s, j) # <<>>
      /\ Head(Rest(s, j)) = s[j + 1] /\ Tail(Rest(s, j)) = Rest(s, j + 1)
  BY RestIs
<1>. DEFINE r == Rest(s, j)
<1>2. r \in Seq(Cells) /\ r # <<>> /\ Head(r) = s[j + 1] /\ Tail(r) = Rest(s, j + 1)
  BY <1>1
<1>. HIDE DEF r
<1>3. Head(r \o t) = Head(r) /\ Tail(r \o t) = Tail(r) \o t
  BY <1>2, FrontOfTwo
<1>. QED BY <1>2, <1>3 DEF r

(* With the last line of the header read the rows begin; a row read is     *)
(* followed by the next.                                                   *)
LEMMA RowsBegin ==
    ASSUME NEW s \in Seq(Sent)
    PROVE  IF s = <<>> THEN RowsOf(s) = <<>>
           ELSE LET row == Live!Row(s[1][1], s[1][2])
                IN  /\ row \in Seq(Cells) /\ 0 \in 0 .. Len(row) - 1
                    /\ RowsOf(s) = Rest(row, 0) \o RowsOf(Tail(s))
<1>1. CASE s = <<>>
  BY <1>1, RowsOfIs
<1>2. CASE s # <<>>
  <2>. DEFINE row == Live!Row(s[1][1], s[1][2])
              p == s[1][1]
              n == s[1][2]
  <2>1. p \in Packages /\ n \in Nat /\ RowsOf(s) = row \o RowsOf(Tail(s))
    BY <1>2, RowsOfIs
  <2>2. row \in Seq(Cells) /\ Len(row) = Fields[p] + 1 /\ Fields[p] \in Nat
    <3>1. Fields[p] \in Nat
      BY <2>1, PlotAssumption DEF Packages
    <3>2. row = Live!Row(p, n)
      OBVIOUS
    <3>. HIDE DEF row, p, n
    <3>. QED BY <2>1, <3>1, <3>2, RowIs
  <2>. HIDE DEF row, p, n
  <2>3. Rest(row, 0) = row /\ 0 \in 0 .. Len(row) - 1
    BY <2>2, RestIs
  <2>. QED BY <1>2, <2>1, <2>2, <2>3 DEF row
<1>. QED BY <1>1, <1>2

LEMMA HeaderRead ==
    ASSUME LiveInductive, Live!ReadCell, InHeader
    PROVE  LiveShape' /\ Reading' /\ UNCHANGED point
<1>1. PICK j \in 0 .. Len(Live!Header) - 1 :
          reader.count = LinesIn(j) /\ Stream = Rest(Live!Header, j) \o RowsOf(sent)
  BY DEF InHeader
<1>2. /\ Live!Header \in Seq(Cells) /\ sent \in Seq(Sent) /\ RowsOf(sent) \in Seq(Cells)
      /\ LinesIn(j) \in 0 .. 11
      /\ LinesIn(j + 1) =
            IF Live!Header[j + 1] = Live!NewLine THEN LinesIn(j) + 1 ELSE LinesIn(j)
  BY HeaderLinesEnd, RowsOfIs DEF LiveInductive, LiveShape
<1>3. /\ Stream # <<>> /\ Head(fifo) = Head(Stream) /\ Stream' = Tail(Stream)
      /\ fifo' \in Seq(Cells)
  BY ReadTakesFirst DEF LiveInductive
<1>4. Head(fifo) = Live!Header[j + 1] /\ Stream' = Rest(Live!Header, j + 1) \o RowsOf(sent)
  BY <1>1, <1>2, <1>3, TakenFromFront
<1>5. /\ reader.at = "read"
      /\ IF Head(fifo) = Live!NewLine THEN Live!EndLine ELSE Live!Store(Head(fifo))
      /\ UNCHANGED <<at, loop, window, realOn, graph, poll, todo, held, plots, byUser>>
  BY DEF Live!ReadCell, Live!client
<1>6. /\ DOMAIN reader = {"at", "count", "index", "a", "b", "buffer", "name"}
      /\ reader.count \in Nat /\ reader.index \in Nat /\ DOMAIN reader.buffer = 1 .. Live!Width
      /\ reader.count < 12
  <2>. DEFINE c == LinesIn(j)
  <2>1. c \in 0 .. 11 /\ reader.count = c
    BY <1>1, <1>2
  <2>2. c < 12
    <3>. HIDE DEF c
    <3>. QED BY <2>1
  <2>. HIDE DEF c
  <2>. QED BY <2>1, <2>2 DEF LiveInductive, LiveShape
<1>7. /\ DOMAIN reader' = {"at", "count", "index", "a", "b", "buffer", "name"}
      /\ DOMAIN reader'.buffer = 1 .. Live!Width
      /\ reader'.count = LinesIn(j + 1) /\ reader'.index \in Nat
      /\ Head(fifo) = Live!NewLine => reader'.index = 0
      /\ UNCHANGED <<point, sent>>
  <2>1. CASE Head(fifo) = Live!NewLine
    <3>1. Live!EndHeaderLine
      BY <1>5, <1>6, <2>1 DEF Live!EndLine, Live!HeaderLines
    <3>2. /\ reader' = [reader EXCEPT
               !.index = 0, !.count = @ + 1,
               !.name = IF reader.count = 9 THEN Live!Shifted(reader.buffer)[1] ELSE @,
               !.buffer = IF reader.count \in {9, 10} THEN Live!Emptied(Live!Shifted(@))
                          ELSE Live!Emptied(@)]
          /\ UNCHANGED <<point, sent>>
      BY <3>1 DEF Live!EndHeaderLine
    <3>3. DOMAIN Live!Emptied(Live!Shifted(reader.buffer)) = 1 .. Live!Width
          /\ DOMAIN Live!Emptied(reader.buffer) = 1 .. Live!Width
      BY <1>6 DEF Live!Emptied, Live!Shifted
    <3>4. reader'.count = reader.count + 1 /\ reader'.index = 0
          /\ DOMAIN reader' = {"at", "count", "index", "a", "b", "buffer", "name"}
          /\ DOMAIN reader'.buffer = 1 .. Live!Width
      BY <1>6, <3>2, <3>3
    <3>. QED BY <1>1, <1>2, <1>4, <2>1, <3>2, <3>4
  <2>2. CASE Head(fifo) # Live!NewLine
    <3>1. /\ reader' = [reader EXCEPT !.buffer[reader.index + 1] = Head(fifo), !.index = @ + 1]
          /\ UNCHANGED <<point, sent>>
      BY <1>5, <2>2 DEF Live!Store
    <3>2. reader'.count = reader.count /\ reader'.index = reader.index + 1
          /\ DOMAIN reader' = {"at", "count", "index", "a", "b", "buffer", "name"}
          /\ DOMAIN reader'.buffer = 1 .. Live!Width
      BY <1>6, <3>1
    <3>. QED BY <1>1, <1>2, <1>4, <1>6, <2>2, <3>1, <3>2
  <2>. QED BY <2>1, <2>2
<1>8. reader'.count \in Nat
  BY <1>2, <1>7
<1>9. LiveShape'
  BY <1>3, <1>5, <1>7, <1>8 DEF LiveInductive, LiveShape
<1>10. CASE j + 1 \in 0 .. Len(Live!Header) - 1
  <2>1. Stream' = Rest(Live!Header, j + 1) \o RowsOf(sent')
    BY <1>4, <1>7
  <2>2. InHeader'
    BY <1>7, <1>10, <2>1 DEF InHeader
  <2>. QED BY <1>7, <1>9, <2>2 DEF Reading
<1>11. CASE j + 1 \notin 0 .. Len(Live!Header) - 1
  <2>1. j + 1 = Len(Live!Header)
    BY <1>2, <1>11
  <2>2. LinesIn(j + 1) = 12
    BY <2>1, HeaderLinesEnd
  <2>3. Live!Header[j + 1] = Live!NewLine
    BY <1>2, <2>2
  <2>4. reader'.count = 12 /\ reader'.index = 0
    BY <1>4, <1>7, <2>2, <2>3
  <2>5. Rest(Live!Header, j + 1) = <<>>
    BY <1>2, <2>1, RestIs
  <2>6. Stream' = RowsOf(sent')
    BY <1>2, <1>4, <1>7, <2>5, ConcatEmptySeq
  <2>7. InRows'
    <3>1. sent' = sent
      BY <1>7
    <3>2. CASE sent = <<>>
      BY <1>2, <2>4, <2>6, <3>1, <3>2, RowsBegin DEF InRows
    <3>3. CASE sent # <<>>
      <4>1. 1 .. 0 = {}
        OBVIOUS
      <4>. QED BY <1>2, <2>4, <2>6, <3>1, <3>3, <4>1, RowsBegin DEF InRows
    <3>. QED BY <3>2, <3>3
  <2>. QED BY <1>7, <1>9, <2>7 DEF Reading
<1>. QED BY <1>10, <1>11

(* Every row of the header has the column asked for.                       *)
ColumnInRows == \A p \in DOMAIN Fields : Column <= Fields[p]

PointOfRow ==
    point' # point =>
        /\ sent # <<>>
        /\ point'.x = Live!Cell("value", Head(sent)[1], 1, Head(sent)[2])
        /\ point'.y = Live!Cell("value", Head(sent)[1], Column, Head(sent)[2])

LEMMA RowRead ==
    ASSUME ColumnInRows, LiveInductive, Live!ReadCell, InRows
    PROVE  LiveShape' /\ Reading' /\ PointOfRow
<1>1. /\ Stream # <<>> /\ Head(fifo) = Head(Stream) /\ Stream' = Tail(Stream)
      /\ fifo' \in Seq(Cells)
  BY ReadTakesFirst DEF LiveInductive
<1>2. /\ reader.at = "read"
      /\ IF Head(fifo) = Live!NewLine THEN Live!EndLine ELSE Live!Store(Head(fifo))
      /\ UNCHANGED <<at, loop, window, realOn, graph, poll, todo, held, plots, byUser>>
  BY DEF Live!ReadCell, Live!client
<1>3. /\ DOMAIN reader = {"at", "count", "index", "a", "b", "buffer", "name"}
      /\ reader.index \in Nat /\ DOMAIN reader.buffer = 1 .. Live!Width
      /\ sent \in Seq(Sent)
  BY DEF LiveInductive, LiveShape
<1>4. sent # <<>> /\ reader.count = 12
  BY <1>1 DEF InRows
<1>. DEFINE p == sent[1][1]
            n == sent[1][2]
            row == Live!Row(p, n)
            i == reader.index
            later == RowsOf(Tail(sent))
<1>5. /\ p \in Packages /\ n \in Nat /\ Tail(sent) \in Seq(Sent) /\ later \in Seq(Cells)
  BY <1>3, <1>4, RowsOfIs
<1>6. /\ row \in Seq(Cells) /\ Len(row) = Fields[p] + 1 /\ row[Fields[p] + 1] = Live!NewLine
      /\ \A c \in 1 .. Fields[p] : row[c] = Live!Cell("value", p, c, n)
  BY <1>5, RowIs
<1>7. /\ Fields[p] \in Nat /\ Fields[p] <= Live!Width /\ Live!Width \in Nat
      /\ Column \in Nat /\ 1 <= Column /\ Column <= Fields[p]
  BY <1>5, WidthCovers, PlotAssumption DEF Packages, ColumnInRows
<1>8. /\ i \in 0 .. Len(row) - 1 /\ Stream = Rest(row, i) \o later
      /\ \A j \in 1 .. i : reader.buffer[j] = row[j]
  BY <1>4 DEF InRows
<1>9. p = Head(sent)[1] /\ n = Head(sent)[2]
  BY <1>3, <1>4
<1>10. i \in Nat /\ i <= Fields[p]
  <2>. HIDE DEF i, row, p
  <2>. QED BY <1>6, <1>7, <1>8
<1>. HIDE DEF p, n, row, i, later
<1>11. Head(fifo) = row[i + 1] /\ Stream' = Rest(row, i + 1) \o later
  BY <1>1, <1>5, <1>6, <1>8, TakenFromFront
<1>12. CASE i < Fields[p]
  <2>1. i + 1 \in 1 .. Fields[p] /\ i + 1 \in 1 .. Live!Width
    BY <1>7, <1>10, <1>12
  <2>2. Head(fifo) # Live!NewLine
    <3>. DEFINE k == i + 1
    <3>1. Head(fifo) = Live!Cell("value", p, k, n)
      BY <1>6, <1>11, <2>1
    <3>. HIDE DEF k
    <3>. QED BY <3>1 DEF Live!Cell, Live!NewLine
  <2>3. /\ reader' = [reader EXCEPT !.buffer[i + 1] = Head(fifo), !.index = i + 1]
        /\ UNCHANGED <<point, sent>>
    BY <1>2, <2>2 DEF Live!Store, i
  <2>4. /\ reader'.count = reader.count /\ reader'.index = i + 1
        /\ DOMAIN reader' = {"at", "count", "index", "a", "b", "buffer", "name"}
        /\ DOMAIN reader'.buffer = 1 .. Live!Width
        /\ reader'.buffer = [reader.buffer EXCEPT ![i + 1] = Head(fifo)]
    BY <1>3, <2>3
  <2>5. LiveShape'
    <3>1. i + 1 \in Nat
      BY <1>10
    <3>. QED BY <1>1, <1>2, <2>3, <2>4, <3>1 DEF LiveInductive, LiveShape
  <2>6. \A j \in 1 .. i + 1 : reader'.buffer[j] = row[j]
    <3>1. ASSUME NEW j \in 1 .. i + 1 PROVE reader'.buffer[j] = row[j]
      <4>1. j \in 1 .. Live!Width /\ (j # i + 1 => j \in 1 .. i)
        BY <1>7, <1>10, <2>1
      <4>. QED BY <1>3, <1>8, <1>11, <2>4, <4>1
    <3>. QED BY <3>1
  <2>7. i + 1 \in 0 .. Len(row) - 1
    BY <1>6, <1>7, <1>10, <1>12
  <2>8. InRows'
    <3>1. sent' = sent /\ sent' # <<>> /\ reader'.count = 12
      BY <1>4, <2>3, <2>4
    <3>2. Live!Row(sent'[1][1], sent'[1][2]) = row /\ RowsOf(Tail(sent')) = later
      BY <3>1 DEF row, p, n, later
    <3>. QED BY <1>11, <2>4, <2>6, <2>7, <3>1, <3>2 DEF InRows
  <2>. QED BY <2>3, <2>5, <2>8 DEF Reading, PointOfRow
<1>13. CASE i = Fields[p]
  <2>1. Head(fifo) = Live!NewLine
    BY <1>6, <1>11, <1>13
  <2>2. Live!EndRow
    BY <1>2, <1>4, <2>1 DEF Live!EndLine, Live!HeaderLines
  <2>. DEFINE x == Live!Scan(reader.buffer[1], reader.a)
              buf == Live!Shifted(reader.buffer)
              y == Live!Scan(buf[1], reader.b)
  <2>3. x = Live!Cell("value", p, 1, n)
    <3>1. 1 \in 1 .. Fields[p] /\ 1 \in 1 .. i
      BY <1>7, <1>13
    <3>2. reader.buffer[1] = Live!Cell("value", p, 1, n)
      BY <1>6, <1>8, <3>1
    <3>. QED BY <3>2 DEF Live!Scan, Live!Cell
  <2>4. buf[1] = Live!Cell("value", p, Column, n) /\ DOMAIN buf = 1 .. Live!Width
    <3>1. Column \in 1 .. Fields[p] /\ Column \in 1 .. i /\ 1 \in 1 .. Live!Width
          /\ 1 + Column - 1 = Column /\ Column <= Live!Width
      BY <1>7, <1>13
    <3>2. reader.buffer[Column] = Live!Cell("value", p, Column, n)
      BY <1>6, <1>8, <3>1
    <3>3. buf[1] = reader.buffer[Column]
      BY <3>1 DEF Live!Shifted
    <3>. QED BY <3>2, <3>3 DEF Live!Shifted
  <2>5. y = Live!Cell("value", p, Column, n) /\ buf[1].kind # "nul"
    BY <2>4 DEF Live!Scan, Live!Cell
  <2>. HIDE DEF x, y, buf
  <2>6. /\ reader' = [reader EXCEPT !.index = 0, !.a = x, !.b = y, !.buffer = Live!Emptied(buf)]
        /\ point' = [x |-> x, y |-> y]
        /\ sent' = Tail(sent)
    BY <1>4, <2>2, <2>5 DEF Live!EndRow, Live!Plot, x, y, buf
  <2>7. /\ reader'.count = 12 /\ reader'.index = 0
        /\ DOMAIN reader' = {"at", "count", "index", "a", "b", "buffer", "name"}
        /\ DOMAIN reader'.buffer = 1 .. Live!Width
    BY <1>3, <1>4, <2>4, <2>6 DEF Live!Emptied
  <2>8. PointOfRow
    BY <1>4, <1>9, <2>3, <2>5, <2>6 DEF PointOfRow
  <2>9. LiveShape'
    BY <1>1, <1>2, <1>5, <2>6, <2>7 DEF LiveInductive, LiveShape
  <2>10. Stream' = RowsOf(sent')
    <3>1. Rest(row, i + 1) = <<>>
      <4>1. i + 1 = Len(row)
        BY <1>6, <1>13
      <4>. QED BY <1>6, <4>1, RestIs
    <3>2. <<>> \o later = later
      BY <1>5, ConcatEmptySeq
    <3>. QED BY <1>11, <2>6, <3>1, <3>2 DEF later
  <2>11. InRows'
    <3>1. sent' \in Seq(Sent)
      BY <1>5, <2>6
    <3>2. CASE sent' = <<>>
      BY <2>7, <2>10, <3>2, RowsOfIs DEF InRows
    <3>3. CASE sent' # <<>>
      <4>. DEFINE next == sent'
                  new == Live!Row(next[1][1], next[1][2])
      <4>1. next \in Seq(Sent) /\ next # <<>>
        BY <3>1, <3>3
      <4>. HIDE DEF next
      <4>2. /\ 0 \in 0 .. Len(new) - 1 /\ RowsOf(next) = Rest(new, 0) \o RowsOf(Tail(next))
        BY <4>1, RowsBegin
      <4>3. 1 .. 0 = {}
        OBVIOUS
      <4>4. /\ Stream' = Rest(new, 0) \o RowsOf(Tail(next))
        BY <2>10, <4>2 DEF next
      <4>. QED BY <2>7, <3>3, <4>2, <4>3, <4>4 DEF InRows, next
    <3>. QED BY <3>2, <3>3
  <2>. QED BY <2>8, <2>9, <2>11 DEF Reading
<1>. QED BY <1>7, <1>10, <1>12, <1>13

LEMMA ReadKeeps ==
    ASSUME ColumnInRows, LiveInductive, Live!ReadCell
    PROVE  LiveInductive' /\ PointOfRow /\ (at' = "dead" => at = "dead")
<1>1. /\ reader.at = "read" /\ fifo # <<>>
      /\ UNCHANGED <<at, loop, window, realOn, graph, poll, todo, held, plots, byUser>>
      /\ IF Head(fifo) = Live!NewLine THEN Live!EndLine ELSE Live!Store(Head(fifo))
  BY DEF Live!ReadCell, Live!client
<1>2. LiveShape' /\ Reading' /\ PointOfRow
  <2>1. InHeader \/ InRows
    BY <1>1 DEF LiveInductive, Reading
  <2>. QED BY <2>1, HeaderRead, RowRead DEF PointOfRow
<1>3. Idle'
  BY <1>1 DEF LiveInductive, LiveShape, Idle
<1>4. Awake => Awake'
  <2>1. reader'.at \in {"read", "returned"}
    <3>1. DOMAIN reader = {"at", "count", "index", "a", "b", "buffer", "name"}
      BY DEF LiveInductive, LiveShape
    <3>. QED BY <1>1, <3>1 DEF Live!Store, Live!EndLine, Live!EndHeaderLine, Live!EndRow, Live!Plot
  <2>. QED BY <2>1 DEF Awake, Live!IsOpen
<1>5. Alive'
  BY <1>1, <1>4 DEF LiveInductive, Alive
<1>. QED BY <1>1, <1>2, <1>3, <1>5 DEF LiveInductive

(* For any fields, blocks and FIFO every point is of the next row printed, *)
(* and only a user who closes the plot can end the client, if every row    *)
(* has the column asked for: rtgraph and packana_post_realise_callback     *)
(* with setup of graphTrial.                                               *)
THEOREM RowsAreInOrder == ColumnInRows => (PlotSpec => RowsInOrder)
<1>1. PlotInit => LiveInductive
  <2>. SUFFICES ASSUME Live!Init PROVE LiveInductive
    BY DEF PlotInit
  <2>1. /\ at = "events" /\ loop = FALSE /\ graph = FALSE /\ poll = 0
        /\ todo = <<>> /\ held = <<>> /\ fifo = <<>> /\ sent = <<>> /\ plots = 0
        /\ reader = Live!NoReader("none")
    BY DEF Live!Init
  <2>2. /\ DOMAIN reader = {"at", "count", "index", "a", "b", "buffer", "name"}
        /\ reader.at = "none" /\ reader.count = 0 /\ reader.index = 0
        /\ DOMAIN reader.buffer = 1 .. Live!Width
    BY <2>1 DEF Live!NoReader
  <2>. QED BY <2>1, <2>2 DEF LiveInductive, LiveShape, Reading, Idle, Alive
<1>. DEFINE Right ==
        /\ PointOfRow
        /\ at' = "dead" => at = "dead" \/ byUser
<1>2. ASSUME ColumnInRows, LiveInductive, Live!Next PROVE LiveInductive' /\ Right
  <2>1. CASE Live!Fprintf
    BY <1>2, <2>1, FprintfKeeps DEF Live!Fprintf, PointOfRow
  <2>2. CASE Live!Write
    BY <1>2, <2>2, WriteKeeps DEF Live!Write, PointOfRow
  <2>3. CASE Live!Turn
    BY <1>2, <2>3, TurnKeeps DEF Live!Turn, PointOfRow
  <2>4. CASE Live!Printed \/ Live!LoopOrBreak \/ Live!Okay \/ Live!PackanaStop \/ Live!PackanOk
    <3>1. UNCHANGED point
      BY <2>4 DEF Live!Printed, Live!LoopOrBreak, Live!Okay, Live!PackanaStop, Live!PackanOk
    <3>. QED BY <1>2, <2>4, <3>1, QuietKeeps DEF PointOfRow
  <2>5. CASE Live!WindowClose \/ Live!ClosePlot
    <3>1. UNCHANGED point
      BY <2>5 DEF Live!WindowClose, Live!ClosePlot
    <3>. QED BY <1>2, <2>5, <3>1, CloseKeeps DEF PointOfRow
  <2>6. ASSUME NEW g \in Garbage, Live!Rtgraph(g) PROVE LiveInductive' /\ Right
    <3>1. UNCHANGED point
      BY <2>6 DEF Live!Rtgraph
    <3>. QED BY <1>2, <2>6, <3>1, RtgraphKeeps DEF PointOfRow
  <2>7. CASE Live!ReadCell
    BY <1>2, <2>7, ReadKeeps
  <2>. QED BY <1>2, <2>1, <2>2, <2>3, <2>4, <2>5, <2>6, <2>7
           DEF Live!Next, Live!ClientStep, Live!UserStep
<1>3. ASSUME LiveInductive, UNCHANGED liveVars PROVE LiveInductive'
  BY <1>3 DEF LiveInductive, LiveShape, Reading, InHeader, InRows, Idle, Alive, Awake, Stream,
              Live!IsOpen, liveVars
<1>4. ColumnInRows /\ LiveInductive /\ [PlotNext]_plotVars => LiveInductive'
  BY <1>2, <1>3 DEF PlotNext, plotVars
<1>5. ColumnInRows /\ LiveInductive /\ [PlotNext]_plotVars => [Right]_(Live!vars)
  BY <1>2 DEF PlotNext, plotVars, liveVars, Live!vars, Live!client
<1>7. SUFFICES ASSUME ColumnInRows PROVE PlotSpec => RowsInOrder
  OBVIOUS
<1>8. LiveInductive /\ [PlotNext]_plotVars => LiveInductive'
  BY <1>4, <1>7
<1>9. LiveInductive /\ [PlotNext]_plotVars => [Right]_(Live!vars)
  BY <1>5, <1>7
<1>10. LiveInductive /\ [PlotNext]_plotVars =>
        [/\ point' # point =>
              /\ sent # <<>>
              /\ point'.x = Live!Cell("value", Head(sent)[1], 1, Head(sent)[2])
              /\ point'.y = Live!Cell("value", Head(sent)[1], Column, Head(sent)[2])
         /\ at' = "dead" => at = "dead" \/ byUser]_(Live!vars)
  BY <1>9 DEF PointOfRow
<1>. QED BY <1>1, <1>8, <1>10, PTL DEF PlotSpec, RowsInOrder, Live!RowsInOrder
=============================================================================
