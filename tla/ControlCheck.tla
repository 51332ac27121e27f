---------------------------- MODULE ControlCheck ----------------------------
(***************************************************************************)
(* ControlCheck, an earlier graphTrial: its class graph knows neither the  *)
(* reset nor the average, and its setup() has another rule for the first   *)
(* segment.  Where a point lies is as in Graph.                            *)
(* Nothing keeps the points below the length of the array; more rows than  *)
(* that are undefined behaviour and left out: MaxRows <= ArraySize.        *)
(***************************************************************************)
EXTENDS Graph

others == <<time, act_point, sum, limits, size, redraw, ticks, prev_point, canvas, average>>

(* add_point, and what the redraw flag is then. *)
Add_Point(a, b) ==
    /\ act_point' = Append(act_point, [x |-> a, y |-> b])
    /\ limits' = Widened(a, b)
RedrawNeeded(a, b) == redraw = 1 \/ Widened(a, b) # limits

(* scale_points. *)
Scale_points(pts, lim, s) == [i \in DOMAIN pts |-> Position(pts[i], lim, s)]

(* fix_units: twelve ticks along the time, none at the axis; of the other  *)
(* axis only the halves in use. *)
Fix_units(old, lim, s) ==
    [x    |-> <<lim.max_x, s>>,
     low  |-> IF lim.low_y < 0 THEN <<lim.low_y, s>> ELSE old.low,
     high |-> IF lim.max_y > 0 THEN <<lim.max_y, s>> ELSE old.high]

(* get_points, for all points and for the last one. *)
Draw_points(pts, lim, s, asked) ==
    [points |-> Scale_points(pts, lim, s),
     ticks |-> IF asked = 1 THEN Fix_units(ticks, lim, s) ELSE ticks]
Last_point(pts, lim, s) == Scale_points(pts, lim, s)[Len(pts)]

(* The first row that needs no redraw draws no segment. *)
DrawNextFromThere(curr) ==
    /\ canvas' = IF two_points # 0 THEN canvas \cup {<<prev_point, curr>>} ELSE canvas
    /\ two_points' = 1
    /\ UNCHANGED <<prev_point, ticks>>
DrawNext(curr) ==
    /\ canvas' = IF two_points # 0 THEN canvas \cup {<<prev_point, curr>>} ELSE canvas
    /\ two_points' = 1
    /\ prev_point' = curr
    /\ UNCHANGED ticks

(* abc: everything is drawn again.  With no point it takes prev_point from *)
(* before the array, where the last point it could hold is, 0. *)
CheckAbc(pts, lim, s, asked) ==
    LET drawn == Draw_points(pts, lim, s, asked)
        n == Len(drawn.points)
    IN  /\ canvas' = {<<drawn.points[i], drawn.points[i + 1]>> : i \in 1 .. n - 1}
        /\ prev_point' = IF n = 0 THEN NoPoint ELSE drawn.points[n]
        /\ ticks' = drawn.ticks
Redraw == CheckAbc(act_point', limits', size, 1) /\ UNCHANGED two_points

ReadRow(a, b) ==
    /\ pc = "read" /\ count = HeaderLines /\ Len(act_point) < MaxRows
    /\ Add_Point(a, b)
    /\ time' = a
    /\ IF RedrawNeeded(a, b)
       THEN Redraw
       ELSE DrawNext(Last_point(act_point', limits', size))
    /\ redraw' = 0
    /\ pc' = "events"
    /\ UNCHANGED <<count, sum, size, average>>

(* The FIFO ends inside a row: fscanf leaves c as it is, and the loop puts *)
(* it into the buffer for ever.                                            *)
EndsInRow ==
    /\ pc = "read"
    /\ pc' = "lost"
    /\ UNCHANGED <<count, two_points, others>>

CheckExpose ==
    /\ HandlesEvents
    /\ CheckAbc(act_point, limits, size, redraw)
    /\ UNCHANGED <<pc, count, two_points, time, act_point, sum, limits, size, redraw, average>>

(* set_axes and set_dim_graph, with the flag they set. *)
CheckDim(s) == size' = s /\ redraw' = 1
CheckResize(s) ==
    /\ HandlesEvents
    /\ CheckDim(s)
    /\ CheckAbc(act_point, limits, s, 1)
    /\ UNCHANGED <<pc, count, two_points, time, act_point, sum, limits, average>>

CheckInit ==
    /\ pc = "read" /\ count = 0 /\ two_points = 0 /\ time = 0
    /\ act_point = <<>> /\ sum = 0
    /\ limits = [max_x |-> 5, low_y |-> 100, max_y |-> -100]
    /\ size = FirstSize /\ redraw = 0
    /\ ticks = [x |-> NoTick, low |-> NoTick, high |-> NoTick]
    /\ prev_point = NoPoint /\ canvas = {}
    /\ average = [sum |-> 0, count |-> 0]

CheckNext ==
    \/ ReadHeader
    \/ \E d \in Steps, b \in Values : ReadRow(time + d, b)
    \/ ReadEnds \/ EndsInRow \/ EventsHandled
    \/ CheckExpose
    \/ \E s \in Sizes : CheckResize(s)

CheckSpec == CheckInit /\ [][CheckNext]_vars

-----------------------------------------------------------------------------
(* Every segment in the window joins two points that follow each other, at *)
(* the present scale, in whatever order rows that move a limit, resizes    *)
(* and exposures come, and one at most is missing, the first that is drawn *)
(* by itself: setup takes prev_point for unset although abc has set it.    *)
(* The numbers at the axes are those of that scale.                        *)
SegmentsRight ==
    /\ TicksMatch
    /\ canvas \subseteq Picture(act_point, limits, size)
    /\ Cardinality(Picture(act_point, limits, size) \ canvas) <= 1
=============================================================================
