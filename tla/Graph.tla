------------------------------- MODULE Graph -------------------------------
(***************************************************************************)
(* graphTrial: the plot of one column of a stream of rows against the      *)
(* first column (the time).  Class graph of header/point.cpp and the       *)
(* callbacks of src/window_callbacks.cpp.                                  *)
(*                                                                         *)
(* setup() reads the FIFO, adds a point and either draws one more segment  *)
(* or, when a limit of the axes has moved, has the whole picture drawn     *)
(* again by abc().  Between two rows it lets the window's callbacks run,   *)
(* which may resize the window or draw it again.                           *)
(*                                                                         *)
(* The position of a point in the window is kept as the quotients          *)
(* scale_points takes, not as pixels.  A coordinate that happens to be     *)
(* pixel 0 is left out: setup takes it for "no point yet".                 *)
(***************************************************************************)
EXTENDS Integers, Sequences, FiniteSets, SequencesExt

CONSTANTS
    ArraySize,   \* length of act_point and cur_point (7000)
    Steps,       \* by how much the time may grow from row to row
    Values,      \* what the plotted column may hold
    Sizes,       \* sizes of the window
    FirstSize,   \* ... and the one it has at first
    MaxRows      \* bound: rows with a point

ASSUME GraphAssumption ==
    /\ ArraySize \in Nat \ {0, 1}
    /\ Steps \subseteq Nat /\ Values \subseteq Int
    /\ FirstSize \in Sizes
    /\ MaxRows \in Nat

VARIABLES
    pc,         \* setup(): reading a row, handling events, returned
    count,      \* header lines read
    two_points, \* rows with a point read
    time,       \* first column of the last row
    act_point,  \* the points held; point_count is its length
    sum,
    limits,     \* max_x, low_y, max_y
    size,       \* x_axis, y_axis, width and height follow from it
    redraw,
    ticks,      \* x_point and the two halves of y_point, with their positions
    prev_point, \* position of the point the next segment starts from
    canvas,     \* the segments the window shows
    average     \* what the average is shown to be, as a quotient

vars == <<pc, count, two_points, time, act_point, sum, limits, size, redraw, ticks,
          prev_point, canvas, average>>

HeaderLines == 12
NoPoint == [x |-> <<>>, y |-> <<>>, size |-> FirstSize]
NoTick  == <<>>

-----------------------------------------------------------------------------
(* scale_points: the x of a point is a share of the width; its y a share   *)
(* of the height below the axis or above it.                               *)
Below(lim, y) == (lim.low_y < 0 /\ lim.max_y > 0 /\ y < 0) \/ lim.max_y <= 0
Position(p, lim, s) ==
    [x |-> <<p.x, lim.max_x>>,
     y |-> IF Below(lim, p.y) THEN <<"below", p.y, lim.low_y>>
                              ELSE <<"above", p.y, lim.max_y>>,
     size |-> s]

(* cur_point[point_count - 1].  With no point held that is the element     *)
(* before cur_point, the last of act_point, which the reset cleared.       *)
LastPosition(pts, lim, s) ==
    IF pts = <<>> THEN NoPoint ELSE Position(pts[Len(pts)], lim, s)

Picture(pts, lim, s) ==
    {<<Position(pts[i], lim, s), Position(pts[i + 1], lim, s)>> : i \in 1 .. Len(pts) - 1}

(* fix_units: the ticks of a half of the y axis nothing is drawn in are    *)
(* left as they were.                                                      *)
FixUnits(old, lim, s) ==
    [x    |-> <<lim.max_x, s>>,
     low  |-> IF lim.low_y < 0 THEN <<lim.low_y, s>> ELSE old.low,
     high |-> IF lim.max_y > 0 THEN <<lim.max_y, s>> ELSE old.high]

(* get_points, the one of all points: new ticks when a redraw is asked for. *)
Get_points(old, lim, s, asked) == IF asked = 1 THEN FixUnits(old, lim, s) ELSE old

(* set_axes and set_dim_graph: all that is computed from the size. *)
Set_dim_graph(s) == size' = s /\ redraw' = 1

(* get_average, as a quotient. *)
Get_average(total, pts) == [sum |-> total, count |-> Len(pts)]

(* abc, the drawing function of the window: everything is drawn again, the *)
(* ticks are computed only when a redraw was asked for.                    *)
AbcKeepsPrevious(pts, lim, s, asked) ==
    /\ canvas' = Picture(pts, lim, s)
    /\ prev_point' = prev_point
    /\ ticks' = Get_points(ticks, lim, s, asked)
Abc(pts, lim, s, asked) ==
    /\ canvas' = Picture(pts, lim, s)
    /\ prev_point' = LastPosition(pts, lim, s)
    /\ ticks' = Get_points(ticks, lim, s, asked)

-----------------------------------------------------------------------------
(* add_point.  At most one limit moves for one point, and the time axis by *)
(* 5 only.                                                                 *)
Widened(a, b) ==
    IF a >= limits.max_x THEN [limits EXCEPT !.max_x = @ + 5]
    ELSE IF b < limits.low_y THEN [limits EXCEPT !.low_y = b]
    ELSE IF b > limits.max_y THEN [limits EXCEPT !.max_y = b]
    ELSE limits

(* graph_reset, with the redraw flag it leaves. *)
ResetLimits == [max_x |-> 150, low_y |-> 100, max_y |-> -100]
Reset(a, b) ==
    /\ act_point' = <<>> /\ sum' = 0
    /\ limits' = ResetLimits

Full == Len(act_point) + 1 = ArraySize
AddPoint(a, b) ==
    IF Full THEN Reset(a, b)
    ELSE /\ act_point' = Append(act_point, [x |-> a, y |-> b])
         /\ sum' = sum + b
         /\ limits' = Widened(a, b)

(* What the flag is after add_point. *)
Asked(a, b) ==
    IF Full THEN 0 ELSE IF Widened(a, b) # limits THEN 1 ELSE redraw

-----------------------------------------------------------------------------
(* setup.                                                                  *)

(* The nine empty lines, the names, the units and the line after them.     *)
ReadHeader ==
    /\ pc = "read" /\ count < HeaderLines
    /\ count' = count + 1
    /\ UNCHANGED <<pc, two_points, time, act_point, sum, limits, size, redraw, ticks,
                   prev_point, canvas, average>>

(* One more segment, unless there is no point to draw it from or to; the   *)
(* average is shown in this branch only.                                   *)
DrawSegment(curr) ==
    /\ average' = Get_average(sum', act_point')
    /\ canvas' = IF prev_point # NoPoint /\ curr # NoPoint /\ two_points' # 1
                 THEN canvas \cup {<<prev_point, curr>>} ELSE canvas
    /\ prev_point' = curr
    /\ UNCHANGED ticks

(* The whole picture: PtFlush calls abc before the flag is reset. *)
DrawAll ==
    /\ Abc(act_point', limits', size, 1)
    /\ UNCHANGED average

ReadPoint(a, b) ==
    /\ pc = "read" /\ count = HeaderLines /\ two_points < MaxRows
    /\ AddPoint(a, b)
    /\ time' = a
    /\ two_points' = two_points + 1
    /\ IF Asked(a, b) = 0
       THEN DrawSegment(LastPosition(act_point', limits', size))
       ELSE DrawAll
    /\ redraw' = 0
    /\ pc' = "events"
    /\ UNCHANGED <<count, size>>

(* The end of the FIFO, or a row without the column asked for. *)
ReadEnds ==
    /\ pc = "read"
    /\ pc' = "returned"
    /\ UNCHANGED <<count, two_points, time, act_point, sum, limits, size, redraw, ticks,
                   prev_point, canvas, average>>

EventsHandled ==
    /\ pc = "events"
    /\ pc' = "read"
    /\ UNCHANGED <<count, two_points, time, act_point, sum, limits, size, redraw, ticks,
                   prev_point, canvas, average>>

-----------------------------------------------------------------------------
(* Events: in PtBkgdHandlerProcess, or in the main loop once setup has     *)
(* returned.                                                               *)
HandlesEvents == pc \in {"events", "returned"}

(* The window was covered: Photon has it drawn again. *)
Expose ==
    /\ HandlesEvents
    /\ Abc(act_point, limits, size, redraw)
    /\ UNCHANGED <<pc, count, two_points, time, act_point, sum, limits, size, redraw, average>>

(* resize: the flag stays set, so the next row draws everything again. *)
ResizeQuietly(s) ==
    /\ HandlesEvents
    /\ size' = s
    /\ redraw' = redraw
    /\ Abc(act_point, limits, s, redraw)
    /\ UNCHANGED <<pc, count, two_points, time, act_point, sum, limits, average>>
Resize(s) ==
    /\ HandlesEvents
    /\ Set_dim_graph(s)
    /\ Abc(act_point, limits, s, 1)
    /\ UNCHANGED <<pc, count, two_points, time, act_point, sum, limits, average>>

-----------------------------------------------------------------------------
Init ==
    /\ pc = "read" /\ count = 0 /\ two_points = 0 /\ time = 0
    /\ act_point = <<>> /\ sum = 0
    /\ limits = [max_x |-> 5, low_y |-> 100, max_y |-> -100]
    /\ size = FirstSize /\ redraw = 0
    /\ ticks = [x |-> NoTick, low |-> NoTick, high |-> NoTick]
    /\ prev_point = NoPoint /\ canvas = {}
    /\ average = [sum |-> 0, count |-> 0]

Next ==
    \/ ReadHeader
    \/ \E d \in Steps, b \in Values : ReadPoint(time + d, b)
    \/ ReadEnds \/ EventsHandled
    \/ Expose
    \/ \E s \in Sizes : Resize(s)

Spec == Init /\ [][Next]_vars

-----------------------------------------------------------------------------
(* Properties.                                                             *)

Limits == [max_x : Int, low_y : Int, max_y : Int]
Points == [x : Nat, y : Values]

TypeOK ==
    /\ pc \in {"read", "events", "returned"}
    /\ count \in 0 .. HeaderLines /\ two_points \in 0 .. MaxRows /\ time \in Nat
    /\ act_point \in Seq(Points) /\ Len(act_point) < ArraySize
    /\ sum \in Int
    /\ limits \in Limits
    /\ size \in Sizes /\ redraw \in {0, 1}
    /\ average \in [sum : Int, count : Nat]

(* "A scale change prompts the re drawing of the whole graph, including    *)
(* the already drawn part, to the new scale" (project report): while any   *)
(* point is held the window shows the segments between all the points      *)
(* held, each at the present scale, and nothing else, although most rows   *)
(* add one segment to what is there.                                       *)
PictureWhole == act_point # <<>> => canvas = Picture(act_point, limits, size)

(* The numbers at the axes are those of the scale the picture is drawn to. *)
TicksMatch ==
    act_point # <<>> =>
        /\ ticks.x = <<limits.max_x, size>>
        /\ limits.low_y < 0 => ticks.low = <<limits.low_y, size>>
        /\ limits.max_y > 0 => ticks.high = <<limits.max_y, size>>
=============================================================================
