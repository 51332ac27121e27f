------------------------------- MODULE MCPlot -------------------------------
(***************************************************************************)
(* The plots: graphTrial (Graph), its predecessor (ControlCheck), and the  *)
(* rows that reach graphTrial from the client (LivePlot).  LivePlot ends   *)
(* where Graph begins, with a point, so the three share no variable and a  *)
(* behaviour is of one of them.                                            *)
(*                                                                         *)
(* An array of 4 points is reset twice in the rows read; a step of 6       *)
(* outruns the time axis, one of 150 also the axis after a reset; 120 lies *)
(* beyond the limits an empty graph starts with.  The live plot is of the  *)
(* second column of two packages of two fields each, with a block of the   *)
(* stream as large as the FIFO and never a whole number of rows.           *)
(***************************************************************************)
EXTENDS Graph

CONSTANTS
    CheckSteps, CheckRows,                      \* Steps and MaxRows of ControlCheck
    Fields, Column, Block, FifoSize, Garbage, Polls   \* of LivePlot
VARIABLES plot,
    check_pc, check_count, drawn_before, check_time, check_points, check_sum, check_limits,
    check_size, check_redraw, check_ticks, check_prev, check_canvas, check_average,
    at, loop, window, realOn, graph, poll, todo, held, fifo, reader, point, sent, plots, byUser

ColumnValues == {-3, 0, 120}
TwoPackages == <<2, 2>>
ASSUME PlotAssumption ==
    /\ CheckSteps \subseteq Nat
    /\ Fields \in Seq(Nat) /\ Column \in Nat \ {0} /\ Block \in Nat /\ Polls \in Nat \ {0}

Check == INSTANCE ControlCheck WITH
    ArraySize <- CheckRows, Steps <- CheckSteps, MaxRows <- CheckRows,
    pc <- check_pc, count <- check_count, two_points <- drawn_before, time <- check_time,
    act_point <- check_points, sum <- check_sum, limits <- check_limits, size <- check_size,
    redraw <- check_redraw, ticks <- check_ticks, prev_point <- check_prev,
    canvas <- check_canvas, average <- check_average

Live == INSTANCE LivePlot WITH MaxPlots <- 1

checkVars == <<check_pc, check_count, drawn_before, check_time, check_points, check_sum,
               check_limits, check_size, check_redraw, check_ticks, check_prev, check_canvas,
               check_average>>
liveVars == <<at, loop, window, realOn, graph, poll, todo, held, fifo, reader, point, sent,
              plots, byUser>>
plotVars == <<vars, checkVars, liveVars, plot>>

PlotInit ==
    /\ Init /\ Check!CheckInit /\ Live!Init
    /\ plot \in {"graphTrial", "ControlCheck", "rows"}
PlotNext ==
    /\ UNCHANGED plot
    /\ \/ plot = "graphTrial" /\ Next /\ UNCHANGED <<checkVars, liveVars>>
       \/ plot = "ControlCheck" /\ Check!CheckNext /\ UNCHANGED <<vars, liveVars>>
       \/ plot = "rows" /\ Live!Next /\ UNCHANGED <<vars, checkVars>>
PlotSpec == PlotInit /\ [][PlotNext]_plotVars

(* ControlCheck: no segment is wrong, one at most is missing, and the      *)
(* ticks are those of the scale.                                           *)
SegmentsRight == Check!SegmentsRight

(* LivePlot: points are of the rows printed, in order, and only a user who *)
(* closes the plot ends the client.                                        *)
RowsInOrder == Live!RowsInOrder
=============================================================================
