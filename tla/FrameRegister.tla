--------------------------- MODULE FrameRegister ---------------------------
(***************************************************************************)
(* What a real-time request is promised of the major frames the server     *)
(* posts: a frame every slot of which is at least as recent as the last    *)
(* frame posted before the request, and no more recent than the frame      *)
(* being posted when it is answered.  Slots may differ from each other:    *)
(* a writer and a reader that overlap are not kept apart.  The register    *)
(* may be renewed: then the last frame counts as none, 0, but requests are *)
(* no longer refused.                                                      *)
(***************************************************************************)
EXTENDS Naturals

CONSTANT Slots

VARIABLES
    done,    \* number of the last frame posted since it was new, 0 for none
    begun,   \* number of the frame posted or being posted last
    writing, \* is it being posted?
    ready,   \* was a frame ever posted?
    since,   \* number of the last frame posted before it was new
    phase,   \* of a request: "idle", "asked" or "answered"
    low,     \* done when it was received
    out      \* the slots answered, NoFrame between requests

NoFrame == [s \in Slots |-> 0]

rvars == <<done, begun, writing, ready, since, phase, low, out>>

RInit ==
    /\ done = 0 /\ begun = 0 /\ writing = FALSE /\ ready = FALSE /\ since = 0
    /\ phase = "idle" /\ low = 0
    /\ out = NoFrame

Begin ==
    /\ ~writing
    /\ writing' = TRUE /\ begun' = begun + 1
    /\ UNCHANGED <<done, ready, since, phase, low, out>>
Finish ==
    /\ writing
    /\ writing' = FALSE /\ done' = begun /\ ready' = TRUE
    /\ UNCHANGED <<begun, since, phase, low, out>>

Renew ==
    /\ ~writing /\ phase = "idle"
    /\ since' = begun /\ done' = 0
    /\ UNCHANGED <<begun, writing, ready, phase, low, out>>

(* Requests are refused until a frame was posted. *)
Ask ==
    /\ phase = "idle" /\ ready
    /\ phase' = "asked" /\ low' = done
    /\ UNCHANGED <<done, begun, writing, ready, since, out>>

Answer ==
    /\ phase = "asked"
    /\ phase' = "answered"
    /\ out' \in [Slots -> {f \in low .. begun : f = low \/ f > since}]
    /\ UNCHANGED <<done, begun, writing, ready, since, low>>

Take ==
    /\ phase = "answered"
    /\ phase' = "idle" /\ out' = NoFrame
    /\ UNCHANGED <<done, begun, writing, ready, since, low>>

RNext == Begin \/ Finish \/ Renew \/ Ask \/ Answer \/ Take
RSpec == RInit /\ [][RNext]_rvars
=============================================================================
