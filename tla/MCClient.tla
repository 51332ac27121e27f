------------------------------ MODULE MCClient ------------------------------
(***************************************************************************)
(* The client on both sides of its requests: the windows that make them,   *)
(* to which a request is one step (Analysis), and ToSvr, that sends one    *)
(* over a connection (Requests).  A behaviour is of the one or of the      *)
(* other.                                                                  *)
(***************************************************************************)
EXTENDS Analysis

CONSTANTS FileNames, NameSize, MaxServers
VARIABLES side,
    svrUp, svrServer, svrOn, svrFileName, coid, acquiring, svrAt, svrMsg, reply, currentData,
    told, typed, longest, answered, calm, wasOn

(* Three file names of different lengths. *)
MCNames == {<<"a">>, <<"b", "c">>, <<"d", "e", "f">>}
Svr == INSTANCE Requests WITH
    Names <- FileNames, up <- svrUp, server <- svrServer, on <- svrOn,
    fileName <- svrFileName, at <- svrAt, msg <- svrMsg

ASSUME ClientAssumption ==
    /\ NameSize \in Nat \ {0}
    /\ \A n \in FileNames : /\ n \in Seq(STRING) /\ Len(n) < NameSize
                            /\ \A k \in DOMAIN n : n[k] # Svr!Nul

svrVars == <<svrUp, svrServer, svrOn, svrFileName, coid, acquiring, svrAt, svrMsg, reply,
             currentData, told, typed, longest, answered, calm, wasOn>>
clientVars == <<vars, svrVars, side>>
ClientInit ==
    /\ Init /\ Svr!Init
    /\ side \in {"windows", "connection"} /\ (side = "windows" => svrUp)
ClientNext ==
    \/ side = "windows" /\ Next /\ UNCHANGED <<svrVars, side>>
    \/ side = "connection" /\ Svr!Next /\ UNCHANGED <<vars, side>>
ClientSpec ==
    /\ ClientInit /\ [][ClientNext]_clientVars
    /\ Fairness

(* Requests: what a start or a stop says of itself is true, and one server *)
(* that runs is reached.                                                   *)
ReportIsTrue == Svr!ReportIsTrue
=============================================================================
