---------------------------- MODULE Acquisition ----------------------------
(***************************************************************************)
(* What the clients are promised of an acquisition, from its START to its  *)
(* STOP.  The messages of the bus stand in one line of bounded length, in  *)
(* the order they were received.  The first of the line is written to the  *)
(* bus file, if one was asked for, then fed to every registered package,   *)
(* in the order of their registration, and only then leaves the line: each *)
(* gets it once, and nobody gets anything else.  A package registered in   *)
(* between is fed from the first message of the line on.                   *)
(***************************************************************************)
EXTENDS Integers, Sequences

CONSTANTS
    Capacity,      \* messages the line holds
    MaxPackages    \* bound: packages registered at one time

VARIABLES
    session,       \* number of the last acquisition
    acquiring,     \* is it under way?
    taken,         \* messages it received
    line,          \* those not dispatched yet
    storing,       \* does it write a bus file?
    file,          \* what that file holds
    seen           \* what each package was fed, in the order of registration

avars == <<session, acquiring, taken, line, storing, file, seen>>

(* m is the last message of s, or the one to come after it. *)
Given(s, m)   == s # <<>> /\ s[Len(s)] = m
Follows(m, s) == s = <<>> \/ m = [s[Len(s)] EXCEPT !.n = @ + 1]

AInit ==
    /\ session = 0 /\ acquiring = FALSE /\ taken = 0 /\ line = <<>>
    /\ storing = FALSE /\ file = <<>> /\ seen = <<>>

Begin(packages) ==
    /\ ~acquiring
    /\ acquiring' = TRUE /\ session' = session + 1
    /\ storing' \in BOOLEAN
    /\ seen' = [i \in 1 .. packages |-> <<>>]
    /\ UNCHANGED <<taken, line, file>>

Register ==
    /\ acquiring
    /\ seen' = Append(seen, <<>>)
    /\ UNCHANGED <<session, acquiring, taken, line, storing, file>>

Receive ==
    /\ acquiring /\ Len(line) < Capacity
    /\ taken' = taken + 1
    /\ line' = Append(line, [ses |-> session, n |-> taken'])
    /\ UNCHANGED <<session, acquiring, storing, file, seen>>

Store ==
    /\ acquiring /\ storing /\ line # <<>>
    /\ Follows(Head(line), file)
    /\ file' = Append(file, Head(line))
    /\ UNCHANGED <<session, acquiring, taken, line, storing, seen>>

InFile == storing => Given(file, Head(line))

Feed(i) ==
    /\ acquiring /\ line # <<>> /\ InFile
    /\ \A j \in 1 .. i - 1 : Given(seen[j], Head(line))
    /\ Follows(Head(line), seen[i])
    /\ seen' = [seen EXCEPT ![i] = Append(@, Head(line))]
    /\ UNCHANGED <<session, acquiring, taken, line, storing, file>>

Finish ==
    /\ acquiring /\ line # <<>> /\ InFile
    /\ \A i \in DOMAIN seen : Given(seen[i], Head(line))
    /\ line' = Tail(line)
    /\ UNCHANGED <<session, acquiring, taken, storing, file, seen>>

End ==
    /\ acquiring
    /\ acquiring' = FALSE /\ taken' = 0 /\ line' = <<>>
    /\ storing' = FALSE /\ file' = <<>> /\ seen' = <<>>
    /\ UNCHANGED session

ANext ==
    \/ \E packages \in 0 .. MaxPackages : Begin(packages)
    \/ Register \/ Receive \/ Store \/ Finish \/ End
    \/ \E i \in DOMAIN seen : Feed(i)

ASpec == AInit /\ [][ANext]_avars
=============================================================================
