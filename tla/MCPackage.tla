----------------------------- MODULE MCPackage -----------------------------
(* Package on a bus cycle of two messages of its own (the two messages of  *)
(* the NIM package, told apart by their word counts only), between them a  *)
(* message of another terminal that looks like one of them.                *)
EXTENDS Package

MCLayout   == << [sub |-> 19, wc |-> 28], [sub |-> 19, wc |-> 10] >>
MCSchedule == << [rt |-> 12, sub |-> 19, wc |-> 28],
                 [rt |-> 31, sub |-> 19, wc |-> 10],
                 [rt |-> 12, sub |-> 19, wc |-> 10] >>
ZeroId  == {0}
=============================================================================
