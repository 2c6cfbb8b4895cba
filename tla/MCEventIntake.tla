--------------------------- MODULE MCEventIntake ---------------------------
(* Small instances of EventIntake for TLC. *)
EXTENDS EventIntake

CONSTANTS hook, timer, k1

FirstDelivery == {<<hook, k1>>}

\* A state constraint: a foreign submission appears only before the schedule
\* has fired, so that the two are explored next to each other.
ForeignFirst ==
    queue[<<hook, k1>>] = "foreign" => cursor[timer] = FirstDue
=============================================================================
