---------------------------- MODULE EventDelivery ----------------------------
(***************************************************************************)
(* What event intake promises for every logical event (docs/event-intake.md *)
(* "Acknowledgements and restart", "Schedules, catch-up, and cancellation"): *)
(* it is received once, admitted to the submission queue at most once, and  *)
(* never after its withdrawal, and it ends either with the queue's terminal *)
(* receipt or as a tombstone.                                              *)
(***************************************************************************)
CONSTANT Events
VARIABLES phase, withdrawn
vars == <<phase, withdrawn>>

Init == phase = [e \in Events |-> "unknown"] /\ withdrawn = {}

Move(S, p) == phase' = [e \in Events |-> IF e \in S THEN p ELSE phase[e]]

Receive(e) == phase[e] = "unknown" /\ Move({e}, "received") /\ UNCHANGED withdrawn

Admit(e) ==
    /\ phase[e] = "received" /\ e \notin withdrawn
    /\ Move({e}, "admitted") /\ UNCHANGED withdrawn

Drop(e) == phase[e] = "received" /\ Move({e}, "dropped") /\ UNCHANGED withdrawn

\* A cancelled event, or all received events of a disabled source.
Withdraw(S) ==
    /\ \A e \in S : phase[e] # "unknown"
    /\ withdrawn' = withdrawn \cup S /\ UNCHANGED phase

\* A restart may settle several admitted events at once.
Finish(S) ==
    /\ \A e \in S : phase[e] = "admitted"
    /\ Move(S, "done") /\ UNCHANGED withdrawn

Next ==
    \/ \E e \in Events : Receive(e) \/ Admit(e) \/ Drop(e)
    \/ \E S \in SUBSET Events : Withdraw(S) \/ Finish(S)

Spec == Init /\ [][Next]_vars
=============================================================================
