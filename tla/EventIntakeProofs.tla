--------------------------- MODULE EventIntakeProofs ---------------------------
(***************************************************************************)
(* Event intake keeps its promise for every set of sources, keys, bounds   *)
(* and request ids: EventIntake implements EventDelivery, a settled event  *)
(* has no live work, a schedule is delivered exactly as its cursor says,   *)
(* and a submission of someone else is never touched.                      *)
(*                                                                         *)
(* The inductive invariant says what the holder of the event_intake lock   *)
(* may rely on between its commits: the copies still on its list are the   *)
(* rows as stored, and the copy in hand agrees with the row and with the   *)
(* queue in the ways its position needs.  For schedules, ScheduleInv says  *)
(* that a cursor is on the grid of due times and ahead of every event, and *)
(* that at most one event of a schedule is open.                           *)
(***************************************************************************)
EXTENDS EventIntake, FiniteSetTheorems, TLAPS

\* A live or ended submission belongs to a received event.
ActiveReceived ==
    \A e \in Ids : Pending(queue[e]) \/ Terminal(queue[e]) => e \in received

\* Copies the holder has not come to yet are exact and unsettled.
TodoFresh == \A c \in todo : c = Copy(c.id) /\ c.id \in Unsettled

\* The event in hand: one of the received ones, and not listed again.
InHand ==
    pc \notin {"free", "next"} =>
        /\ hand \in Copies /\ hand.id \in received
        /\ \A c \in todo : c.id # hand.id

AtLoad == pc = "load" => hand = Copy(hand.id)

\* Past load, the event in hand is not settled in the store.
StillOpen ==
    pc \in {"conflict", "cancel", "withdraw", "admit", "save"} =>
        hand.id \notin settled

\* Where the copy is written back, it has the stored cancellation.
CancelAgrees ==
    pc \in {"conflict", "withdraw", "admit", "save"} =>
        (hand.cancel <=> hand.id \in cancelled)

AtConflict == pc = "conflict" => hand.settled /\ queue[hand.id] = "foreign"

AtCancel ==
    pc = "cancel" =>
        /\ hand.cancel /\ ~hand.settled
        /\ hand.id \in cancelled \/ Source(hand.id) \in disabled
        /\ IF hand.seen = "absent" THEN ~Pending(queue[hand.id])
           ELSE queue[hand.id] \notin {"absent", "foreign"}

AtWithdraw == pc = "withdraw" => queue[hand.id] \notin {"absent", "foreign"}

AtAdmit ==
    pc = "admit" =>
        /\ hand.seen = "absent" /\ ~hand.settled
        /\ hand.id \notin cancelled /\ Source(hand.id) \notin disabled

AtSave ==
    pc = "save" =>
        (hand.settled \/ Terminal(hand.seen) => ~Pending(queue[hand.id]))

HolderInv ==
    /\ TodoFresh /\ InHand /\ AtLoad /\ StillOpen /\ CancelAgrees
    /\ AtConflict /\ AtCancel /\ AtWithdraw /\ AtAdmit /\ AtSave

IInv == TypeOK /\ SettledIsFinal /\ ActiveReceived /\ HolderInv

-----------------------------------------------------------------------------
(* Types *)

\* A schedule event that fits the clock is an event id, and so is its
\* successor a cursor (latest_due).
LEMMA DueTyped ==
    ASSUME NEW s \in Schedules, NEW n \in Clock, NEW now \in Clock, Due(n, now)
    PROVE  <<s, Latest(n, now)>> \in Ids /\ Following(n, now) \in Clock
<1> DEFINE q == (now - n) \div Period
<1>1. n \in Nat /\ now \in Nat /\ now >= n /\ Period \in Nat \ {0} /\ MaxTime \in Nat
  BY IntakeAssumption DEF Clock, Due
<1>2. q \in Nat
  BY <1>1
<1>3. q * Period \in Nat
  <2> HIDE DEF q
  <2> QED BY <1>1, <1>2
<1>4. Latest(n, now) = n + q * Period
  <2>1. Occurrences(n, now) - 1 = q
    BY <1>1, <1>2 DEF Occurrences
  <2> QED BY <2>1 DEF Latest
<1>5. Following(n, now) = n + q * Period + Period /\ Following(n, now) <= MaxTime
  BY <1>4 DEF Following, Due
<1> HIDE DEF q
<1>6. n + q * Period \in Clock /\ n + q * Period + Period \in Clock
  BY <1>1, <1>3, <1>5 DEF Clock
<1> QED BY <1>4, <1>5, <1>6 DEF Ids

\* A stored row, copied, is a copy.
LEMMA CopyTyped ==
    ASSUME TypeOK, NEW e \in Ids
    PROVE  Copy(e) \in Copies /\ Copy(e).id = e
BY DEF TypeOK, Copy, Copies

\* An edited copy is a copy, and only the edited fields differ.
LEMMA CopyUpdated ==
    ASSUME NEW ev \in Copies, NEW c \in BOOLEAN, NEW st \in Statuses, NEW d \in BOOLEAN
    PROVE  /\ [ev EXCEPT !.cancel = c] \in Copies
           /\ [ev EXCEPT !.settled = d] \in Copies
           /\ [ev EXCEPT !.seen = st] \in Copies
           /\ [ev EXCEPT !.cancel = c, !.seen = st] \in Copies
           /\ [ev EXCEPT !.seen = st, !.settled = d] \in Copies
BY DEF Copies

\* The fields of a copy have their types.
LEMMA CopyFields ==
    ASSUME NEW ev \in Copies
    PROVE  ev.id \in Ids /\ ev.cancel \in BOOLEAN /\ ev.seen \in Statuses
              /\ ev.settled \in BOOLEAN
BY DEF Copies

-----------------------------------------------------------------------------
(* Preservation *)

\* Registering a source (register_event_source) preserves the invariant.
LEMMA RegisterKeeps ==
    ASSUME IInv, NEW s \in Sources, register_event_source(s)
    PROVE  IInv'
<1> USE DEF IInv, HolderInv
<1>1. /\ registered' \subseteq Sources /\ disabled' \subseteq registered'
      /\ cursor' \in [Schedules -> Clock]
      /\ received' \subseteq Ids /\ cancelled' \subseteq received' /\ settled' \subseteq received'
      /\ receipt' \in [Ids -> Statuses] /\ covers' \in [Ids -> SUBSET Clock]
      /\ queue' \in [Ids -> Statuses]
  BY SMTT(30) DEF TypeOK, Statuses, register_event_source, Unlocked, sourceVars, eventVars, workVars, hostVars
<1>2. /\ pc' \in Pcs /\ hand' \in Copies \cup {None}
      /\ todo' \subseteq Copies /\ sweep' \subseteq Sources
  BY SMTT(30) DEF TypeOK, Pcs, register_event_source, Unlocked, sourceVars, eventVars, workVars, hostVars
<1>3. bound' \in BOOLEAN /\ accepting' \in BOOLEAN /\ crashes' \in 0..MaxCrashes
  BY IntakeAssumption DEF TypeOK, register_event_source, Unlocked, sourceVars, eventVars, workVars, hostVars
<1>4. SettledIsFinal' /\ ActiveReceived'
  BY SMTT(30) DEF TypeOK, SettledIsFinal, ActiveReceived, Pending, Terminal, Statuses, register_event_source, Unlocked, sourceVars, eventVars, workVars, hostVars
<1>5. HolderInv'
  BY SMTT(30) DEF TypeOK, Pending, Terminal, Unsettled, Copy, Copies, Statuses,
     TodoFresh, InHand, AtLoad, StillOpen, CancelAgrees, AtConflict, AtCancel, AtWithdraw, AtAdmit, AtSave, register_event_source, Unlocked, sourceVars, eventVars, workVars, hostVars
<1> QED BY <1>1, <1>2, <1>3, <1>4, <1>5 DEF TypeOK

\* The queue may claim, finish or cancel a submission between any two commits
\* of the lock holder without breaking what the holder relies on.
LEMMA QueueKeeps ==
    ASSUME IInv, NEW e \in Ids, NEW st \in QueueMoves, queue_step(e, st)
    PROVE  IInv'
<1> USE DEF IInv, HolderInv, QueueMoves
<1>1. /\ registered' \subseteq Sources /\ disabled' \subseteq registered'
      /\ cursor' \in [Schedules -> Clock]
      /\ received' \subseteq Ids /\ cancelled' \subseteq received' /\ settled' \subseteq received'
      /\ receipt' \in [Ids -> Statuses] /\ covers' \in [Ids -> SUBSET Clock]
      /\ queue' \in [Ids -> Statuses]
  BY SMTT(30) DEF TypeOK, Statuses, queue_step, sourceVars, eventVars, workVars, hostVars
<1>2. /\ pc' \in Pcs /\ hand' \in Copies \cup {None}
      /\ todo' \subseteq Copies /\ sweep' \subseteq Sources
  BY SMTT(30) DEF TypeOK, Pcs, queue_step, sourceVars, eventVars, workVars, hostVars
<1>3. bound' \in BOOLEAN /\ accepting' \in BOOLEAN /\ crashes' \in 0..MaxCrashes
  BY IntakeAssumption DEF TypeOK, queue_step, sourceVars, eventVars, workVars, hostVars
<1>4. SettledIsFinal' /\ ActiveReceived'
  BY SMTT(30) DEF TypeOK, SettledIsFinal, ActiveReceived, Pending, Terminal, Statuses, queue_step, sourceVars, eventVars, workVars, hostVars
<1>5. HolderInv'
  BY SMTT(30) DEF TypeOK, Pending, Terminal, Unsettled, Copy, Copies, Statuses,
     TodoFresh, InHand, AtLoad, StillOpen, CancelAgrees, AtConflict, AtCancel, AtWithdraw, AtAdmit, AtSave, queue_step, sourceVars, eventVars, workVars, hostVars
<1> QED BY <1>1, <1>2, <1>3, <1>4, <1>5 DEF TypeOK

\* An operator's submission that takes an event's id preserves the invariant.
LEMMA ForeignKeeps ==
    ASSUME IInv, NEW e \in Taken, foreign_submit(e)
    PROVE  IInv'
<1> USE DEF IInv, HolderInv
<1>0. e \in Ids
  BY IntakeAssumption
<1>1. /\ registered' \subseteq Sources /\ disabled' \subseteq registered'
      /\ cursor' \in [Schedules -> Clock]
      /\ received' \subseteq Ids /\ cancelled' \subseteq received' /\ settled' \subseteq received'
      /\ receipt' \in [Ids -> Statuses] /\ covers' \in [Ids -> SUBSET Clock]
      /\ queue' \in [Ids -> Statuses]
  BY <1>0, SMTT(30) DEF TypeOK, Statuses, foreign_submit, sourceVars, eventVars, workVars, hostVars
<1>2. /\ pc' \in Pcs /\ hand' \in Copies \cup {None}
      /\ todo' \subseteq Copies /\ sweep' \subseteq Sources
  BY <1>0, SMTT(30) DEF TypeOK, Pcs, foreign_submit, sourceVars, eventVars, workVars, hostVars
<1>3. bound' \in BOOLEAN /\ accepting' \in BOOLEAN /\ crashes' \in 0..MaxCrashes
  BY IntakeAssumption DEF TypeOK, foreign_submit, sourceVars, eventVars, workVars, hostVars
<1>4. SettledIsFinal' /\ ActiveReceived'
  BY <1>0, SMTT(30) DEF TypeOK, SettledIsFinal, ActiveReceived, Pending, Terminal, Statuses, foreign_submit, sourceVars, eventVars, workVars, hostVars
<1>5. HolderInv'
  BY <1>0, SMTT(30) DEF TypeOK, Pending, Terminal, Unsettled, Copy, Copies, Statuses,
     TodoFresh, InHand, AtLoad, StillOpen, CancelAgrees, AtConflict, AtCancel, AtWithdraw, AtAdmit, AtSave, foreign_submit, sourceVars, eventVars, workVars, hostVars
<1> QED BY <1>1, <1>2, <1>3, <1>4, <1>5 DEF TypeOK

\* Shutdown (shutdown_if_idle) preserves the invariant.
LEMMA ShutdownKeeps ==
    ASSUME IInv, shutdown
    PROVE  IInv'
<1> USE DEF IInv, HolderInv
<1>1. /\ registered' \subseteq Sources /\ disabled' \subseteq registered'
      /\ cursor' \in [Schedules -> Clock]
      /\ received' \subseteq Ids /\ cancelled' \subseteq received' /\ settled' \subseteq received'
      /\ receipt' \in [Ids -> Statuses] /\ covers' \in [Ids -> SUBSET Clock]
      /\ queue' \in [Ids -> Statuses]
  BY SMTT(30) DEF TypeOK, Statuses, shutdown, sourceVars, eventVars, workVars, hostVars
<1>2. /\ pc' \in Pcs /\ hand' \in Copies \cup {None}
      /\ todo' \subseteq Copies /\ sweep' \subseteq Sources
  BY SMTT(30) DEF TypeOK, Pcs, shutdown, sourceVars, eventVars, workVars, hostVars
<1>3. bound' \in BOOLEAN /\ accepting' \in BOOLEAN /\ crashes' \in 0..MaxCrashes
  BY IntakeAssumption DEF TypeOK, shutdown, sourceVars, eventVars, workVars, hostVars
<1>4. SettledIsFinal' /\ ActiveReceived'
  BY SMTT(30) DEF TypeOK, SettledIsFinal, ActiveReceived, Pending, Terminal, Statuses, shutdown, sourceVars, eventVars, workVars, hostVars
<1>5. HolderInv'
  BY SMTT(30) DEF TypeOK, Pending, Terminal, Unsettled, Copy, Copies, Statuses,
     TodoFresh, InHand, AtLoad, StillOpen, CancelAgrees, AtConflict, AtCancel, AtWithdraw, AtAdmit, AtSave, shutdown, sourceVars, eventVars, workVars, hostVars
<1> QED BY <1>1, <1>2, <1>3, <1>4, <1>5 DEF TypeOK

\* A crash at any point, and the restart, preserve the invariant.
LEMMA CrashKeeps ==
    ASSUME IInv, crash
    PROVE  IInv'
<1> USE DEF IInv, HolderInv
<1>1. /\ registered' \subseteq Sources /\ disabled' \subseteq registered'
      /\ cursor' \in [Schedules -> Clock]
      /\ received' \subseteq Ids /\ cancelled' \subseteq received' /\ settled' \subseteq received'
      /\ receipt' \in [Ids -> Statuses] /\ covers' \in [Ids -> SUBSET Clock]
      /\ queue' \in [Ids -> Statuses]
  BY IntakeAssumption, SMTT(30) DEF TypeOK, Statuses, crash, Unlock, sourceVars, eventVars, workVars, hostVars
<1>2. /\ pc' \in Pcs /\ hand' \in Copies \cup {None}
      /\ todo' \subseteq Copies /\ sweep' \subseteq Sources
  BY IntakeAssumption, SMTT(30) DEF TypeOK, Pcs, crash, Unlock, sourceVars, eventVars, workVars, hostVars
<1>3. bound' \in BOOLEAN /\ accepting' \in BOOLEAN /\ crashes' \in 0..MaxCrashes
  BY IntakeAssumption DEF TypeOK, crash, Unlock, sourceVars, eventVars, workVars, hostVars
<1>4. SettledIsFinal' /\ ActiveReceived'
  BY IntakeAssumption, SMTT(30) DEF TypeOK, SettledIsFinal, ActiveReceived, Pending, Terminal, Statuses, crash, Unlock, sourceVars, eventVars, workVars, hostVars
<1>5. HolderInv'
  BY IntakeAssumption, SMTT(30) DEF TypeOK, Pending, Terminal, Unsettled, Copy, Copies, Statuses,
     TodoFresh, InHand, AtLoad, StillOpen, CancelAgrees, AtConflict, AtCancel, AtWithdraw, AtAdmit, AtSave, crash, Unlock, sourceVars, eventVars, workVars, hostVars
<1> QED BY <1>1, <1>2, <1>3, <1>4, <1>5 DEF TypeOK

\* Host::deliver_event, new or repeated, preserves the invariant.
LEMMA DeliverKeeps ==
    ASSUME IInv, NEW s \in Webhooks, NEW k \in Keys, deliver_event(s, k)
    PROVE  IInv'
<1> USE DEF IInv, HolderInv
<1> DEFINE e == <<s, k>>
<1>0. e \in Ids
  BY DEF Ids
<1>c. Copy(e) \in Copies /\ Copy(e).id = e
  BY <1>0, CopyTyped
<1>d. Copy(e)' = Copy(e) /\ \A x \in Ids : Copy(x)' = Copy(x)
  BY DEF Copy, deliver_event
<1>e. pc' = "load" /\ hand' = Copy(e) /\ todo' = {} /\ e \in received'
  BY DEF deliver_event, Reconcile
<1>1. /\ registered' \subseteq Sources /\ disabled' \subseteq registered'
      /\ cursor' \in [Schedules -> Clock]
      /\ received' \subseteq Ids /\ cancelled' \subseteq received' /\ settled' \subseteq received'
      /\ receipt' \in [Ids -> Statuses] /\ covers' \in [Ids -> SUBSET Clock]
      /\ queue' \in [Ids -> Statuses]
  BY <1>0, <1>c, <1>d, <1>e, SMTT(30) DEF TypeOK, Statuses, deliver_event, Reconcile, Admissible, Unlocked, sourceVars, eventVars, workVars, hostVars
<1>2. /\ pc' \in Pcs /\ hand' \in Copies \cup {None}
      /\ todo' \subseteq Copies /\ sweep' \subseteq Sources
  BY <1>0, <1>c, <1>d, <1>e, SMTT(30) DEF TypeOK, Pcs, deliver_event, Reconcile, Admissible, Unlocked, sourceVars, eventVars, workVars, hostVars
<1>3. bound' \in BOOLEAN /\ accepting' \in BOOLEAN /\ crashes' \in 0..MaxCrashes
  BY IntakeAssumption DEF TypeOK, deliver_event, Reconcile, Admissible, Unlocked, sourceVars, eventVars, workVars, hostVars
<1>4. SettledIsFinal' /\ ActiveReceived'
  BY <1>0, <1>c, <1>d, <1>e, SMTT(30) DEF TypeOK, SettledIsFinal, ActiveReceived, Pending, Terminal, Statuses, deliver_event, Reconcile, Admissible, Unlocked, sourceVars, eventVars, workVars, hostVars
<1>5. HolderInv'
  <2>1. TodoFresh'
    BY <1>0, <1>c, <1>d, <1>e, SMTT(30) DEF TypeOK, Pending, Terminal, Unsettled, Copies,
       TodoFresh, deliver_event, Reconcile, Admissible, Unlocked, sourceVars, eventVars, workVars, hostVars
  <2>2. InHand'
    BY <1>0, <1>c, <1>d, <1>e, SMTT(30) DEF TypeOK, Pending, Terminal, Unsettled, Copies,
       InHand, deliver_event, Reconcile, Admissible, Unlocked, sourceVars, eventVars, workVars, hostVars
  <2>3. AtLoad'
    BY <1>0, <1>c, <1>d, <1>e, SMTT(30) DEF TypeOK, Pending, Terminal, Unsettled, Copies,
       AtLoad, deliver_event, Reconcile, Admissible, Unlocked, sourceVars, eventVars, workVars, hostVars
  <2>4. StillOpen' /\ CancelAgrees' /\ AtConflict' /\ AtCancel' /\ AtWithdraw' /\ AtAdmit' /\ AtSave'
    BY <1>e DEF StillOpen, CancelAgrees, AtConflict, AtCancel, AtWithdraw, AtAdmit, AtSave
  <2> QED BY <2>1, <2>2, <2>3, <2>4
<1> QED BY <1>1, <1>2, <1>3, <1>4, <1>5 DEF TypeOK

\* Host::cancel_event preserves the invariant.
LEMMA CancelEventKeeps ==
    ASSUME IInv, NEW e \in Ids, cancel_event(e)
    PROVE  IInv'
<1> USE DEF IInv, HolderInv
<1>c. Copy(e)' \in Copies /\ Copy(e)'.id = e
  BY DEF TypeOK, Copy, Copies, cancel_event
<1>d. pc' = "load" /\ hand' = Copy(e)' /\ todo' = {} /\ e \in received'
  BY DEF cancel_event, Reconcile
<1>1. /\ registered' \subseteq Sources /\ disabled' \subseteq registered'
      /\ cursor' \in [Schedules -> Clock]
      /\ received' \subseteq Ids /\ cancelled' \subseteq received' /\ settled' \subseteq received'
      /\ receipt' \in [Ids -> Statuses] /\ covers' \in [Ids -> SUBSET Clock]
      /\ queue' \in [Ids -> Statuses]
  BY <1>c, <1>d, SMTT(30) DEF TypeOK, Statuses, cancel_event, Reconcile, Unlocked, sourceVars, eventVars, workVars, hostVars
<1>2. /\ pc' \in Pcs /\ hand' \in Copies \cup {None}
      /\ todo' \subseteq Copies /\ sweep' \subseteq Sources
  BY <1>c, <1>d, SMTT(30) DEF TypeOK, Pcs, cancel_event, Reconcile, Unlocked, sourceVars, eventVars, workVars, hostVars
<1>3. bound' \in BOOLEAN /\ accepting' \in BOOLEAN /\ crashes' \in 0..MaxCrashes
  BY IntakeAssumption DEF TypeOK, cancel_event, Reconcile, Unlocked, sourceVars, eventVars, workVars, hostVars
<1>4. SettledIsFinal' /\ ActiveReceived'
  BY <1>c, <1>d, SMTT(30) DEF TypeOK, SettledIsFinal, ActiveReceived, Pending, Terminal, Statuses, cancel_event, Reconcile, Unlocked, sourceVars, eventVars, workVars, hostVars
<1>5. HolderInv'
  <2>1. TodoFresh'
    BY <1>c, <1>d, SMTT(30) DEF TypeOK, Pending, Terminal, Unsettled, Copies,
       TodoFresh, cancel_event, Reconcile, Unlocked, sourceVars, eventVars, workVars, hostVars
  <2>2. InHand'
    BY <1>c, <1>d, SMTT(30) DEF TypeOK, Pending, Terminal, Unsettled, Copies,
       InHand, cancel_event, Reconcile, Unlocked, sourceVars, eventVars, workVars, hostVars
  <2>3. AtLoad'
    BY <1>c, <1>d, SMTT(30) DEF TypeOK, Pending, Terminal, Unsettled, Copies,
       AtLoad, cancel_event, Reconcile, Unlocked, sourceVars, eventVars, workVars, hostVars
  <2>4. StillOpen' /\ CancelAgrees' /\ AtConflict' /\ AtCancel' /\ AtWithdraw' /\ AtAdmit' /\ AtSave'
    BY <1>d DEF StillOpen, CancelAgrees, AtConflict, AtCancel, AtWithdraw, AtAdmit, AtSave
  <2> QED BY <2>1, <2>2, <2>3, <2>4
<1> QED BY <1>1, <1>2, <1>3, <1>4, <1>5 DEF TypeOK

\* Host::disable_event_source preserves the invariant.
LEMMA DisableKeeps ==
    ASSUME IInv, NEW s \in Sources, disable_event_source(s)
    PROVE  IInv'
<1> USE DEF IInv, HolderInv
<1>c. \A e \in Ids : Copy(e) \in Copies /\ Copy(e).id = e
  BY CopyTyped
<1>1. /\ registered' \subseteq Sources /\ disabled' \subseteq registered'
      /\ cursor' \in [Schedules -> Clock]
      /\ received' \subseteq Ids /\ cancelled' \subseteq received' /\ settled' \subseteq received'
      /\ receipt' \in [Ids -> Statuses] /\ covers' \in [Ids -> SUBSET Clock]
      /\ queue' \in [Ids -> Statuses]
  BY <1>c, SMTT(30) DEF TypeOK, Statuses, disable_event_source, ReconcileAll, Unlocked, sourceVars, eventVars, workVars, hostVars, Unsettled
<1>2. /\ pc' \in Pcs /\ hand' \in Copies \cup {None}
      /\ todo' \subseteq Copies /\ sweep' \subseteq Sources
  BY <1>c, SMTT(30) DEF TypeOK, Pcs, disable_event_source, ReconcileAll, Unlocked, sourceVars, eventVars, workVars, hostVars, Unsettled
<1>3. bound' \in BOOLEAN /\ accepting' \in BOOLEAN /\ crashes' \in 0..MaxCrashes
  BY IntakeAssumption DEF TypeOK, disable_event_source, ReconcileAll, Unlocked, sourceVars, eventVars, workVars, hostVars
<1>4. SettledIsFinal' /\ ActiveReceived'
  BY <1>c, SMTT(30) DEF TypeOK, SettledIsFinal, ActiveReceived, Pending, Terminal, Statuses, disable_event_source, ReconcileAll, Unlocked, sourceVars, eventVars, workVars, hostVars
<1>5. HolderInv'
  BY <1>c, SMTT(30) DEF TypeOK, Pending, Terminal, Unsettled, Copy, Copies, Statuses,
     TodoFresh, InHand, AtLoad, StillOpen, CancelAgrees, AtConflict, AtCancel, AtWithdraw, AtAdmit, AtSave, disable_event_source, ReconcileAll, Unlocked, sourceVars, eventVars, workVars, hostVars
<1> QED BY <1>1, <1>2, <1>3, <1>4, <1>5 DEF TypeOK

\* The start of a round of run_event_intake preserves the invariant.
LEMMA RunKeeps ==
    ASSUME IInv, run_event_intake
    PROVE  IInv'
<1> USE DEF IInv, HolderInv
<1>c. \A e \in Ids : Copy(e) \in Copies /\ Copy(e).id = e
  BY CopyTyped
<1>1. /\ registered' \subseteq Sources /\ disabled' \subseteq registered'
      /\ cursor' \in [Schedules -> Clock]
      /\ received' \subseteq Ids /\ cancelled' \subseteq received' /\ settled' \subseteq received'
      /\ receipt' \in [Ids -> Statuses] /\ covers' \in [Ids -> SUBSET Clock]
      /\ queue' \in [Ids -> Statuses]
  BY <1>c, SMTT(30) DEF TypeOK, Statuses, run_event_intake, ReconcileAll, Unlocked, sourceVars, eventVars, workVars, hostVars, Unsettled
<1>2. /\ pc' \in Pcs /\ hand' \in Copies \cup {None}
      /\ todo' \subseteq Copies /\ sweep' \subseteq Sources
  BY <1>c, SMTT(30) DEF TypeOK, Pcs, run_event_intake, ReconcileAll, Unlocked, sourceVars, eventVars, workVars, hostVars, Unsettled
<1>3. bound' \in BOOLEAN /\ accepting' \in BOOLEAN /\ crashes' \in 0..MaxCrashes
  BY IntakeAssumption DEF TypeOK, run_event_intake, ReconcileAll, Unlocked, sourceVars, eventVars, workVars, hostVars
<1>4. SettledIsFinal' /\ ActiveReceived'
  BY <1>c, SMTT(30) DEF TypeOK, SettledIsFinal, ActiveReceived, Pending, Terminal, Statuses, run_event_intake, ReconcileAll, Unlocked, sourceVars, eventVars, workVars, hostVars
<1>5. HolderInv'
  BY <1>c, SMTT(30) DEF TypeOK, Pending, Terminal, Unsettled, Copy, Copies, Statuses,
     TodoFresh, InHand, AtLoad, StillOpen, CancelAgrees, AtConflict, AtCancel, AtWithdraw, AtAdmit, AtSave, run_event_intake, ReconcileAll, Unlocked, sourceVars, eventVars, workVars, hostVars
<1> QED BY <1>1, <1>2, <1>3, <1>4, <1>5 DEF TypeOK

\* The holder takes the next event or source, or lets go of the lock.
LEMMA NextKeeps ==
    ASSUME IInv, next
    PROVE  IInv'
<1> USE DEF IInv, HolderInv
<1>1. /\ registered' \subseteq Sources /\ disabled' \subseteq registered'
      /\ cursor' \in [Schedules -> Clock]
      /\ received' \subseteq Ids /\ cancelled' \subseteq received' /\ settled' \subseteq received'
      /\ receipt' \in [Ids -> Statuses] /\ covers' \in [Ids -> SUBSET Clock]
      /\ queue' \in [Ids -> Statuses]
  BY SMTT(30) DEF TypeOK, Statuses, next, Reconcile, ReconcileAll, Unlock, sourceVars, eventVars, workVars, hostVars
<1>2. /\ pc' \in Pcs /\ hand' \in Copies \cup {None}
      /\ todo' \subseteq Copies /\ sweep' \subseteq Sources
  BY SMTT(30) DEF TypeOK, Pcs, next, Reconcile, ReconcileAll, Unlock, sourceVars, eventVars, workVars, hostVars
<1>3. bound' \in BOOLEAN /\ accepting' \in BOOLEAN /\ crashes' \in 0..MaxCrashes
  BY IntakeAssumption DEF TypeOK, next, Reconcile, ReconcileAll, Unlock, sourceVars, eventVars, workVars, hostVars
<1>4. SettledIsFinal' /\ ActiveReceived'
  BY SMTT(30) DEF TypeOK, SettledIsFinal, ActiveReceived, Pending, Terminal, Statuses, next, Reconcile, ReconcileAll, Unlock, sourceVars, eventVars, workVars, hostVars
<1>5. HolderInv'
  BY SMTT(30) DEF TypeOK, Pending, Terminal, Unsettled, Copy, Copies, Statuses,
     TodoFresh, InHand, AtLoad, StillOpen, CancelAgrees, AtConflict, AtCancel, AtWithdraw, AtAdmit, AtSave, next, Reconcile, ReconcileAll, Unlock, sourceVars, eventVars, workVars, hostVars
<1> QED BY <1>1, <1>2, <1>3, <1>4, <1>5 DEF TypeOK

\* reconcile_event reads source and submission: what it then holds in hand
\* agrees with the row and the queue.
LEMMA LoadKeeps ==
    ASSUME IInv, load
    PROVE  IInv'
<1> USE DEF IInv, HolderInv
<1>c. hand \in Copies /\ hand.id \in Ids /\ hand.cancel \in BOOLEAN /\ hand.seen \in Statuses
        /\ hand.settled \in BOOLEAN /\ hand.id \in received
  BY CopyFields DEF InHand, load
<1> DEFINE ev == [hand EXCEPT !.cancel = Withdrawn(hand), !.seen = queue[hand.id]]
             cv == [hand EXCEPT !.settled = TRUE]
<1>d. Withdrawn(hand) \in BOOLEAN /\ queue[hand.id] \in Statuses
  BY <1>c, Zenon DEF Withdrawn, TypeOK
<1>e. ev \in Copies /\ cv \in Copies
  BY <1>c, <1>d, CopyUpdated
<1>f. /\ ev.id = hand.id /\ ev.cancel = Withdrawn(hand) /\ ev.seen = queue[hand.id]
      /\ ev.settled = hand.settled
      /\ cv.id = hand.id /\ cv.cancel = hand.cancel /\ cv.settled = TRUE
  BY <1>c DEF Copies
<1>g. \/ hand.settled /\ pc' = "next" /\ hand' = None
      \/ ~hand.settled /\ Conflicts(hand.id) /\ pc' = "conflict" /\ hand' = cv
      \/ /\ ~hand.settled /\ ~Conflicts(hand.id)
         /\ pc' = IF ev.cancel THEN "cancel" ELSE IF ev.seen = "absent" THEN "admit" ELSE "save"
         /\ hand' = ev
  BY Zenon DEF load, Goto, ReconcileAll
<1>h. todo' = todo /\ sweep' = sweep /\ UNCHANGED <<sourceVars, eventVars, queue, hostVars>>
  BY DEF load, Goto, ReconcileAll
<1>i. /\ hand.cancel <=> hand.id \in cancelled
      /\ hand.settled <=> hand.id \in settled
      /\ \A c \in todo : c.id # hand.id
  BY <1>c DEF load, AtLoad, InHand, Copy
<1>j. ~ev.cancel => hand.id \notin cancelled /\ Source(hand.id) \notin disabled
  BY <1>f, <1>i, Zenon DEF Withdrawn
<1>k. pc' = "admit" => hand' = ev /\ ~ev.cancel /\ ev.seen = "absent" /\ ~hand.settled
  BY <1>g
<1> HIDE DEF ev, cv
<1>1. /\ registered' \subseteq Sources /\ disabled' \subseteq registered'
      /\ cursor' \in [Schedules -> Clock]
      /\ received' \subseteq Ids /\ cancelled' \subseteq received' /\ settled' \subseteq received'
      /\ receipt' \in [Ids -> Statuses] /\ covers' \in [Ids -> SUBSET Clock]
      /\ queue' \in [Ids -> Statuses]
  BY <1>c, <1>d, <1>e, <1>f, <1>g, <1>h, <1>i, <1>j, <1>k, SMTT(30) DEF TypeOK, Statuses, load, Goto, ReconcileAll, Conflicts, Withdrawn, sourceVars, eventVars, workVars, hostVars, Conflicts
<1>2. /\ pc' \in Pcs /\ hand' \in Copies \cup {None}
      /\ todo' \subseteq Copies /\ sweep' \subseteq Sources
  BY <1>c, <1>d, <1>e, <1>f, <1>g, <1>h, <1>i, <1>j, <1>k, SMTT(30) DEF TypeOK, Pcs, load, Goto, ReconcileAll, Conflicts, Withdrawn, sourceVars, eventVars, workVars, hostVars
<1>3. bound' \in BOOLEAN /\ accepting' \in BOOLEAN /\ crashes' \in 0..MaxCrashes
  BY IntakeAssumption DEF TypeOK, load, Goto, ReconcileAll, Conflicts, Withdrawn, sourceVars, eventVars, workVars, hostVars
<1>4. SettledIsFinal' /\ ActiveReceived'
  BY <1>c, <1>d, <1>e, <1>f, <1>g, <1>h, <1>i, <1>j, <1>k, SMTT(30) DEF TypeOK, SettledIsFinal, ActiveReceived, Pending, Terminal, Statuses, load, Goto, ReconcileAll, Conflicts, Withdrawn, sourceVars, eventVars, workVars, hostVars, Conflicts
<1>5. HolderInv'
  <2>1. TodoFresh'
    BY <1>c, <1>d, <1>e, <1>f, <1>g, <1>h, <1>i, <1>j, <1>k, SMTT(30) DEF TypeOK, Pending, Terminal, Unsettled, Copy,
       TodoFresh, Conflicts, load, Goto, ReconcileAll, Conflicts, Withdrawn, sourceVars, eventVars, workVars, hostVars
  <2>2. InHand'
    BY <1>c, <1>d, <1>e, <1>f, <1>g, <1>h, <1>i, <1>j, <1>k, SMTT(30) DEF TypeOK, Pending, Terminal, Unsettled, Copy,
       InHand, Conflicts, load, Goto, ReconcileAll, Conflicts, Withdrawn, sourceVars, eventVars, workVars, hostVars
  <2>3. AtLoad'
    BY <1>c, <1>d, <1>e, <1>f, <1>g, <1>h, <1>i, <1>j, <1>k, SMTT(30) DEF TypeOK, Pending, Terminal, Unsettled, Copy,
       AtLoad, Conflicts, load, Goto, ReconcileAll, Conflicts, Withdrawn, sourceVars, eventVars, workVars, hostVars
  <2>4. StillOpen'
    BY <1>c, <1>d, <1>e, <1>f, <1>g, <1>h, <1>i, <1>j, <1>k, SMTT(30) DEF TypeOK, Pending, Terminal, Unsettled, Copy,
       StillOpen, Conflicts, load, Goto, ReconcileAll, Conflicts, Withdrawn, sourceVars, eventVars, workVars, hostVars
  <2>5. CancelAgrees'
    BY <1>c, <1>d, <1>e, <1>f, <1>g, <1>h, <1>i, <1>j, <1>k, SMTT(30) DEF TypeOK, Pending, Terminal, Unsettled, Copy,
       CancelAgrees, Conflicts, load, Goto, ReconcileAll, Conflicts, Withdrawn, sourceVars, eventVars, workVars, hostVars
  <2>6. AtConflict'
    BY <1>c, <1>d, <1>e, <1>f, <1>g, <1>h, <1>i, <1>j, <1>k, SMTT(30) DEF TypeOK, Pending, Terminal, Unsettled, Copy,
       AtConflict, Conflicts, load, Goto, ReconcileAll, Conflicts, Withdrawn, sourceVars, eventVars, workVars, hostVars
  <2>7. AtCancel'
    BY <1>c, <1>d, <1>e, <1>f, <1>g, <1>h, <1>i, <1>j, <1>k, SMTT(30) DEF TypeOK, Pending, Terminal, Unsettled, Copy,
       AtCancel, Conflicts, load, Goto, ReconcileAll, Conflicts, Withdrawn, sourceVars, eventVars, workVars, hostVars
  <2>8. AtWithdraw'
    BY <1>c, <1>d, <1>e, <1>f, <1>g, <1>h, <1>i, <1>j, <1>k, SMTT(30) DEF TypeOK, Pending, Terminal, Unsettled, Copy,
       AtWithdraw, Conflicts, load, Goto, ReconcileAll, Conflicts, Withdrawn, sourceVars, eventVars, workVars, hostVars
  <2>9. AtAdmit'
    BY <1>c, <1>d, <1>e, <1>f, <1>g, <1>h, <1>i, <1>j, <1>k, SMTT(30) DEF TypeOK, Pending, Terminal, Unsettled, Copy,
       AtAdmit, Conflicts, load, Goto, ReconcileAll, Conflicts, Withdrawn, sourceVars, eventVars, workVars, hostVars
  <2>10. AtSave'
    BY <1>c, <1>d, <1>e, <1>f, <1>g, <1>h, <1>i, <1>j, <1>k, SMTT(30) DEF TypeOK, Pending, Terminal, Unsettled, Copy,
       AtSave, Conflicts, load, Goto, ReconcileAll, Conflicts, Withdrawn, sourceVars, eventVars, workVars, hostVars
  <2> QED BY <2>1, <2>2, <2>3, <2>4, <2>5, <2>6, <2>7, <2>8, <2>9, <2>10
<1> QED BY <1>1, <1>2, <1>3, <1>4, <1>5 DEF TypeOK

\* reconcile_event settles an event whose id someone else took.
LEMMA ConflictKeeps ==
    ASSUME IInv, conflict
    PROVE  IInv'
<1> USE DEF IInv, HolderInv
<1>c. hand \in Copies /\ hand.id \in Ids /\ hand.cancel \in BOOLEAN /\ hand.seen \in Statuses
        /\ hand.settled \in BOOLEAN /\ hand.id \in received
  BY CopyFields DEF InHand, conflict
<1>1. /\ registered' \subseteq Sources /\ disabled' \subseteq registered'
      /\ cursor' \in [Schedules -> Clock]
      /\ received' \subseteq Ids /\ cancelled' \subseteq received' /\ settled' \subseteq received'
      /\ receipt' \in [Ids -> Statuses] /\ covers' \in [Ids -> SUBSET Clock]
      /\ queue' \in [Ids -> Statuses]
  BY <1>c, SMTT(30) DEF TypeOK, Statuses, conflict, save_event, ReconcileAll, sourceVars, eventVars, workVars, hostVars, StillOpen, CancelAgrees, AtConflict
<1>2. /\ pc' \in Pcs /\ hand' \in Copies \cup {None}
      /\ todo' \subseteq Copies /\ sweep' \subseteq Sources
  BY <1>c, SMTT(30) DEF TypeOK, Pcs, conflict, save_event, ReconcileAll, sourceVars, eventVars, workVars, hostVars
<1>3. bound' \in BOOLEAN /\ accepting' \in BOOLEAN /\ crashes' \in 0..MaxCrashes
  BY IntakeAssumption DEF TypeOK, conflict, save_event, ReconcileAll, sourceVars, eventVars, workVars, hostVars
<1>4. SettledIsFinal' /\ ActiveReceived'
  BY <1>c, SMTT(30) DEF TypeOK, SettledIsFinal, ActiveReceived, Pending, Terminal, Statuses, conflict, save_event, ReconcileAll, sourceVars, eventVars, workVars, hostVars, StillOpen, CancelAgrees, AtConflict
<1>5. HolderInv'
  BY <1>c, SMTT(30) DEF TypeOK, Pending, Terminal, Unsettled, Copy, Copies, Statuses,
     TodoFresh, InHand, AtLoad, StillOpen, CancelAgrees, AtConflict, AtCancel, AtWithdraw, AtAdmit, AtSave, conflict, save_event, ReconcileAll, sourceVars, eventVars, workVars, hostVars
<1> QED BY <1>1, <1>2, <1>3, <1>4, <1>5 DEF TypeOK

\* reconcile_event makes a cancellation durable.
LEMMA CancelKeeps ==
    ASSUME IInv, cancel
    PROVE  IInv'
<1> USE DEF IInv, HolderInv
<1>c. hand \in Copies /\ hand.id \in Ids /\ hand.cancel \in BOOLEAN /\ hand.seen \in Statuses
        /\ hand.settled \in BOOLEAN /\ hand.id \in received
  BY CopyFields DEF InHand, cancel
<1> DEFINE ev == [hand EXCEPT !.settled = TRUE]
<1>d. ev \in Copies /\ ev.id = hand.id /\ ev.cancel = hand.cancel /\ ev.settled = TRUE /\ ev.seen = hand.seen
  BY <1>c, CopyUpdated DEF Copies
<1>e. \/ hand.seen = "absent" /\ pc' = "save" /\ hand' = ev
      \/ hand.seen # "absent" /\ pc' = "withdraw" /\ hand' = hand
  BY DEF cancel, Goto
<1> HIDE DEF ev
<1>1. /\ registered' \subseteq Sources /\ disabled' \subseteq registered'
      /\ cursor' \in [Schedules -> Clock]
      /\ received' \subseteq Ids /\ cancelled' \subseteq received' /\ settled' \subseteq received'
      /\ receipt' \in [Ids -> Statuses] /\ covers' \in [Ids -> SUBSET Clock]
      /\ queue' \in [Ids -> Statuses]
  BY <1>c, <1>d, <1>e, SMTT(30) DEF TypeOK, Statuses, cancel, save_event, Goto, sourceVars, eventVars, workVars, hostVars, StillOpen, CancelAgrees, AtCancel, InHand, TodoFresh
<1>2. /\ pc' \in Pcs /\ hand' \in Copies \cup {None}
      /\ todo' \subseteq Copies /\ sweep' \subseteq Sources
  BY <1>c, <1>d, <1>e, SMTT(30) DEF TypeOK, Pcs, cancel, save_event, Goto, sourceVars, eventVars, workVars, hostVars
<1>3. bound' \in BOOLEAN /\ accepting' \in BOOLEAN /\ crashes' \in 0..MaxCrashes
  BY IntakeAssumption DEF TypeOK, cancel, save_event, Goto, sourceVars, eventVars, workVars, hostVars
<1>4. SettledIsFinal' /\ ActiveReceived'
  BY <1>c, <1>d, <1>e, SMTT(30) DEF TypeOK, SettledIsFinal, ActiveReceived, Pending, Terminal, Statuses, cancel, save_event, Goto, sourceVars, eventVars, workVars, hostVars, StillOpen, CancelAgrees, AtCancel, InHand, TodoFresh
<1>5. HolderInv'
  <2>1. TodoFresh'
    BY <1>c, <1>d, <1>e, SMTT(30) DEF TypeOK, Pending, Terminal, Unsettled, Copy,
       TodoFresh, StillOpen, CancelAgrees, AtCancel, InHand, cancel, save_event, Goto, sourceVars, eventVars, workVars, hostVars
  <2>2. InHand'
    BY <1>c, <1>d, <1>e, SMTT(30) DEF TypeOK, Pending, Terminal, Unsettled, Copy,
       InHand, StillOpen, CancelAgrees, AtCancel, TodoFresh, cancel, save_event, Goto, sourceVars, eventVars, workVars, hostVars
  <2>3. StillOpen'
    BY <1>c, <1>d, <1>e, SMTT(30) DEF TypeOK, Pending, Terminal, Unsettled, Copy,
       StillOpen, CancelAgrees, AtCancel, InHand, TodoFresh, cancel, save_event, Goto, sourceVars, eventVars, workVars, hostVars
  <2>4. CancelAgrees'
    BY <1>c, <1>d, <1>e, SMTT(30) DEF TypeOK, Pending, Terminal, Unsettled, Copy,
       CancelAgrees, StillOpen, AtCancel, InHand, TodoFresh, cancel, save_event, Goto, sourceVars, eventVars, workVars, hostVars
  <2>5. AtWithdraw'
    BY <1>c, <1>d, <1>e, SMTT(30) DEF TypeOK, Pending, Terminal, Unsettled, Copy,
       AtWithdraw, StillOpen, CancelAgrees, AtCancel, InHand, TodoFresh, cancel, save_event, Goto, sourceVars, eventVars, workVars, hostVars
  <2>6. AtSave'
    BY <1>c, <1>d, <1>e, SMTT(30) DEF TypeOK, Pending, Terminal, Unsettled, Copy,
       AtSave, StillOpen, CancelAgrees, AtCancel, InHand, TodoFresh, cancel, save_event, Goto, sourceVars, eventVars, workVars, hostVars
  <2>7. AtLoad' /\ AtConflict' /\ AtCancel' /\ AtAdmit'
    BY <1>e DEF AtLoad, AtConflict, AtCancel, AtAdmit
  <2> QED BY <2>1, <2>2, <2>3, <2>4, <2>5, <2>6, <2>7
<1> QED BY <1>1, <1>2, <1>3, <1>4, <1>5 DEF TypeOK

\* reconcile_event cancels the submission, whatever it has become meanwhile.
LEMMA WithdrawKeeps ==
    ASSUME IInv, NEW st \in {"running", "cancelled", "finished", "interrupted"}, withdraw(st)
    PROVE  IInv'
<1> USE DEF IInv, HolderInv
<1>c. hand \in Copies /\ hand.id \in Ids /\ hand.cancel \in BOOLEAN /\ hand.seen \in Statuses
        /\ hand.settled \in BOOLEAN /\ hand.id \in received
  BY CopyFields DEF InHand, withdraw
<1> DEFINE ev == [hand EXCEPT !.seen = st, !.settled = ~Pending(st)]
<1>d. ev \in Copies /\ ev.id = hand.id /\ ev.cancel = hand.cancel /\ ev.seen = st
  <2>1. st \in Statuses /\ (~Pending(st)) \in BOOLEAN
    BY DEF Statuses
  <2>2. ev \in Copies
    BY <1>c, <2>1, CopyUpdated
  <2> QED BY <1>c, <2>2 DEF Copies
<1>f. ev.settled => ~Pending(st)
  BY <1>c, Zenon DEF Copies
<1>g. queue'[hand.id] = st
  BY <1>c DEF withdraw, TypeOK
<1>h. Terminal(st) => ~Pending(st)
  BY DEF Terminal, Pending
<1>i. ev.settled \/ Terminal(ev.seen) => ~Pending(queue'[hand.id])
  BY <1>d, <1>f, <1>g, <1>h, Zenon
<1>e. pc' = "save" /\ hand' = ev
  BY DEF withdraw, Goto
<1>j. AtSave'
  BY <1>d, <1>e, <1>i, Zenon DEF AtSave
<1> HIDE DEF ev
<1>1. /\ registered' \subseteq Sources /\ disabled' \subseteq registered'
      /\ cursor' \in [Schedules -> Clock]
      /\ received' \subseteq Ids /\ cancelled' \subseteq received' /\ settled' \subseteq received'
      /\ receipt' \in [Ids -> Statuses] /\ covers' \in [Ids -> SUBSET Clock]
      /\ queue' \in [Ids -> Statuses]
  BY <1>c, <1>d, <1>e, <1>f, <1>g, <1>j, SMTT(30) DEF TypeOK, Statuses, withdraw, Goto, sourceVars, eventVars, workVars, hostVars, StillOpen, CancelAgrees, AtWithdraw, InHand, TodoFresh
<1>2. /\ pc' \in Pcs /\ hand' \in Copies \cup {None}
      /\ todo' \subseteq Copies /\ sweep' \subseteq Sources
  BY <1>c, <1>d, <1>e, <1>f, <1>g, <1>j, SMTT(30) DEF TypeOK, Pcs, withdraw, Goto, sourceVars, eventVars, workVars, hostVars
<1>3. bound' \in BOOLEAN /\ accepting' \in BOOLEAN /\ crashes' \in 0..MaxCrashes
  BY IntakeAssumption DEF TypeOK, withdraw, Goto, sourceVars, eventVars, workVars, hostVars
<1>4. SettledIsFinal' /\ ActiveReceived'
  BY <1>c, <1>d, <1>e, <1>f, <1>g, <1>j, SMTT(30) DEF TypeOK, SettledIsFinal, ActiveReceived, Pending, Terminal, Statuses, withdraw, Goto, sourceVars, eventVars, workVars, hostVars, StillOpen, CancelAgrees, AtWithdraw, InHand, TodoFresh
<1>5. HolderInv'
  <2>1. TodoFresh'
    BY <1>c, <1>d, <1>e, <1>f, <1>g, <1>j, SMTT(30) DEF TypeOK, Pending, Terminal, Unsettled, Copy,
       TodoFresh, StillOpen, CancelAgrees, AtWithdraw, InHand, withdraw, Goto, sourceVars, eventVars, workVars, hostVars
  <2>2. InHand'
    BY <1>c, <1>d, <1>e, <1>f, <1>g, <1>j, SMTT(30) DEF TypeOK, Pending, Terminal, Unsettled, Copy,
       InHand, StillOpen, CancelAgrees, AtWithdraw, TodoFresh, withdraw, Goto, sourceVars, eventVars, workVars, hostVars
  <2>3. StillOpen'
    BY <1>c, <1>d, <1>e, <1>f, <1>g, <1>j, SMTT(30) DEF TypeOK, Pending, Terminal, Unsettled, Copy,
       StillOpen, CancelAgrees, AtWithdraw, InHand, TodoFresh, withdraw, Goto, sourceVars, eventVars, workVars, hostVars
  <2>4. CancelAgrees'
    BY <1>c, <1>d, <1>e, <1>f, <1>g, <1>j, SMTT(30) DEF TypeOK, Pending, Terminal, Unsettled, Copy,
       CancelAgrees, StillOpen, AtWithdraw, InHand, TodoFresh, withdraw, Goto, sourceVars, eventVars, workVars, hostVars
  <2>5. AtLoad' /\ AtConflict' /\ AtCancel' /\ AtWithdraw' /\ AtAdmit' /\ AtSave'
    BY <1>e, <1>j DEF AtLoad, AtConflict, AtCancel, AtWithdraw, AtAdmit, AtSave
  <2> QED BY <2>1, <2>2, <2>3, <2>4, <2>5
<1> QED BY <1>1, <1>2, <1>3, <1>4, <1>5 DEF TypeOK

\* reconcile_event submits the event, or fails to.
LEMMA AdmitKeeps ==
    ASSUME IInv, admit
    PROVE  IInv'
<1> USE DEF IInv, HolderInv
<1>c. hand \in Copies /\ hand.id \in Ids /\ hand.cancel \in BOOLEAN /\ hand.seen \in Statuses
        /\ hand.settled \in BOOLEAN /\ hand.id \in received
  BY CopyFields DEF InHand, admit
<1>d. [hand EXCEPT !.seen = "queued"] \in Copies
  BY <1>c, CopyUpdated DEF Statuses
<1>1. /\ registered' \subseteq Sources /\ disabled' \subseteq registered'
      /\ cursor' \in [Schedules -> Clock]
      /\ received' \subseteq Ids /\ cancelled' \subseteq received' /\ settled' \subseteq received'
      /\ receipt' \in [Ids -> Statuses] /\ covers' \in [Ids -> SUBSET Clock]
      /\ queue' \in [Ids -> Statuses]
  BY <1>c, <1>d, SMTT(30) DEF TypeOK, Statuses, admit, Goto, sourceVars, eventVars, workVars, hostVars, StillOpen, CancelAgrees, AtAdmit, InHand, TodoFresh
<1>2. /\ pc' \in Pcs /\ hand' \in Copies \cup {None}
      /\ todo' \subseteq Copies /\ sweep' \subseteq Sources
  BY <1>c, <1>d, SMTT(30) DEF TypeOK, Pcs, admit, Goto, sourceVars, eventVars, workVars, hostVars
<1>3. bound' \in BOOLEAN /\ accepting' \in BOOLEAN /\ crashes' \in 0..MaxCrashes
  BY IntakeAssumption DEF TypeOK, admit, Goto, sourceVars, eventVars, workVars, hostVars
<1>4. SettledIsFinal' /\ ActiveReceived'
  BY <1>c, <1>d, SMTT(30) DEF TypeOK, SettledIsFinal, ActiveReceived, Pending, Terminal, Statuses, admit, Goto, sourceVars, eventVars, workVars, hostVars, StillOpen, CancelAgrees, AtAdmit, InHand, TodoFresh
<1>5. HolderInv'
  BY <1>c, <1>d, SMTT(30) DEF TypeOK, Pending, Terminal, Unsettled, Copy, Copies, Statuses,
     TodoFresh, InHand, AtLoad, StillOpen, CancelAgrees, AtConflict, AtCancel, AtWithdraw, AtAdmit, AtSave, admit, Goto, sourceVars, eventVars, workVars, hostVars
<1> QED BY <1>1, <1>2, <1>3, <1>4, <1>5 DEF TypeOK

\* reconcile_event writes its outcome.
LEMMA SaveKeeps ==
    ASSUME IInv, save
    PROVE  IInv'
<1> USE DEF IInv, HolderInv
<1>c. hand \in Copies /\ hand.id \in Ids /\ hand.cancel \in BOOLEAN /\ hand.seen \in Statuses
        /\ hand.settled \in BOOLEAN /\ hand.id \in received
  BY CopyFields DEF InHand, save
<1>1. /\ registered' \subseteq Sources /\ disabled' \subseteq registered'
      /\ cursor' \in [Schedules -> Clock]
      /\ received' \subseteq Ids /\ cancelled' \subseteq received' /\ settled' \subseteq received'
      /\ receipt' \in [Ids -> Statuses] /\ covers' \in [Ids -> SUBSET Clock]
      /\ queue' \in [Ids -> Statuses]
  BY <1>c, SMTT(30) DEF TypeOK, Statuses, save, save_event, ReconcileAll, sourceVars, eventVars, workVars, hostVars, StillOpen, CancelAgrees, AtSave, InHand, TodoFresh
<1>2. /\ pc' \in Pcs /\ hand' \in Copies \cup {None}
      /\ todo' \subseteq Copies /\ sweep' \subseteq Sources
  BY <1>c, SMTT(30) DEF TypeOK, Pcs, save, save_event, ReconcileAll, sourceVars, eventVars, workVars, hostVars
<1>3. bound' \in BOOLEAN /\ accepting' \in BOOLEAN /\ crashes' \in 0..MaxCrashes
  BY IntakeAssumption DEF TypeOK, save, save_event, ReconcileAll, sourceVars, eventVars, workVars, hostVars
<1>4. SettledIsFinal' /\ ActiveReceived'
  BY <1>c, SMTT(30) DEF TypeOK, SettledIsFinal, ActiveReceived, Pending, Terminal, Statuses, save, save_event, ReconcileAll, sourceVars, eventVars, workVars, hostVars, StillOpen, CancelAgrees, AtSave, InHand, TodoFresh
<1>5. HolderInv'
  BY <1>c, SMTT(30) DEF TypeOK, Pending, Terminal, Unsettled, Copy, Copies, Statuses,
     TodoFresh, InHand, AtLoad, StillOpen, CancelAgrees, AtConflict, AtCancel, AtWithdraw, AtAdmit, AtSave, save, save_event, ReconcileAll, sourceVars, eventVars, workVars, hostVars
<1> QED BY <1>1, <1>2, <1>3, <1>4, <1>5 DEF TypeOK

\* tick_event_source moves the cursor and inserts the event together.
LEMMA TickKeeps ==
    ASSUME IInv, NEW s \in sweep, NEW now \in Clock, pc = "next", todo = {}, tick_event_source(s, now)
    PROVE  IInv'
<1> USE DEF IInv, HolderInv
<1> DEFINE e == <<s, Latest(cursor[s], now)>>
<1>0. s \in Schedules /\ s \notin disabled /\ Due(cursor[s], now) /\ cursor[s] \in Clock
  BY DEF tick_event_source, TypeOK
<1>c. e \in Ids /\ Following(cursor[s], now) \in Clock
  BY <1>0, DueTyped
<1>d. Copy(e) \in Copies /\ Copy(e).id = e
  BY <1>c, CopyTyped
<1>f. \A x \in Ids : Copy(x)' = Copy(x)
  BY DEF Copy, tick_event_source
<1>e. /\ pc' = "load" /\ hand' = Copy(e) /\ todo' = {} /\ sweep' = sweep \ {s}
      /\ received' = received \cup {e}
      /\ UNCHANGED <<registered, disabled, cancelled, settled, receipt, queue, hostVars>>
      /\ cursor' = [cursor EXCEPT ![s] = Following(cursor[s], now)]
      /\ \E D \in SUBSET Clock : covers' = [covers EXCEPT ![e] = D]
  BY DEF tick_event_source, Reconcile
<1>g. UNCHANGED <<bound, accepting, crashes>>
  BY DEF tick_event_source, hostVars
<1> HIDE DEF e
<1>1. /\ registered' \subseteq Sources /\ disabled' \subseteq registered'
      /\ cursor' \in [Schedules -> Clock]
      /\ received' \subseteq Ids /\ cancelled' \subseteq received' /\ settled' \subseteq received'
      /\ receipt' \in [Ids -> Statuses] /\ covers' \in [Ids -> SUBSET Clock]
      /\ queue' \in [Ids -> Statuses]
  BY <1>0, <1>c, <1>d, <1>f, <1>e, SMTT(30) DEF TypeOK, Statuses, sourceVars, eventVars, workVars, hostVars
<1>2. /\ pc' \in Pcs /\ hand' \in Copies \cup {None}
      /\ todo' \subseteq Copies /\ sweep' \subseteq Sources
  BY <1>0, <1>c, <1>d, <1>f, <1>e, SMTT(30) DEF TypeOK, Pcs, sourceVars, eventVars, workVars, hostVars
<1>3. bound' \in BOOLEAN /\ accepting' \in BOOLEAN /\ crashes' \in 0..MaxCrashes
  BY <1>g, IntakeAssumption DEF TypeOK, sourceVars, eventVars, workVars, hostVars
<1>4. SettledIsFinal' /\ ActiveReceived'
  BY <1>0, <1>c, <1>d, <1>f, <1>e, SMTT(30) DEF TypeOK, SettledIsFinal, ActiveReceived, Pending, Terminal, Statuses, sourceVars, eventVars, workVars, hostVars
<1>5. HolderInv'
  <2>1. TodoFresh'
    BY <1>0, <1>c, <1>d, <1>f, <1>e, SMTT(30) DEF TypeOK, Pending, Terminal, Unsettled, Copies,
       TodoFresh, sourceVars, eventVars, workVars, hostVars
  <2>2. InHand'
    BY <1>0, <1>c, <1>d, <1>f, <1>e, SMTT(30) DEF TypeOK, Pending, Terminal, Unsettled, Copies,
       InHand, sourceVars, eventVars, workVars, hostVars
  <2>3. AtLoad'
    BY <1>0, <1>c, <1>d, <1>f, <1>e, SMTT(30) DEF TypeOK, Pending, Terminal, Unsettled, Copies,
       AtLoad, sourceVars, eventVars, workVars, hostVars
  <2>4. StillOpen' /\ CancelAgrees' /\ AtConflict' /\ AtCancel' /\ AtWithdraw' /\ AtAdmit' /\ AtSave'
    BY <1>e DEF StillOpen, CancelAgrees, AtConflict, AtCancel, AtWithdraw, AtAdmit, AtSave
  <2> QED BY <2>1, <2>2, <2>3, <2>4
<1> QED BY <1>1, <1>2, <1>3, <1>4, <1>5 DEF TypeOK

\* Initial states satisfy the invariant.
LEMMA InitIInv == Init => IInv
<1> SUFFICES ASSUME Init PROVE IInv
  OBVIOUS
<1>1. TypeOK
  <2>1. FirstDue \in Clock
    BY IntakeAssumption DEF Clock
  <2>2. bound \in BOOLEAN /\ accepting \in BOOLEAN /\ crashes \in 0..MaxCrashes
    BY IntakeAssumption DEF Init
  <2> QED BY <2>1, <2>2 DEF Init, TypeOK, Statuses, Pcs
<1>2. SettledIsFinal /\ ActiveReceived
  BY DEF Init, SettledIsFinal, ActiveReceived, Pending, Terminal
<1>3. HolderInv
  BY DEF Init, HolderInv, TodoFresh, InHand, AtLoad, StillOpen, CancelAgrees, AtConflict,
     AtCancel, AtWithdraw, AtAdmit, AtSave
<1> QED BY <1>1, <1>2, <1>3 DEF IInv

\* Every step preserves it.
LEMMA NextIInv == IInv /\ [Next]_vars => IInv'
<1> SUFFICES ASSUME IInv, [Next]_vars PROVE IInv'
  OBVIOUS
<1>1. CASE \E s \in Sources : register_event_source(s) \/ disable_event_source(s)
  BY <1>1, RegisterKeeps, DisableKeeps
<1>2. CASE \E s \in Webhooks, k \in Keys : deliver_event(s, k)
  BY <1>2, DeliverKeeps
<1>3. CASE \E e \in Ids : cancel_event(e)
  BY <1>3, CancelEventKeeps
<1>4. CASE \E e \in Taken : foreign_submit(e)
  BY <1>4, ForeignKeeps
<1>5. CASE run_event_intake
  BY <1>5, RunKeeps
<1>6. CASE HolderStep
  <2>1. CASE tick
    BY <2>1, TickKeeps DEF tick
  <2>2. CASE \E st \in {"running", "cancelled", "finished", "interrupted"} : withdraw(st)
    BY <2>2, WithdrawKeeps
  <2> QED BY <1>6, <2>1, <2>2, NextKeeps, LoadKeeps, ConflictKeeps, CancelKeeps, AdmitKeeps,
             SaveKeeps DEF HolderStep
<1>7. CASE \E e \in Ids, st \in QueueMoves : queue_step(e, st)
  BY <1>7, QueueKeeps
<1>8. CASE shutdown
  BY <1>8, ShutdownKeeps
<1>9. CASE crash
  BY <1>9, CrashKeeps
<1>10. CASE UNCHANGED vars
  <2>1. UNCHANGED <<registered, disabled, cursor, received, cancelled, settled, receipt, covers,
                    queue, pc, hand, todo, sweep, bound, accepting, crashes>>
    BY <1>10 DEF vars, sourceVars, eventVars, workVars, hostVars
  <2> QED BY <2>1 DEF IInv, TypeOK, SettledIsFinal, ActiveReceived, HolderInv, TodoFresh, InHand,
             AtLoad, StillOpen, CancelAgrees, AtConflict, AtCancel, AtWithdraw, AtAdmit, AtSave,
             Copy, Unsettled
<1> QED BY <1>1, <1>2, <1>3, <1>4, <1>5, <1>6, <1>7, <1>8, <1>9, <1>10 DEF Next

\* The invariant holds in every reachable state.
LEMMA Inductive == Spec => []IInv
<1>1. Init => IInv
  BY InitIInv
<1>2. IInv /\ [Next]_vars => IInv'
  BY NextIInv
<1> QED BY <1>1, <1>2, PTL DEF Spec

\* Every row, the cursors and the lock holder's work keep their types: a
\* schedule never leaves the representable times (latest_due).
THEOREM IntakeTypeCorrect == Spec => []TypeOK
<1>1. IInv => TypeOK
  BY DEF IInv
<1> QED BY <1>1, Inductive, PTL

\* A settled event has no queued or running work (reconcile_event).
THEOREM SettledForGood == Spec => []SettledIsFinal
<1>1. IInv => SettledIsFinal
  BY DEF IInv
<1> QED BY <1>1, Inductive, PTL

-----------------------------------------------------------------------------
(* Refinement *)

AbstractStep == [Delivery!Next]_(Delivery!vars)

\* A step that moves the phases of S to p, as EventDelivery writes it.
LEMMA Moved ==
    ASSUME NEW S, NEW p, \A x \in Ids : Phase(x)' = IF x \in S THEN p ELSE Phase(x)
    PROVE  Delivery!Move(S, p)
<1>1. [x \in Ids |-> Phase(x)]' = [x \in Ids |-> IF x \in S THEN p ELSE [y \in Ids |-> Phase(y)][x]]
  OBVIOUS
<1> QED BY <1>1 DEF Delivery!Move

\* Steps that move no phase and withdraw nothing are stuttering steps.
LEMMA Stutters ==
    ASSUME \A x \in Ids : Phase(x)' = Phase(x), UNCHANGED WithdrawnEvents
    PROVE  AbstractStep
BY DEF AbstractStep, Delivery!vars

\* Receive, told by the phases: an unknown event becomes received.
LEMMA Receives ==
    ASSUME NEW e \in Ids, Phase(e) = "unknown", UNCHANGED WithdrawnEvents,
           \A x \in Ids : Phase(x)' = IF x \in {e} THEN "received" ELSE Phase(x)
    PROVE  AbstractStep
BY Moved DEF AbstractStep, Delivery!Next, Delivery!Receive

\* Admit: a received event that was not withdrawn becomes admitted.
LEMMA Admits ==
    ASSUME NEW e \in Ids, Phase(e) = "received", e \notin WithdrawnEvents,
           UNCHANGED WithdrawnEvents,
           \A x \in Ids : Phase(x)' = IF x \in {e} THEN "admitted" ELSE Phase(x)
    PROVE  AbstractStep
BY Moved DEF AbstractStep, Delivery!Next, Delivery!Admit

\* Drop: a received event ends without a submission.
LEMMA Drops ==
    ASSUME NEW e \in Ids, Phase(e) = "received", UNCHANGED WithdrawnEvents,
           \A x \in Ids : Phase(x)' = IF x \in {e} THEN "dropped" ELSE Phase(x)
    PROVE  AbstractStep
BY Moved DEF AbstractStep, Delivery!Next, Delivery!Drop

\* Withdraw: known events are withdrawn and no phase moves.
LEMMA Withdraws ==
    ASSUME NEW S \in SUBSET Ids, \A x \in S : Phase(x) # "unknown",
           WithdrawnEvents' = WithdrawnEvents \cup S,
           \A x \in Ids : Phase(x)' = Phase(x)
    PROVE  AbstractStep
<1>1. [x \in Ids |-> Phase(x)]' = [x \in Ids |-> Phase(x)]
  OBVIOUS
<1> QED BY <1>1 DEF AbstractStep, Delivery!Next, Delivery!Withdraw

\* Finish: admitted events are done.
LEMMA Finishes ==
    ASSUME NEW S \in SUBSET Ids, \A x \in S : Phase(x) = "admitted", UNCHANGED WithdrawnEvents,
           \A x \in Ids : Phase(x)' = IF x \in S THEN "done" ELSE Phase(x)
    PROVE  AbstractStep
BY Moved DEF AbstractStep, Delivery!Next, Delivery!Finish

\* Rows and submissions as they were: the abstract state is as it was.
LEMMA SameRows ==
    ASSUME UNCHANGED <<received, settled, cancelled, disabled, queue>>
    PROVE  AbstractStep
<1>1. \A x \in Ids : Phase(x)' = Phase(x)
  BY DEF Phase, Pending, Terminal
<1>2. UNCHANGED WithdrawnEvents
  BY DEF WithdrawnEvents
<1> QED BY <1>1, <1>2, Stutters

\* A step of the queue is Finish, or no abstract step.
LEMMA QueueRefines ==
    ASSUME IInv, NEW e \in Ids, NEW st \in QueueMoves, queue_step(e, st)
    PROVE  AbstractStep
<1> DEFINE S == IF Pending(st) THEN {} ELSE {e}
<1>1. UNCHANGED WithdrawnEvents
  BY DEF queue_step, WithdrawnEvents, sourceVars, eventVars
<1>2. \A x \in Ids : queue'[x] = IF x = e THEN st ELSE queue[x]
  BY DEF queue_step, IInv, TypeOK
<1>3. Pending(queue[e]) /\ e \in received /\ (Pending(st) \/ Terminal(st))
  BY DEF queue_step, QueueMoves, IInv, ActiveReceived, Pending, Terminal
<1>4. \A x \in Ids : Phase(x)' = IF x \in S THEN "done" ELSE Phase(x)
  BY <1>2, <1>3 DEF queue_step, Phase, Pending, Terminal, eventVars
<1>5. \A x \in S : Phase(x) = "admitted"
  BY <1>3 DEF Phase
<1> QED BY <1>1, <1>4, <1>5, Finishes

\* A foreign submission is no abstract step.
LEMMA ForeignRefines ==
    ASSUME IInv, NEW e \in Taken, foreign_submit(e)
    PROVE  AbstractStep
<1>1. UNCHANGED WithdrawnEvents
  BY DEF foreign_submit, WithdrawnEvents, sourceVars, eventVars
<1>2. \A x \in Ids : Phase(x)' = Phase(x)
  BY IntakeAssumption DEF foreign_submit, Phase, Pending, Terminal, eventVars, IInv, TypeOK
<1> QED BY <1>1, <1>2, Stutters

\* A crash is Finish of the submissions the restart interrupts.
LEMMA CrashRefines ==
    ASSUME IInv, crash
    PROVE  AbstractStep
<1>1. PICK S \in SUBSET {e \in Ids : queue[e] = "running"} :
        queue' = [e \in Ids |-> IF e \in S THEN "interrupted"
                    ELSE IF queue[e] = "running" THEN "queued" ELSE queue[e]]
  BY DEF crash
<1>2. UNCHANGED WithdrawnEvents
  BY DEF crash, WithdrawnEvents, sourceVars, eventVars
<1>3. S \subseteq received
  BY <1>1 DEF IInv, ActiveReceived, Pending
<1>4. \A x \in Ids : Phase(x)' = IF x \in S THEN "done" ELSE Phase(x)
  BY <1>1, <1>3 DEF crash, Phase, Pending, Terminal, eventVars
<1>5. \A x \in S : Phase(x) = "admitted"
  BY <1>1, <1>3 DEF Phase, Pending
<1> QED BY <1>1, <1>2, <1>4, <1>5, Finishes

\* A new row of an enabled source is Receive, a known one no step.
LEMMA InsertRefines ==
    ASSUME IInv, NEW e \in Ids, Source(e) \notin disabled,
           received' = received \cup {e}, UNCHANGED <<settled, cancelled, disabled, queue>>
    PROVE  AbstractStep
<1>1. CASE e \in received
  <2>1. received' = received
    BY <1>1
  <2> QED BY <2>1, SameRows
<1>2. CASE e \notin received
  <2>1. e \notin cancelled /\ e \notin settled
    BY <1>2 DEF IInv, TypeOK
  <2>2. ~Pending(queue[e]) /\ ~Terminal(queue[e])
    BY <1>2 DEF IInv, ActiveReceived
  <2>3. UNCHANGED WithdrawnEvents
    BY <2>1 DEF WithdrawnEvents
  <2>4. Phase(e) = "unknown"
    BY <1>2 DEF Phase
  <2>5. \A x \in Ids : Phase(x)' = IF x \in {e} THEN "received" ELSE Phase(x)
    BY <1>2, <2>1, <2>2 DEF Phase
  <2> QED BY <2>3, <2>4, <2>5, Receives
<1> QED BY <1>1, <1>2

\* Host::deliver_event is Receive, or no step for a repeated key.
LEMMA DeliverRefines ==
    ASSUME IInv, NEW s \in Webhooks, NEW k \in Keys, deliver_event(s, k)
    PROVE  AbstractStep
<1> DEFINE e == <<s, k>>
<1>1. e \in Ids /\ Source(e) = s /\ UNCHANGED <<settled, cancelled, disabled, queue>>
  BY DEF deliver_event, Ids, Source, sourceVars
<1>2. CASE received' = received
  BY <1>1, <1>2, SameRows
<1>3. CASE received' = received \cup {e} /\ s \notin disabled
  BY <1>1, <1>3, InsertRefines
<1> QED BY <1>2, <1>3 DEF deliver_event, Admissible

\* tick_event_source is Receive.
LEMMA TickRefines ==
    ASSUME IInv, NEW s \in sweep, NEW now \in Clock, tick_event_source(s, now)
    PROVE  AbstractStep
<1> DEFINE e == <<s, Latest(cursor[s], now)>>
<1>1. s \in Schedules /\ s \notin disabled /\ Due(cursor[s], now) /\ cursor[s] \in Clock
  BY DEF tick_event_source, IInv, TypeOK
<1>2. e \in Ids /\ Source(e) = s
  BY <1>1, DueTyped DEF Source
<1>3. received' = received \cup {e} /\ UNCHANGED <<settled, cancelled, disabled, queue>>
  BY DEF tick_event_source
<1> HIDE DEF e
<1> QED BY <1>1, <1>2, <1>3, InsertRefines

\* Host::cancel_event is Withdraw of the event.
LEMMA CancelEventRefines ==
    ASSUME IInv, NEW e \in Ids, cancel_event(e)
    PROVE  AbstractStep
<1>1. WithdrawnEvents' = WithdrawnEvents \cup {e}
  BY DEF cancel_event, WithdrawnEvents, sourceVars
<1>2. \A x \in Ids : Phase(x)' = Phase(x)
  BY DEF cancel_event, Phase
<1>3. {e} \in SUBSET Ids /\ \A x \in {e} : Phase(x) # "unknown"
  BY DEF cancel_event, Phase
<1> QED BY <1>1, <1>2, <1>3, Withdraws

\* Host::disable_event_source is Withdraw of all events of the source.
LEMMA DisableRefines ==
    ASSUME IInv, NEW s \in Sources, disable_event_source(s)
    PROVE  AbstractStep
<1> DEFINE S == {x \in received : Source(x) = s}
<1>1. WithdrawnEvents' = WithdrawnEvents \cup S
  BY DEF disable_event_source, WithdrawnEvents, eventVars
<1>2. \A x \in Ids : Phase(x)' = Phase(x)
  BY DEF disable_event_source, Phase, eventVars
<1>3. S \in SUBSET Ids /\ \A x \in S : Phase(x) # "unknown"
  BY DEF Phase, IInv, TypeOK
<1> QED BY <1>1, <1>2, <1>3, Withdraws

\* save_event of the copy in hand, with the cancellation as it is known,
\* drops the event if it settles without a receipt.
LEMMA SettleRefines ==
    ASSUME IInv, NEW e \in received, e \notin settled,
           settled' = settled \/ (settled' = settled \cup {e} /\ ~Pending(queue[e])),
           UNCHANGED <<received, disabled, queue, WithdrawnEvents>>
    PROVE  AbstractStep
<1>1. e \in Ids
  BY DEF IInv, TypeOK
<1>2. CASE settled' = settled \/ Terminal(queue[e])
  <2>1. \A x \in Ids : Phase(x)' = Phase(x)
    BY <1>2 DEF Phase
  <2> QED BY <2>1, Stutters
<1>3. CASE settled' = settled \cup {e} /\ ~Pending(queue[e]) /\ ~Terminal(queue[e])
  <2>1. Phase(e) = "received"
    BY <1>3 DEF Phase
  <2>2. \A x \in Ids : Phase(x)' = IF x \in {e} THEN "dropped" ELSE Phase(x)
    BY <1>1, <1>3 DEF Phase
  <2> QED BY <1>1, <2>1, <2>2, Drops
<1> QED BY <1>2, <1>3

\* A conflict is Drop.
LEMMA ConflictRefines ==
    ASSUME IInv, conflict
    PROVE  AbstractStep
<1>0. hand \in Copies /\ hand.id \in Ids /\ hand.id \in received
  BY CopyFields DEF conflict, IInv, HolderInv, InHand
<1>1. hand.id \notin settled /\ hand.settled /\ ~Pending(queue[hand.id])
         /\ (hand.cancel <=> hand.id \in cancelled)
  BY DEF conflict, IInv, HolderInv, StillOpen, AtConflict, CancelAgrees, Pending
<1>2. settled' = settled \cup {hand.id} /\ cancelled' = cancelled
  BY <1>1 DEF conflict, save_event
<1>3. UNCHANGED <<received, disabled, queue>>
  BY DEF conflict, save_event, sourceVars
<1>4. UNCHANGED WithdrawnEvents
  BY <1>2, <1>3 DEF WithdrawnEvents
<1> QED BY <1>0, <1>1, <1>2, <1>3, <1>4, SettleRefines

\* The final write of reconcile_event is Drop, or no abstract step.
LEMMA SaveRefines ==
    ASSUME IInv, save
    PROVE  AbstractStep
<1>0. hand \in Copies /\ hand.id \in Ids /\ hand.id \in received
  BY CopyFields DEF save, IInv, HolderInv, InHand
<1>1. hand.id \notin settled /\ (hand.cancel <=> hand.id \in cancelled)
         /\ (hand.settled \/ Terminal(hand.seen) => ~Pending(queue[hand.id]))
  BY DEF save, IInv, HolderInv, StillOpen, AtSave, CancelAgrees
<1> DEFINE ev == [hand EXCEPT !.settled = @ \/ Terminal(hand.seen)]
<1>2. ev.id = hand.id /\ ev.cancel = hand.cancel /\ (ev.settled <=> hand.settled \/ Terminal(hand.seen))
  BY <1>0, Zenon DEF Copies
<1>3. save_event(ev)
  BY DEF save
<1> HIDE DEF ev
<1>4. cancelled' = cancelled
  BY <1>1, <1>2, <1>3 DEF save_event
<1>5. settled' = settled \/ (settled' = settled \cup {hand.id} /\ ~Pending(queue[hand.id]))
  BY <1>1, <1>2, <1>3 DEF save_event
<1>6. UNCHANGED <<received, disabled, queue>>
  BY DEF save, save_event, sourceVars
<1>7. UNCHANGED WithdrawnEvents
  BY <1>4, <1>6 DEF WithdrawnEvents
<1> QED BY <1>0, <1>1, <1>5, <1>6, <1>7, SettleRefines

\* The cancellation reconcile_event records was already in force.
LEMMA CancelRefines ==
    ASSUME IInv, cancel
    PROVE  AbstractStep
<1>0. hand \in Copies /\ hand.id \in Ids /\ hand.id \in received
  BY CopyFields DEF cancel, IInv, HolderInv, InHand
<1>1. /\ hand.id \notin settled /\ hand.cancel /\ ~hand.settled
      /\ hand.id \in cancelled \/ Source(hand.id) \in disabled
  BY DEF cancel, IInv, HolderInv, StillOpen, AtCancel
<1>2. settled' = settled /\ cancelled' = cancelled \cup {hand.id}
  BY <1>1 DEF cancel, save_event
<1>3. UNCHANGED <<received, disabled, queue>>
  BY DEF cancel, save_event, sourceVars
<1>4. UNCHANGED WithdrawnEvents
  BY <1>0, <1>1, <1>2, <1>3 DEF WithdrawnEvents
<1> QED BY <1>0, <1>1, <1>2, <1>3, <1>4, SettleRefines

\* Cancelling a submission is Finish, or no step for running work.
LEMMA WithdrawRefines ==
    ASSUME IInv, NEW st \in {"running", "cancelled", "finished", "interrupted"}, withdraw(st)
    PROVE  AbstractStep
<1>0. hand \in Copies /\ hand.id \in Ids /\ hand.id \in received
  BY CopyFields DEF withdraw, IInv, HolderInv, InHand
<1> DEFINE e == hand.id
           S == IF Pending(queue[e]) /\ Terminal(st) THEN {e} ELSE {}
<1>1. queue[e] \notin {"absent", "foreign"}
  BY DEF withdraw, IInv, HolderInv, AtWithdraw
<1>2. UNCHANGED WithdrawnEvents
  BY DEF withdraw, WithdrawnEvents, sourceVars, eventVars
<1>3. \A x \in Ids : queue'[x] = IF x = e THEN st ELSE queue[x]
  BY <1>0 DEF withdraw, IInv, TypeOK
<1>4. (Pending(queue[e]) /\ Pending(st)) \/ (Pending(queue[e]) /\ Terminal(st))
         \/ (Terminal(queue[e]) /\ st = queue[e])
  BY <1>1 DEF withdraw, Pending, Terminal
<1>5. \A x \in Ids : Phase(x)' = IF x \in S THEN "done" ELSE Phase(x)
  BY <1>0, <1>3, <1>4 DEF withdraw, Phase, Pending, Terminal, eventVars
<1>6. S \in SUBSET Ids /\ \A x \in S : Phase(x) = "admitted"
  BY <1>0 DEF Phase
<1> QED BY <1>2, <1>5, <1>6, Finishes

\* A successful submit is Admit: the first, and not after withdrawal.
LEMMA AdmitRefines ==
    ASSUME IInv, admit
    PROVE  AbstractStep
<1>0. hand \in Copies /\ hand.id \in Ids /\ hand.id \in received
  BY CopyFields DEF admit, IInv, HolderInv, InHand
<1> DEFINE e == hand.id
<1>1. e \notin settled /\ e \notin WithdrawnEvents
  BY DEF admit, IInv, HolderInv, StillOpen, AtAdmit, WithdrawnEvents
<1>2. UNCHANGED WithdrawnEvents
  BY DEF admit, WithdrawnEvents, sourceVars, eventVars
<1>3. CASE queue' = queue
  BY <1>3, SameRows DEF admit, sourceVars, eventVars
<1>4. CASE queue[e] = "absent" /\ queue' = [queue EXCEPT ![e] = "queued"]
  <2>1. Phase(e) = "received"
    BY <1>0, <1>1, <1>4 DEF Phase, Pending, Terminal
  <2>2. \A x \in Ids : Phase(x)' = IF x \in {e} THEN "admitted" ELSE Phase(x)
    BY <1>0, <1>1, <1>4 DEF admit, Phase, Pending, Terminal, eventVars, IInv, TypeOK
  <2> QED BY <1>0, <1>1, <1>2, <2>1, <2>2, Admits
<1> QED BY <1>3, <1>4 DEF admit

\* Every step of the intake is a step of EventDelivery, or none.
LEMMA StepRefines == IInv /\ [Next]_vars => AbstractStep
<1> SUFFICES ASSUME IInv, [Next]_vars PROVE AbstractStep
  OBVIOUS
<1>1. CASE \E s \in Sources : register_event_source(s) \/ disable_event_source(s)
  <2>1. ASSUME NEW s \in Sources, register_event_source(s) PROVE AbstractStep
    BY <2>1, SameRows DEF register_event_source, eventVars
  <2> QED BY <1>1, <2>1, DisableRefines
<1>2. CASE \E s \in Webhooks, k \in Keys : deliver_event(s, k)
  BY <1>2, DeliverRefines
<1>3. CASE \E e \in Ids : cancel_event(e)
  BY <1>3, CancelEventRefines
<1>4. CASE \E e \in Taken : foreign_submit(e)
  BY <1>4, ForeignRefines
<1>5. CASE run_event_intake
  BY <1>5, SameRows DEF run_event_intake, sourceVars, eventVars
<1>6. CASE HolderStep
  <2>1. CASE tick
    BY <2>1, TickRefines DEF tick
  <2>2. CASE \E st \in {"running", "cancelled", "finished", "interrupted"} : withdraw(st)
    BY <2>2, WithdrawRefines
  <2>3. CASE next \/ load
    <3>1. UNCHANGED <<received, settled, cancelled, disabled, queue>>
      BY <2>3 DEF next, load, sourceVars, eventVars
    <3> QED BY <3>1, SameRows
  <2> QED BY <1>6, <2>1, <2>2, <2>3, ConflictRefines, CancelRefines, AdmitRefines, SaveRefines
          DEF HolderStep
<1>7. CASE \E e \in Ids, st \in QueueMoves : queue_step(e, st)
  BY <1>7, QueueRefines
<1>8. CASE shutdown
  BY <1>8, SameRows DEF shutdown, sourceVars, eventVars
<1>9. CASE crash
  BY <1>9, CrashRefines
<1>10. CASE UNCHANGED vars
  BY <1>10, SameRows DEF vars, sourceVars, eventVars
<1> QED BY <1>1, <1>2, <1>3, <1>4, <1>5, <1>6, <1>7, <1>8, <1>9, <1>10 DEF Next

\* Event intake implements EventDelivery for every set of sources, keys and
\* bounds: an event is admitted at most once, never after it was withdrawn,
\* and its end is final, across repeats, races with the queue and crashes
\* (deliver_event, cancel_event, disable_event_source, reconcile_event).
THEOREM IntakeDelivers == Spec => DeliveredAtMostOnce
<1>1. Init => Delivery!Init
  BY DEF Init, Delivery!Init, Phase, WithdrawnEvents
<1>2. IInv /\ [Next]_vars => [Delivery!Next]_(Delivery!vars)
  BY StepRefines DEF AbstractStep
<1> QED BY <1>1, <1>2, Inductive, PTL DEF Spec, DeliveredAtMostOnce, Delivery!Spec

\* A submission that only shares an event's request id is left alone: the
\* holder cancels only what it found to be the event's own (reconcile_event).
THEOREM ForeignLeftAlone == Spec => ForeignUntouched
<1>1. ASSUME IInv, [Next]_vars, NEW e \in Ids, queue[e] = "foreign" PROVE queue'[e] = "foreign"
  <2>0. queue \in [Ids -> Statuses]
    BY <1>1 DEF IInv, TypeOK
  <2>1. CASE UNCHANGED queue
    BY <1>1, <2>1
  <2>2. ASSUME NEW st \in {"running", "cancelled", "finished", "interrupted"}, withdraw(st)
        PROVE  queue'[e] = "foreign"
    <3>1. hand.id # e
      BY <1>1, <2>2 DEF withdraw, IInv, HolderInv, AtWithdraw
    <3> QED BY <1>1, <2>0, <2>2, <3>1 DEF withdraw
  <2>3. CASE admit
    BY <1>1, <2>0, <2>3 DEF admit
  <2>4. ASSUME NEW x \in Ids, NEW st \in QueueMoves, queue_step(x, st)
        PROVE  queue'[e] = "foreign"
    BY <1>1, <2>0, <2>4 DEF queue_step
  <2>5. ASSUME NEW x \in Taken, foreign_submit(x) PROVE queue'[e] = "foreign"
    BY <1>1, <2>0, <2>5 DEF foreign_submit
  <2>6. CASE crash
    BY <1>1, <2>6 DEF crash
  <2>7. \/ UNCHANGED queue \/ admit \/ crash
        \/ \E st \in {"running", "cancelled", "finished", "interrupted"} : withdraw(st)
        \/ \E x \in Ids, st \in QueueMoves : queue_step(x, st)
        \/ \E x \in Taken : foreign_submit(x)
    BY <1>1 DEF Next, HolderStep, register_event_source, disable_event_source, deliver_event,
       cancel_event, run_event_intake, next, tick, tick_event_source, load, conflict, cancel,
       save, shutdown, vars
  <2> QED BY <2>1, <2>2, <2>3, <2>4, <2>5, <2>6, <2>7
<1>2. IInv /\ [Next]_vars => [\A e \in Ids : queue[e] = "foreign" => queue'[e] = "foreign"]_vars
  BY <1>1
<1> QED BY <1>2, Inductive, PTL DEF Spec, ForeignUntouched

-----------------------------------------------------------------------------
(* Schedules.  The cursor stays on the schedule's grid above every event, so *)
(* the occurrences a tick takes are the ones up to the new cursor.           *)
OnGrid(t) == t >= FirstDue /\ (t - FirstDue) % Period = 0
Single(s) == \A e, f \in Unsettled : Source(e) = s /\ Source(f) = s => e = f
Ahead(s) == /\ OnGrid(cursor[s])
            /\ \A t \in Clock : covers[<<s, t>>] # {} => t < cursor[s]
ScheduleInv == \A s \in Schedules : Ahead(s) /\ Single(s)

LEMMA MultiplesApart ==
    ASSUME NEW P \in Nat \ {0}, NEW j \in Nat, NEW q \in Nat, j > q
    PROVE  j * P >= q * P + P
<1> DEFINE d == j - q
<1>1. d \in Nat /\ d >= 1 /\ j * P = q * P + d * P
  OBVIOUS
<1> HIDE DEF d
<1>2. d * P >= P /\ d * P \in Nat /\ q * P \in Nat
  BY <1>1
<1> QED BY <1>1, <1>2

LEMMA Multiples ==
    ASSUME NEW P \in Nat \ {0}, NEW a \in Nat
    PROVE  a % P = 0 <=> \E k \in Nat : a = k * P
<1> DEFINE q == a \div P
           r == a % P
<1>1. r \in 0..(P - 1)
  OBVIOUS
<1>2. q \in Nat
  OBVIOUS
<1>3. a = P * (a \div P) + (a % P)
  OBVIOUS
<1>4. q \in Nat /\ r \in Nat /\ r < P /\ a = q * P + r
  BY <1>1, <1>2, <1>3
<1> HIDE DEF q, r
<1>5. ASSUME r = 0 PROVE \E k \in Nat : a = k * P
  <2>1. a = q * P
    BY <1>4, <1>5
  <2> QED BY <1>4, <2>1
<1>6. ASSUME NEW k \in Nat, a = k * P PROVE r = 0
  <2>1. k * P \in Nat /\ q * P \in Nat
    BY <1>4
  <2>2. ~(k > q) /\ ~(q > k)
    BY <1>4, <1>6, <2>1, MultiplesApart
  <2>3. k = q
    BY <1>4, <2>2
  <2> QED BY <1>4, <1>6, <2>1, <2>3
<1>7. r = 0 <=> \E k \in Nat : a = k * P
  BY <1>5, <1>6
<1> QED BY <1>7 DEF r

\* latest_due: the occurrences from the cursor up to the latest one are exactly
\* those below the next cursor.
LEMMA GridAdvances ==
    ASSUME NEW n \in Clock, NEW now \in Clock, Due(n, now), OnGrid(n)
    PROVE  /\ n <= Latest(n, now) /\ Latest(n, now) < Following(n, now)
           /\ OnGrid(Following(n, now))
           /\ \A t \in Clock :
                 OnGrid(t) /\ t < Following(n, now) <=>
                    \/ OnGrid(t) /\ t < n
                    \/ t >= n /\ t <= Latest(n, now) /\ (t - n) % Period = 0
<1> DEFINE q == (now - n) \div Period
<1>1. /\ n \in Nat /\ now \in Nat /\ now >= n /\ Period \in Nat \ {0} /\ FirstDue \in Nat
      /\ n >= FirstDue
  BY IntakeAssumption DEF Clock, Due, OnGrid
<1>2. q \in Nat
  BY <1>1
<1>3. Occurrences(n, now) - 1 = q
  BY <1>1, <1>2 DEF Occurrences
<1>4. Latest(n, now) = n + q * Period /\ Following(n, now) = n + q * Period + Period
  BY <1>3 DEF Latest, Following
<1> HIDE DEF q
<1>5. q * Period \in Nat
  BY <1>1, <1>2
<1>6. n - FirstDue \in Nat
  BY <1>1
<1>7. PICK m \in Nat : n - FirstDue = m * Period
  BY <1>1, <1>6, Multiples DEF OnGrid
<1>8. OnGrid(Following(n, now))
  <2>1. Following(n, now) - FirstDue = (m + q + 1) * Period /\ m + q + 1 \in Nat
    BY <1>1, <1>2, <1>4, <1>5, <1>7
  <2>2. Following(n, now) >= FirstDue /\ Following(n, now) - FirstDue \in Nat
    BY <1>1, <1>4, <1>5
  <2> QED BY <1>1, <2>1, <2>2, Multiples DEF OnGrid
<1>9. ASSUME NEW t \in Clock, t >= n
      PROVE  OnGrid(t) <=> (t - n) % Period = 0
  <2>1. t \in Nat /\ t - n \in Nat /\ t - FirstDue \in Nat /\ t >= FirstDue
    BY <1>1, <1>9 DEF Clock
  <2>2. ASSUME NEW j \in Nat, t - n = j * Period PROVE OnGrid(t)
    <3>1. t - FirstDue = (j + m) * Period /\ j + m \in Nat
      BY <1>1, <1>7, <2>1, <2>2
    <3> QED BY <1>1, <2>1, <3>1, Multiples DEF OnGrid
  <2>3. ASSUME NEW k \in Nat, t - FirstDue = k * Period PROVE (t - n) % Period = 0
    <3>1. k * Period \in Nat /\ m * Period \in Nat /\ k * Period >= m * Period
      BY <1>1, <1>7, <1>9, <2>1, <2>3
    <3>2. ~(m > k)
      BY <1>1, <3>1, MultiplesApart
    <3>3. k - m \in Nat /\ t - n = (k - m) * Period
      BY <1>1, <1>7, <2>1, <2>3, <3>1, <3>2
    <3> QED BY <1>1, <2>1, <3>3, Multiples
  <2> QED BY <1>1, <2>1, <2>2, <2>3, Multiples DEF OnGrid
<1>10. ASSUME NEW t \in Clock, t >= n, t < Following(n, now), (t - n) % Period = 0
       PROVE  t <= Latest(n, now)
  <2>1. t \in Nat /\ t - n \in Nat
    BY <1>1, <1>10 DEF Clock
  <2>2. PICK j \in Nat : t - n = j * Period
    BY <1>1, <1>10, <2>1, Multiples
  <2>3. j * Period \in Nat /\ j * Period < q * Period + Period
    BY <1>1, <1>4, <1>5, <1>10, <2>1, <2>2
  <2>4. ~(j > q)
    BY <1>1, <1>2, <1>5, <2>3, MultiplesApart
  <2>5. j * Period <= q * Period
    <3>1. CASE j = q
      BY <1>5, <3>1
    <3>2. CASE q > j
      BY <1>1, <1>2, <1>5, <2>3, <3>2, MultiplesApart
    <3> QED BY <1>2, <2>4, <3>1, <3>2
  <2> QED BY <1>1, <1>4, <1>5, <2>1, <2>2, <2>3, <2>5
<1>11. n <= Latest(n, now) /\ Latest(n, now) < Following(n, now)
  BY <1>1, <1>4, <1>5
<1>12. ASSUME NEW t \in Clock
       PROVE  OnGrid(t) /\ t < Following(n, now) <=>
                    \/ OnGrid(t) /\ t < n
                    \/ t >= n /\ t <= Latest(n, now) /\ (t - n) % Period = 0
  <2>1. t \in Nat /\ Latest(n, now) \in Nat /\ Following(n, now) \in Nat
    BY <1>1, <1>4, <1>5 DEF Clock
  <2>2. CASE t < n
    BY <1>1, <1>11, <2>1, <2>2
  <2>3. CASE t >= n
    BY <1>1, <1>9, <1>10, <1>11, <2>1, <2>3
  <2> QED BY <1>1, <2>1, <2>2, <2>3
<1> QED BY <1>8, <1>11, <1>12


\* A step that moves no cursor and receives no schedule's event.
LEMMA ScheduleStays ==
    ASSUME IInv, ScheduleInv, CoverageExact, UNCHANGED <<cursor, covers>>,
           received \subseteq received', settled \subseteq settled',
           \A e \in received' \ received : Source(e) \notin Schedules
    PROVE  ScheduleInv' /\ CoverageExact'
<1>1. \A e \in Unsettled' : Source(e) \in Schedules => e \in Unsettled
  BY DEF Unsettled
<1>2. ScheduleInv'
  BY <1>1 DEF ScheduleInv, Ahead, Single
<1>3. CoverageExact'
  BY DEF CoverageExact
<1> QED BY <1>2, <1>3

\* tick_event_source takes the occurrences up to the latest one into one event.
LEMMA TickSchedules ==
    ASSUME IInv, ScheduleInv, CoverageExact, NEW s \in Schedules, NEW now \in Clock,
           tick_event_source(s, now)
    PROVE  ScheduleInv' /\ CoverageExact'
<1> DEFINE n == cursor[s]
           L == Latest(n, now)
           F == Following(n, now)
           D == {t \in Clock : t >= n /\ t <= L /\ (t - n) % Period = 0}
<1>0. /\ n \in Clock /\ Due(n, now) /\ OnGrid(n) /\ cursor \in [Schedules -> Clock]
      /\ covers \in [Ids -> SUBSET Clock] /\ Idle(s)
      /\ \A t \in Clock : covers[<<s, t>>] # {} => t < n
  BY DEF tick_event_source, IInv, TypeOK, ScheduleInv, Ahead
<1>1. <<s, L>> \in Ids /\ F \in Clock
  BY <1>0, DueTyped
<1>2. /\ n <= L /\ L < F /\ OnGrid(F)
      /\ \A t \in Clock : OnGrid(t) /\ t < F <=> (OnGrid(t) /\ t < n) \/ t \in D
  BY <1>0, GridAdvances
<1>3. /\ covers' = [covers EXCEPT ![<<s, L>>] = D]
      /\ cursor' = [cursor EXCEPT ![s] = F] /\ received' = received \cup {<<s, L>>}
      /\ UNCHANGED settled
  BY DEF tick_event_source
<1>4. L \in Clock
  BY <1>0, <1>1, <1>2, DueTyped, IntakeAssumption DEF Ids, Clock, Latest, Occurrences, Following, Due
<1>5. n \in Nat /\ L \in Nat /\ F \in Nat
  BY <1>0, <1>1, <1>4 DEF Clock
<1>6. covers[<<s, L>>] = {}
  BY <1>0, <1>2, <1>4, <1>5
<1>d. D \subseteq Clock /\ \A t \in D : t >= n /\ t < F
  BY <1>2, <1>5 DEF Clock
<1> HIDE DEF D, L, F, n
<1>7. /\ covers'[<<s, L>>] = D
      /\ \A t \in Clock \ {L} : covers'[<<s, t>>] = covers[<<s, t>>]
      /\ cursor'[s] = F
  BY <1>0, <1>1, <1>3 DEF Ids
<1>8. ASSUME NEW q \in Schedules \ {s}
      PROVE  cursor'[q] = cursor[q] /\ \A t \in Clock : covers'[<<q, t>>] = covers[<<q, t>>]
  BY <1>0, <1>1, <1>3, <1>8 DEF Ids
<1>9. Ahead(s)'
  <2>1. \A t \in Clock : t \in Nat
    BY DEF Clock
  <2>2. ASSUME NEW t \in Clock, covers'[<<s, t>>] # {} PROVE t < F
    BY <1>0, <1>2, <1>5, <1>7, <2>1, <2>2
  <2> QED BY <1>2, <1>7, <2>2 DEF Ahead, OnGrid
<1>10. Single(s)'
  <2>1. ASSUME NEW e \in Unsettled', Source(e) = s PROVE e = <<s, L>>
    BY <1>0, <1>3, <2>1 DEF Unsettled, Idle
  <2> QED BY <2>1 DEF Single
<1>11. ASSUME NEW q \in Schedules \ {s} PROVE Ahead(q)' /\ Single(q)'
  <2>1. Ahead(q)'
    BY <1>8 DEF ScheduleInv, Ahead, OnGrid
  <2>2. \A e \in Unsettled' : Source(e) = q => e \in Unsettled
    BY <1>3 DEF Unsettled, Source
  <2>3. Single(q)'
    BY <2>2 DEF ScheduleInv, Single
  <2> QED BY <2>1, <2>3
<1>12. ScheduleInv'
  BY <1>9, <1>10, <1>11 DEF ScheduleInv
<1> DEFINE Below(c) == {t \in Clock : t >= FirstDue /\ t < c /\ (t - FirstDue) % Period = 0}
           Exact(q) == /\ UNION {covers[<<q, t>>] : t \in Clock} = Below(cursor[q])
                       /\ \A t, u \in Clock : t # u => covers[<<q, t>>] \cap covers[<<q, u>>] = {}
                       /\ \A t \in Clock : covers[<<q, t>>] # {} => <<q, t>> \in received
<1>13. \A q \in Schedules : Exact(q)
  BY DEF CoverageExact
<1>14. ASSUME NEW q \in Schedules \ {s} PROVE Exact(q)'
  <2>1. cursor'[q] = cursor[q] /\ \A t \in Clock : covers'[<<q, t>>] = covers[<<q, t>>]
    BY <1>8
  <2>2. UNION {covers'[<<q, t>>] : t \in Clock} = UNION {covers[<<q, t>>] : t \in Clock}
    BY <2>1
  <2>3. Exact(q)
    BY <1>13
  <2>4. UNION {covers'[<<q, t>>] : t \in Clock} = Below(cursor'[q])
    BY <2>1, <2>2, <2>3
  <2>5. ASSUME NEW t \in Clock, NEW u \in Clock, t # u
        PROVE  covers'[<<q, t>>] \cap covers'[<<q, u>>] = {}
    BY <2>1, <2>3, <2>5
  <2>6. ASSUME NEW t \in Clock, covers'[<<q, t>>] # {} PROVE <<q, t>> \in received'
    BY <1>3, <2>1, <2>3, <2>6
  <2> QED BY <2>4, <2>5, <2>6
<1>15. Exact(s)'
  <2>1. \A t \in Clock : \A x \in covers[<<s, t>>] : x \in Below(n)
    BY <1>13 DEF n
  <2>2. \A x \in Below(n) : \E t \in Clock : x \in covers[<<s, t>>]
    BY <1>13 DEF n
  <2>3. \A x \in Clock : x \in Below(F) <=> x \in Below(n) \/ x \in D
    BY <1>2 DEF OnGrid
  <2>4. \A x \in Below(n) : x \notin D
    BY <1>d, <1>5 DEF Clock
  <2>5. UNION {covers'[<<s, t>>] : t \in Clock} = Below(F)
    <3>1. ASSUME NEW t \in Clock, NEW x \in covers'[<<s, t>>] PROVE x \in Below(F)
      <4>1. CASE t = L
        BY <1>7, <1>d, <2>3, <3>1, <4>1
      <4>2. CASE t # L
        <5>1. x \in Below(n)
          BY <1>7, <2>1, <3>1, <4>2
        <5> QED BY <2>3, <5>1
      <4> QED BY <4>1, <4>2
    <3>2. ASSUME NEW x \in Below(F) PROVE \E t \in Clock : x \in covers'[<<s, t>>]
      <4>1. CASE x \in D
        BY <1>4, <1>7, <4>1
      <4>2. CASE x \in Below(n)
        <5>1. PICK t \in Clock : x \in covers[<<s, t>>]
          BY <2>2, <4>2
        <5>2. t # L
          BY <1>6, <5>1
        <5> QED BY <1>7, <5>1, <5>2
      <4> QED BY <2>3, <3>2, <4>1, <4>2
    <3> QED BY <3>1, <3>2
  <2>6. ASSUME NEW t \in Clock, NEW u \in Clock, t # u
        PROVE  covers'[<<s, t>>] \cap covers'[<<s, u>>] = {}
    <3>1. covers[<<s, t>>] \cap covers[<<s, u>>] = {}
      BY <1>13, <2>6
    <3> QED BY <1>7, <2>1, <2>4, <2>6, <3>1
  <2>7. ASSUME NEW t \in Clock, covers'[<<s, t>>] # {} PROVE <<s, t>> \in received'
    BY <1>3, <1>7, <1>13, <2>7
  <2> QED BY <1>7, <2>5, <2>6, <2>7
<1>16. CoverageExact'
  <2>1. \A q \in Schedules : Exact(q)'
    BY <1>14, <1>15
  <2> QED BY <2>1, Zenon DEF CoverageExact
<1> QED BY <1>12, <1>16

\* Only reconcile_event writes rows back, and never takes a settlement back.
LEMMA SettledGrows ==
    ASSUME IInv, [Next]_vars PROVE settled \subseteq settled' /\ received \subseteq received'
<1>1. ASSUME NEW ev, save_event(ev), ev.id \notin settled PROVE settled \subseteq settled'
  BY <1>1 DEF save_event
<1>2. CASE conflict \/ cancel
  BY <1>1, <1>2 DEF conflict, cancel, IInv, HolderInv, StillOpen, save_event
<1>3. CASE save
  <2>1. hand.id \notin settled /\ hand \in Copies
    BY <1>3 DEF save, IInv, HolderInv, StillOpen, InHand
  <2>2. PICK d : save_event([hand EXCEPT !.settled = d])
    BY <1>3 DEF save
  <2>3. [hand EXCEPT !.settled = d].id = hand.id
    BY <2>1 DEF Copies
  <2>4. settled \subseteq settled'
    BY <1>1, <2>1, <2>2, <2>3
  <2> QED BY <1>3, <2>4 DEF save, save_event
<1>4. CASE ~(conflict \/ cancel \/ save)
  BY <1>4 DEF Next, HolderStep, register_event_source, disable_event_source, deliver_event,
     cancel_event, run_event_intake, next, tick, tick_event_source, load, withdraw, admit,
     queue_step, foreign_submit, shutdown, crash, vars, eventVars
<1> QED BY <1>2, <1>3, <1>4 DEF conflict, cancel, save_event

LEMMA ScheduleStep ==
    IInv /\ ScheduleInv /\ CoverageExact /\ [Next]_vars => ScheduleInv' /\ CoverageExact'
<1> SUFFICES ASSUME IInv, ScheduleInv, CoverageExact, [Next]_vars
             PROVE  ScheduleInv' /\ CoverageExact'
  OBVIOUS
<1>1. CASE tick
  <2>1. PICK s \in sweep, now \in Clock : tick_event_source(s, now)
    BY <1>1 DEF tick
  <2> QED BY <2>1, TickSchedules DEF tick_event_source
<1>2. CASE ~tick
  <2>1. UNCHANGED <<cursor, covers>>
    BY <1>2 DEF Next, HolderStep, register_event_source, disable_event_source, deliver_event,
       cancel_event, run_event_intake, next, load, conflict, cancel, withdraw, admit, save,
       save_event, queue_step, foreign_submit, shutdown, crash, vars, eventVars, sourceVars
  <2>2. \A e \in received' \ received : Source(e) \notin Schedules
    <3>1. CASE UNCHANGED received
      BY <3>1
    <3>2. ASSUME NEW s \in Webhooks, NEW k \in Keys, deliver_event(s, k)
          PROVE  \A e \in received' \ received : Source(e) \notin Schedules
      <4>1. received' \subseteq received \cup {<<s, k>>}
        BY <3>2 DEF deliver_event
      <4> QED BY <4>1, IntakeAssumption DEF Source
    <3> QED BY <1>2, <3>1, <3>2 DEF Next, HolderStep, register_event_source,
            disable_event_source, cancel_event, run_event_intake, next, load, conflict, cancel,
            withdraw, admit, save, save_event, queue_step, foreign_submit, shutdown, crash,
            vars, eventVars
  <2> QED BY <2>1, <2>2, SettledGrows, ScheduleStays
<1> QED BY <1>1, <1>2

LEMMA ScheduleInit == Init => ScheduleInv /\ CoverageExact
<1> SUFFICES ASSUME Init PROVE ScheduleInv /\ CoverageExact
  OBVIOUS
<1>1. /\ \A s \in Schedules : cursor[s] = FirstDue
      /\ \A s \in Schedules, t \in Clock : covers[<<s, t>>] = {}
      /\ Unsettled = {}
  BY DEF Init, Ids, Unsettled
<1>2. OnGrid(FirstDue)
  <2>1. FirstDue \in Nat /\ Period \in Nat \ {0} /\ FirstDue - FirstDue = 0
    BY IntakeAssumption
  <2>2. 0 % Period = 0
    BY <2>1
  <2> QED BY <2>1, <2>2 DEF OnGrid
<1>3. ScheduleInv
  BY <1>1, <1>2 DEF ScheduleInv, Ahead, Single
<1>4. ASSUME NEW s \in Schedules
      PROVE  {t \in Clock : t >= FirstDue /\ t < cursor[s] /\ (t - FirstDue) % Period = 0} = {}
  BY <1>1, IntakeAssumption DEF Clock
<1>5. ASSUME NEW s \in Schedules PROVE UNION {covers[<<s, t>>] : t \in Clock} = {}
  BY <1>1
<1>6. CoverageExact
  BY <1>1, <1>4, <1>5 DEF CoverageExact
<1> QED BY <1>3, <1>6

\* Schedules are exact for every period, first due time and clock: no occurrence
\* is lost or delivered twice, however the clock jumps, the intake is full or
\* the host restarts, and a schedule has at most one event outstanding
\* (tick_event_source, latest_due).
THEOREM SchedulesKept == Spec => []SchedulesExact
<1>1. Spec => [](ScheduleInv /\ CoverageExact)
  <2>1. IInv /\ ScheduleInv /\ CoverageExact /\ [Next]_vars => (ScheduleInv /\ CoverageExact)'
    BY ScheduleStep
  <2> QED BY <2>1, ScheduleInit, Inductive, PTL DEF Spec
<1>2. ScheduleInv => OnePerSchedule
  <2> SUFFICES ASSUME ScheduleInv, NEW s \in Schedules
               PROVE  Cardinality({e \in Unsettled : Source(e) = s}) <= 1
    BY DEF OnePerSchedule
  <2> DEFINE E == {e \in Unsettled : Source(e) = s}
  <2>1. CASE E = {}
    BY <2>1, FS_EmptySet
  <2>2. ASSUME NEW e \in E PROVE Cardinality(E) = 1
    <3>1. E = {e}
      BY <2>2 DEF ScheduleInv, Single
    <3> QED BY <3>1, FS_Singleton
  <2> QED BY <2>1, <2>2
<1> QED BY <1>1, <1>2, PTL DEF SchedulesExact
=============================================================================
