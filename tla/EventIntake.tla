----------------------------- MODULE EventIntake -----------------------------
(***************************************************************************)
(* Durable event intake: webhook deliveries and interval schedules that    *)
(* become submissions (harness/src/event_intake.rs, store/event_intake.rs, *)
(* controller/event_intake.rs).                                            *)
(*                                                                         *)
(* Every handler holds the host's event_intake lock from its first to its  *)
(* last store call, and every store call commits on its own: the lock      *)
(* holder's position is a variable, other parts of the host (the queue,    *)
(* shutdown) and crashes come between its commits.  A handler works on a   *)
(* copy of the event record and writes the whole copy back.  The submission *)
(* queue is the environment here; module SubmissionQueue models it.  Error  *)
(* texts and the persisted admission diagnostic of a source are left out,  *)
(* and so are refused calls that change nothing.                           *)
(***************************************************************************)
EXTENDS Naturals, FiniteSets

CONSTANTS
    Webhooks, Schedules,    \* event sources
    Keys,                   \* deduplication keys of deliveries
    FirstDue, Period,       \* of every schedule
    MaxTime,                \* largest representable time
    MaxSources, MaxPending, \* 64 and 128 in the code
    QueueRoom,              \* submissions the queue takes before it is full
    Taken,                  \* request ids an operator's submission may have
    None,
    Rebind,                 \* may a restart change the host's authority
    MaxCrashes

Sources == Webhooks \cup Schedules
Clock == 0..MaxTime
Ids == (Webhooks \X Keys) \cup (Schedules \X Clock)
Source(e) == e[1]

ASSUME IntakeAssumption ==
    /\ FirstDue \in Nat /\ Period \in Nat \ {0} /\ MaxTime \in Nat
    /\ FirstDue + Period <= MaxTime
    /\ MaxSources \in Nat /\ MaxPending \in Nat /\ QueueRoom \in Nat
    /\ Rebind \in BOOLEAN /\ MaxCrashes \in Nat
    /\ Webhooks \cap Schedules = {} /\ Keys \cap Clock = {}
    /\ Taken \subseteq Ids

VARIABLES
    registered, disabled,   \* SourceRecord
    cursor,                 \* next_due_ms of a schedule
    received,               \* rows of event_intake
    cancelled, settled,     \* EventRecord.cancel_requested, .settled
    receipt,                \* EventRecord.submission: the status last seen
    covers,                 \* due times an event stands for
    queue,                  \* the submission with the event's request id
    pc, hand, todo, sweep,  \* the holder of the event_intake lock: its position,
                            \* the event copy in hand, copies and sources to come
    bound,                  \* the host still has the session's authority
    accepting, crashes

sourceVars == <<registered, disabled, cursor>>
eventVars == <<received, cancelled, settled, receipt, covers>>
workVars == <<pc, hand, todo, sweep>>
hostVars == <<bound, accepting, crashes>>
vars == <<sourceVars, eventVars, queue, workVars, hostVars>>

Pending(st) == st \in {"queued", "running"}
Terminal(st) == st \in {"finished", "cancelled", "interrupted"}
Unsettled == received \ settled

\* The handler's copy of an event record.
Copy(e) == [id |-> e, cancel |-> e \in cancelled, seen |-> receipt[e],
            settled |-> e \in settled]

Init ==
    /\ registered = {} /\ disabled = {}
    /\ cursor = [s \in Schedules |-> FirstDue]
    /\ received = {} /\ cancelled = {} /\ settled = {}
    /\ receipt = [e \in Ids |-> "absent"] /\ covers = [e \in Ids |-> {}]
    /\ queue = [e \in Ids |-> "absent"]
    /\ pc = "free" /\ hand = None /\ todo = {} /\ sweep = {}
    /\ bound = TRUE /\ accepting = TRUE /\ crashes = 0

\* The lock is free, and its holder starts with one event or with a list.
Unlocked == pc = "free"
Reconcile(ev, copies, sources) ==
    pc' = "load" /\ hand' = ev /\ todo' = copies /\ sweep' = sources
ReconcileAll(copies, sources) ==
    pc' = "next" /\ hand' = None /\ todo' = copies /\ sweep' = sources
Unlock == pc' = "free" /\ hand' = None /\ todo' = {} /\ sweep' = {}

-----------------------------------------------------------------------------
register_event_source(s) ==
    /\ Unlocked /\ accepting /\ bound
    /\ s \notin registered
    /\ Cardinality(registered \ disabled) < MaxSources
    /\ registered' = registered \cup {s}
    /\ UNCHANGED <<disabled, cursor, eventVars, queue, workVars, hostVars>>

\* Room for one more outstanding event of a source that is still enabled.
Admissible(s) == s \notin disabled /\ Cardinality(Unsettled) < MaxPending

\* Host::deliver_event; a repeated key reconciles the event it named before.
deliver_event(s, k) ==
    LET e == <<s, k>>
    IN  /\ Unlocked /\ accepting /\ s \in registered
        /\ \/ e \in received /\ UNCHANGED received /\ Reconcile(Copy(e), {}, {})
           \/ /\ e \notin received /\ bound /\ Admissible(s)
              /\ received' = received \cup {e} /\ Reconcile(Copy(e), {}, {})
        /\ UNCHANGED <<sourceVars, cancelled, settled, receipt, covers, queue, hostVars>>

\* Host::cancel_event: the intent is durable before anything is cancelled.
cancel_event(e) ==
    /\ Unlocked /\ e \in received
    /\ cancelled' = cancelled \cup {e}
    /\ UNCHANGED <<sourceVars, received, settled, receipt, covers, queue, hostVars>>
    /\ Reconcile(Copy(e)', {}, {})

disable_event_source(s) ==
    /\ Unlocked /\ s \in registered
    /\ disabled' = disabled \cup {s}
    /\ ReconcileAll({Copy(e) : e \in {x \in Unsettled : Source(x) = s}}, {})
    /\ UNCHANGED <<registered, cursor, eventVars, queue, hostVars>>

\* Mutant: events whose admission failed are not tried again.
run_event_intake_bug ==
    /\ Unlocked /\ accepting
    /\ ReconcileAll({}, registered \ disabled)
    /\ UNCHANGED <<sourceVars, eventVars, queue, hostVars>>

\* run_event_intake, once a second: all pending events, then the sources.
run_event_intake ==
    /\ Unlocked /\ accepting
    /\ ReconcileAll({Copy(e) : e \in Unsettled}, registered \ disabled)
    /\ UNCHANGED <<sourceVars, eventVars, queue, hostVars>>

-----------------------------------------------------------------------------
\* The latest due time that is not in the future, if the next one fits.
Occurrences(next, now) == (now - next) \div Period + 1
Latest(next, now) == next + (Occurrences(next, now) - 1) * Period
\* Mutants: the cursor restarts from the clock; the next time need not fit.
Following_bug(next, now) == now + Period
Following(next, now) == Latest(next, now) + Period
Due_bug(next, now) == now >= next
Due(next, now) == now >= next /\ Following(next, now) <= MaxTime

Idle(s) == \A x \in Unsettled : Source(x) # s

\* tick_event_source: cursor and event in one transaction; one unsettled
\* event per schedule, so that what is missed meanwhile is one event later.
tick_event_source(s, now) ==
    LET next == cursor[s]
        e == <<s, Latest(next, now)>>
    IN  /\ bound /\ s \in Schedules \ disabled
        /\ Idle(s)
        /\ Due(next, now) /\ Admissible(s)
        /\ received' = received \cup {e}
        /\ covers' = [covers EXCEPT ![e] = {t \in Clock : t >= next /\ t <= e[2]
                                                /\ (t - next) % Period = 0}]
        /\ cursor' = [cursor EXCEPT ![s] = Following(next, now)]
        /\ Reconcile(Copy(e), {}, sweep \ {s})
        /\ UNCHANGED <<registered, disabled, cancelled, settled, receipt, queue, hostVars>>

\* The holder takes the next event, then the next source, then lets go.
next ==
    /\ pc = "next"
    /\ \/ /\ todo # {}
          /\ \E ev \in todo : Reconcile(ev, todo \ {ev}, sweep)
       \/ /\ todo = {}
          /\ \E s \in sweep : ReconcileAll({}, sweep \ {s})
       \/ todo = {} /\ sweep = {} /\ Unlock
    /\ UNCHANGED <<sourceVars, eventVars, queue, hostVars>>

\* next visits a source that has nothing due; visit one that has.
tick ==
    /\ pc = "next" /\ todo = {}
    /\ \E s \in sweep, now \in Clock : tick_event_source(s, now)

Goto(p, ev) == pc' = p /\ hand' = ev /\ UNCHANGED <<todo, sweep>>

\* save_event writes the whole copy.
save_event(ev) ==
    /\ cancelled' = IF ev.cancel THEN cancelled \cup {ev.id} ELSE cancelled \ {ev.id}
    /\ settled' = IF ev.settled THEN settled \cup {ev.id} ELSE settled \ {ev.id}
    /\ receipt' = [receipt EXCEPT ![ev.id] = ev.seen]
    /\ UNCHANGED <<received, covers>>

\* reconcile_event: the source and the submission are read together.
\* Mutants: any submission with the id is adopted; a disabled source does not
\* cancel its events.
Conflicts_bug(e) == FALSE
Withdrawn_bug(ev) == ev.cancel
Conflicts(e) == queue[e] = "foreign"
Withdrawn(ev) == ev.cancel \/ Source(ev.id) \in disabled
load ==
    LET e == hand.id
        ev == [hand EXCEPT !.cancel = Withdrawn(hand),
                              !.seen = queue[e]]
    IN  /\ pc = "load"
        /\ IF hand.settled THEN ReconcileAll(todo, sweep)
           ELSE IF Conflicts(e) THEN Goto("conflict", [hand EXCEPT !.settled = TRUE])
           ELSE Goto(IF ev.cancel THEN "cancel" ELSE IF ev.seen = "absent"
                     THEN "admit" ELSE "save", ev)
        /\ UNCHANGED <<sourceVars, eventVars, queue, hostVars>>

\* Someone else's submission has the id: neither adopted nor cancelled.
conflict ==
    /\ pc = "conflict"
    /\ save_event(hand) /\ ReconcileAll(todo, sweep)
    /\ UNCHANGED <<sourceVars, queue, hostVars>>

\* The cancellation is durable before the queue hears of it.
cancel ==
    /\ pc = "cancel"
    /\ save_event(hand)
    /\ IF hand.seen = "absent" THEN Goto("save", [hand EXCEPT !.settled = TRUE])
       ELSE Goto("withdraw", hand)
    /\ UNCHANGED <<sourceVars, queue, hostVars>>

\* Mutant: running work is reported as settled once it was asked to stop.
withdraw_bug(st) ==
    LET e == hand.id
    IN  /\ pc = "withdraw"
        /\ \/ queue[e] \in {"queued", "foreign"} /\ st = "cancelled"
           \/ queue[e] = "running" /\ st \in {"running", "cancelled"}
           \/ Terminal(queue[e]) /\ st = queue[e]
        /\ queue' = [queue EXCEPT ![e] = st]
        /\ Goto("save", [hand EXCEPT !.seen = st, !.settled = TRUE])
        /\ UNCHANGED <<sourceVars, eventVars, hostVars>>

\* cancel_submission: queued work and claimed work that has not begun is
\* cancelled, running work is asked to stop, settled work stays.
withdraw(st) ==
    LET e == hand.id
    IN  /\ pc = "withdraw"
        /\ \/ queue[e] \in {"queued", "foreign"} /\ st = "cancelled"
           \/ queue[e] = "running" /\ st \in {"running", "cancelled"}
           \/ Terminal(queue[e]) /\ st = queue[e]
        /\ queue' = [queue EXCEPT ![e] = st]
        /\ Goto("save", [hand EXCEPT !.seen = st, !.settled = ~Pending(st)])
        /\ UNCHANGED <<sourceVars, eventVars, hostVars>>

\* Host::submit with the event's request id; an error leaves the event for
\* the next round.
HasRoom == Cardinality({e \in Ids : Pending(queue[e])}) < QueueRoom
admit ==
    LET e == hand.id
    IN  /\ pc = "admit"
        /\ IF bound /\ accepting /\ queue[e] = "absent" /\ HasRoom
           THEN /\ queue' = [queue EXCEPT ![e] = "queued"]
                /\ Goto("save", [hand EXCEPT !.seen = "queued"])
           ELSE Goto("save", hand) /\ UNCHANGED queue
        /\ UNCHANGED <<sourceVars, eventVars, hostVars>>

save ==
    /\ pc = "save"
    /\ save_event([hand EXCEPT !.settled = @ \/ Terminal(hand.seen)])
    /\ ReconcileAll(todo, sweep)
    /\ UNCHANGED <<sourceVars, queue, hostVars>>

-----------------------------------------------------------------------------
(* The rest of the host *)

\* The queue claims, finishes or (a client's request) cancels a submission, or
\* puts claimed work back because its task is busy.  Work that has begun is not
\* told apart from work that has not, so either may be cancelled or put back.
QueueMoves == {"queued", "running", "cancelled", "finished"}
queue_step(e, st) ==
    /\ \/ queue[e] = "queued" /\ st \in {"running", "cancelled"}
       \/ queue[e] = "running" /\ st \in {"queued", "cancelled", "finished"}
    /\ queue' = [queue EXCEPT ![e] = st]
    /\ UNCHANGED <<sourceVars, eventVars, workVars, hostVars>>

\* An operator's submission happens to have the event's request id.
foreign_submit(e) ==
    /\ queue[e] = "absent"
    /\ queue' = [queue EXCEPT ![e] = "foreign"]
    /\ UNCHANGED <<sourceVars, eventVars, workVars, hostVars>>

\* shutdown_if_idle asks the queue, not the intake.
shutdown ==
    /\ accepting /\ \A e \in Ids : ~Pending(queue[e])
    /\ accepting' = FALSE
    /\ UNCHANGED <<sourceVars, eventVars, queue, workVars, bound, crashes>>

\* Running work is interrupted, or queued again if it had not begun.
crash ==
    /\ crashes < MaxCrashes /\ crashes' = crashes + 1
    /\ Unlock /\ accepting' = TRUE
    /\ IF Rebind THEN bound' \in BOOLEAN ELSE UNCHANGED bound
    /\ \E S \in SUBSET {e \in Ids : queue[e] = "running"} :
            queue' = [e \in Ids |-> IF e \in S THEN "interrupted"
                        ELSE IF queue[e] = "running" THEN "queued" ELSE queue[e]]
    /\ UNCHANGED <<sourceVars, eventVars>>

-----------------------------------------------------------------------------
HolderStep ==
    \/ next \/ tick \/ load \/ conflict \/ cancel \/ admit \/ save
    \/ \E st \in {"running", "cancelled", "finished", "interrupted"} : withdraw(st)

Next ==
    \/ \E s \in Sources : register_event_source(s) \/ disable_event_source(s)
    \/ \E s \in Webhooks, k \in Keys : deliver_event(s, k)
    \/ \E e \in Ids : cancel_event(e)
    \/ \E e \in Taken : foreign_submit(e)
    \/ run_event_intake
    \/ HolderStep
    \/ \E e \in Ids, st \in QueueMoves : queue_step(e, st)
    \/ shutdown
    \/ crash

\* The lock is fair (tokio's Mutex is FIFO), so the loop gets it again and
\* again; a holder and the queue keep going.  A busy task comes free again and
\* again, so work that is claimed again and again is finished in the end.
Fairness ==
    /\ SF_vars(run_event_intake)
    /\ WF_vars(HolderStep)
    /\ WF_vars(\E e \in Ids : queue_step(e, "running"))
    /\ SF_vars(\E e \in Ids : queue_step(e, "finished"))

Spec == Init /\ [][Next]_vars /\ Fairness

-----------------------------------------------------------------------------
(* Properties *)

Statuses == {"absent", "foreign", "queued", "running", "finished", "cancelled",
             "interrupted"}
Copies == [id : Ids, cancel : BOOLEAN, seen : Statuses, settled : BOOLEAN]
Pcs == {"free", "next", "load", "conflict", "cancel", "withdraw", "admit", "save"}

\* Every record and the lock holder's work have their types; in particular a
\* schedule's cursor stays a representable time.
TypeOK ==
    /\ registered \subseteq Sources /\ disabled \subseteq registered
    /\ cursor \in [Schedules -> Clock]
    /\ received \subseteq Ids /\ cancelled \subseteq received /\ settled \subseteq received
    /\ receipt \in [Ids -> Statuses] /\ covers \in [Ids -> SUBSET Clock]
    /\ queue \in [Ids -> Statuses]
    /\ pc \in Pcs /\ hand \in Copies \cup {None}
    /\ todo \subseteq Copies /\ sweep \subseteq Sources
    /\ bound \in BOOLEAN /\ accepting \in BOOLEAN /\ crashes \in 0..MaxCrashes

\* A settled event is final: its work is not queued or running, and never will
\* be, whether it was adopted, cancelled or interrupted by a restart.
SettledIsFinal == \A e \in settled : ~Pending(queue[e])

\* Schedules lose no occurrence and run none twice: every due time below the
\* cursor belongs to exactly one event, across clock jumps, downtime, a full
\* intake and crashes (tick_event_source, latest_due).
CoverageExact ==
    \A s \in Schedules :
        LET due == {t \in Clock : t >= FirstDue /\ t < cursor[s]
                                    /\ (t - FirstDue) % Period = 0}
        IN  /\ UNION {covers[<<s, t>>] : t \in Clock} = due
            /\ \A t, u \in Clock : t # u => covers[<<s, t>>] \cap covers[<<s, u>>] = {}
            /\ \A t \in Clock : covers[<<s, t>>] # {} => <<s, t>> \in received

\* A schedule has at most one event that is not settled, whatever the clock, a
\* restart in the middle of a tick and a full intake do (tick_event_source).
OnePerSchedule ==
    \A s \in Schedules : Cardinality({e \in Unsettled : Source(e) = s}) <= 1

\* Schedules are exact: no occurrence is lost or repeated, and at most one event
\* of a schedule is outstanding.
SchedulesExact == CoverageExact /\ OnePerSchedule

\* A submission that only shares an event's request id is never cancelled or
\* adopted by the intake.
ForeignUntouched ==
    [][\A e \in Ids : queue[e] = "foreign" => queue'[e] = "foreign"]_vars

\* The intake drains: with finitely many deliveries to come, nothing received
\* stays unsettled while the host keeps accepting and keeps the session's
\* authority, a full queue, lost acknowledgements, cancellation and restarts
\* included.
EventSettles == []<>(Unsettled = {} \/ ~accepting \/ ~bound)

\* The abstract life of every event, with what the queue knows of it.
Phase(e) ==
    IF e \notin received THEN "unknown"
    ELSE IF Pending(queue[e]) THEN "admitted"
    ELSE IF Terminal(queue[e]) THEN "done"
    ELSE IF e \in settled THEN "dropped" ELSE "received"
WithdrawnEvents == {e \in received : e \in cancelled \/ Source(e) \in disabled}
Delivery == INSTANCE EventDelivery WITH
    Events <- Ids, phase <- [e \in Ids |-> Phase(e)], withdrawn <- WithdrawnEvents

\* Intake implements its promise: at most one admission per event, none after
\* the event was cancelled or its source disabled, tombstones are for ever.
DeliveredAtMostOnce == Delivery!Spec
=============================================================================
