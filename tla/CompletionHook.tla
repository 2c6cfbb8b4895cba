--------------------------- MODULE CompletionHook ---------------------------
(***************************************************************************)
(* The completion notifications of one session and one task                *)
(* (harness/src/controller/notification.rs and its callers): a hook armed  *)
(* with each request, claimed durably before its process is spawned, and   *)
(* delivered by the turn that ended or by the recovery of a restarted      *)
(* host.  A store call is one step; the process runs between two of them.  *)
(***************************************************************************)
EXTENDS Naturals, TLAPS

CONSTANTS
    HookRequests,       \* requests of the session, all about one task
    NoRequest,
    MaxHookCrashes      \* bound on restarts

ASSUME HookAssumption ==
    NoRequest \notin HookRequests /\ MaxHookCrashes \in Nat

VARIABLES
    delivery,       \* completion_deliveries[r].state, "none" before Armed
    armable,        \* requests not executed yet
    linked,         \* tasks_by_request
    hookActive,     \* active_request
    hasOutcome,     \* the task has an outcome
    hookTurn,       \* the turn of the session: what it does and for whom
    recovery,       \* recover_completion_hooks of a restarted host
    followUp,       \* steered requests waiting in the queue
    started,        \* history: processes started per request
    configured,     \* completion_hook of the running host
    hookCrashes

hookVars == <<delivery, armable, linked, hookActive, hasOutcome, hookTurn,
              recovery, followUp, started, configured, hookCrashes>>
sessionVars == <<armable, linked, hookActive, hasOutcome, followUp>>

Results == {"succeeded", "failed", "not_started", "signaled", "wait_failed",
            "timed_out"}
Off == [pc |-> "off", req |-> NoRequest]

HookTypeOK ==
    /\ delivery \in [HookRequests -> {"none", "pending", "interrupted"} \cup Results]
    /\ armable \subseteq HookRequests /\ linked \subseteq HookRequests
    /\ followUp \subseteq HookRequests
    /\ hookActive \in HookRequests \cup {NoRequest}
    /\ hasOutcome \in BOOLEAN /\ configured \in BOOLEAN
    /\ hookTurn.pc \in {"off", "armed", "running", "ended", "deliver", "claimed", "run"}
    /\ recovery.pc \in {"off", "listing", "deliver", "claimed", "run"}
    /\ started \in [HookRequests -> Nat] /\ hookCrashes \in 0..MaxHookCrashes

HookInit ==
    /\ delivery = [r \in HookRequests |-> "none"]
    /\ armable = HookRequests /\ linked = {} /\ followUp = {}
    /\ hookActive = NoRequest /\ hasOutcome = FALSE
    /\ hookTurn = Off /\ recovery = Off
    /\ started = [r \in HookRequests |-> 0]
    /\ configured \in BOOLEAN /\ hookCrashes = 0

-----------------------------------------------------------------------------
(* The turn *)

\* execute_task_request up to the admission: arm_completion_hook records the
\* intent before the request is linked to its task.  A steered follow-up is
\* served before a request that is not in the queue yet.
arm_completion_hook(r) ==
    /\ hookTurn.pc = "off" /\ r \in armable
    /\ r \in followUp \/ followUp = {}
    /\ armable' = armable \ {r}
    /\ delivery' = IF configured THEN [delivery EXCEPT ![r] = "pending"] ELSE delivery
    /\ hookTurn' = [pc |-> "armed", req |-> r]
    /\ UNCHANGED <<linked, hookActive, hasOutcome, recovery, followUp, started,
                   configured, hookCrashes>>

\* Store::admit: the request is linked, active, and the task open again; a
\* session with an active request admits no other.
hook_admit ==
    /\ hookTurn.pc = "armed" /\ hookActive = NoRequest
    /\ linked' = linked \cup {hookTurn.req} /\ followUp' = followUp \ {hookTurn.req}
    /\ hookActive' = hookTurn.req /\ hasOutcome' = FALSE
    /\ hookTurn' = [hookTurn EXCEPT !.pc = "running"]
    /\ UNCHANGED <<delivery, armable, recovery, started, configured, hookCrashes>>

\* An admission that is refused (superseded, unreconciled, cancelled since it
\* was claimed) leaves an armed hook without a task; the request leaves the
\* queue, what its directive took back stays so, and the turn still delivers.
hook_refuse ==
    /\ hookTurn.pc = "armed"
    /\ followUp' = followUp \ {hookTurn.req}
    /\ hookTurn' = [pc |-> "deliver", req |-> NoRequest]
    /\ UNCHANGED <<delivery, armable, linked, hookActive, hasOutcome, recovery,
                   started, configured, hookCrashes>>

\* complete or stop records the outcome; the turn is settled by a later commit.
hook_outcome ==
    /\ hookTurn.pc = "running"
    /\ hasOutcome' = TRUE /\ hookTurn' = [hookTurn EXCEPT !.pc = "ended"]
    /\ UNCHANGED <<delivery, armable, linked, hookActive, followUp, recovery,
                   started, configured, hookCrashes>>

\* SessionCommand::TurnSettled.
hook_settle ==
    /\ hookTurn.pc = "ended"
    /\ hookActive' = NoRequest /\ hookTurn' = [hookTurn EXCEPT !.pc = "deliver"]
    /\ UNCHANGED <<delivery, armable, linked, hasOutcome, followUp, recovery,
                   started, configured, hookCrashes>>

\* An error the host cannot settle (the stop or the settlement is refused)
\* leaves the request active, with or without an outcome of the task.
hook_abandon ==
    /\ hookTurn.pc \in {"running", "ended"}
    /\ hookTurn' = [pc |-> "deliver", req |-> NoRequest]
    /\ UNCHANGED <<delivery, sessionVars, recovery, started, configured, hookCrashes>>

-----------------------------------------------------------------------------
(* deliver_completion_hooks, run by the turn and by the recovery *)

\* Mutant: a delivery that already has an attempt is claimed again.
Claimable_bug1(r) ==
    /\ delivery[r] \in {"pending", "interrupted"} /\ hookActive # r /\ r \in linked
    /\ hasOutcome

\* The first delivery the loop takes: its request has a task with an outcome
\* and is not the one still being settled.
Claimable(r) ==
    /\ delivery[r] = "pending" /\ hookActive # r /\ r \in linked /\ hasOutcome

\* DeliveryEvent::Claimed: the attempt is durable, its result unknown.
claim(me) ==
    \E r \in HookRequests :
        /\ Claimable(r)
        /\ delivery' = [delivery EXCEPT ![r] = "interrupted"]
        /\ me' = [pc |-> "claimed", req |-> r]

\* run_hook: the shell is spawned, or cannot be.
spawn(me) ==
    /\ me.pc = "claimed"
    /\ started' = [started EXCEPT ![me.req] = @ + 1]
    /\ me' = [me EXCEPT !.pc = "run"]

\* DeliveryEvent::Finished replaces only the result of an open attempt.
Finished(r, result) ==
    /\ delivery[r] = "interrupted"
    /\ delivery' = [delivery EXCEPT ![r] = result]

finish(me) ==
    /\ \/ me.pc = "claimed" /\ Finished(me.req, "not_started")
       \/ me.pc = "run" /\ \E x \in Results \ {"not_started"} : Finished(me.req, x)
    /\ me' = [pc |-> "deliver", req |-> NoRequest]

\* Mutant: the turn ends without looking at the deliveries.
deliver_completion_hooks_bug(me) ==
    /\ me.pc = "deliver" /\ me' = Off /\ UNCHANGED <<delivery, started>>

deliver_completion_hooks(me) ==
    \/ me.pc = "deliver" /\ claim(me) /\ UNCHANGED started
    \/ spawn(me) /\ UNCHANGED delivery
    \/ finish(me) /\ UNCHANGED started
    \/ /\ me.pc = "deliver" /\ \A r \in HookRequests : ~Claimable(r)
       /\ me' = Off /\ UNCHANGED <<delivery, started>>

hook_turn_delivers ==
    /\ deliver_completion_hooks(hookTurn)
    /\ UNCHANGED <<sessionVars, recovery, configured, hookCrashes>>

\* recover_completion_hooks visits the session if an intent is unclaimed.
recover_completion_hooks ==
    /\ \/ /\ recovery.pc = "listing"
          /\ recovery' = IF \E r \in HookRequests : delivery[r] = "pending"
                         THEN [recovery EXCEPT !.pc = "deliver"] ELSE Off
          /\ UNCHANGED <<delivery, started>>
       \/ deliver_completion_hooks(recovery)
    /\ UNCHANGED <<sessionVars, hookTurn, configured, hookCrashes>>

-----------------------------------------------------------------------------
(* The operator and the process *)

\* A follow-up submitted with steering: DirectiveReceived opens the task.
hook_steer(r) ==
    /\ linked # {} /\ r \in armable \ followUp
    /\ followUp' = followUp \cup {r} /\ hasOutcome' = FALSE
    /\ UNCHANGED <<delivery, armable, linked, hookActive, hookTurn, recovery,
                   started, configured, hookCrashes>>

\* cancel_submission of a queued follow-up only changes its status: the
\* outcome its directive took back does not return.
hook_cancel(r) ==
    /\ r \in followUp /\ r \in armable
    /\ followUp' = followUp \ {r} /\ armable' = armable \ {r}
    /\ UNCHANGED <<delivery, linked, hookActive, hasOutcome, hookTurn, recovery,
                   started, configured, hookCrashes>>

\* The host dies and starts again, perhaps with another configuration:
\* recover_interrupted gives every open task an outcome and settles its turn
\* before the recovery of the notifications begins.
hook_restart ==
    /\ hookCrashes < MaxHookCrashes /\ hookCrashes' = hookCrashes + 1
    /\ hookTurn' = Off /\ recovery' = [pc |-> "listing", req |-> NoRequest]
    /\ hasOutcome' = (linked # {}) /\ hookActive' = NoRequest
    /\ configured' \in BOOLEAN
    /\ UNCHANGED <<delivery, armable, linked, followUp, started>>

HookTurnStep ==
    \/ hook_admit \/ hook_refuse \/ hook_outcome \/ hook_settle \/ hook_abandon
    \/ hook_turn_delivers

HookNext ==
    \/ \E r \in HookRequests : arm_completion_hook(r) \/ hook_steer(r) \/ hook_cancel(r)
    \/ HookTurnStep \/ recover_completion_hooks \/ hook_restart

HookSpec == HookInit /\ [][HookNext]_hookVars

-----------------------------------------------------------------------------
(* Properties *)

\* Claimed is committed before the shell is spawned and never again, so a
\* request's command runs at most once, whatever dies in between.
HookRunsOnce == \A r \in HookRequests : started[r] <= 1

\* A notification is never claimed while the turn it announces is still
\* being settled, also when the recovery runs beside that turn.
HookAfterTurn ==
    \A r \in HookRequests : delivery[r] \notin {"none", "pending"} => hookActive # r

\* A completion command runs at most once per request and never before the turn
\* it announces is settled, across restarts of the host at any point.
HookSound == HookTypeOK /\ HookRunsOnce /\ HookAfterTurn

\* Nobody will look at a delivery before the next turn or restart: no turn
\* runs and none is queued, and either the task was left open (its follow-up
\* was withdrawn or refused, its turn abandoned) or r was left active.
LeftBehind(r) ==
    /\ hookTurn.pc = "off" /\ followUp = {}
    /\ ~hasOutcome \/ hookActive = r

\* Every armed request that reached its task is attempted in the end: by its
\* own turn, by the turn of the follow-up that opened the task again, or by
\* the recovery.  The one exception the code leaves is LeftBehind.
HookAttempted ==
    \A r \in HookRequests :
        (delivery[r] = "pending" /\ r \in linked)
            ~> (delivery[r] # "pending" \/ LeftBehind(r))
-----------------------------------------------------------------------------
(* HookSound is not inductive.  Its strengthening says who holds an open    *)
(* attempt: a claimed or running delivery is interrupted on disk, has one   *)
(* holder, and was not started before its holder spawns it; a request that  *)
(* is not claimed was never started, and a request being armed is neither   *)
(* linked nor claimed yet, so its own recovery cannot overtake it.          *)
Points == {"off", "armed", "running", "ended", "deliver", "claimed", "run", "listing"}

Holds(me) == me.pc \in {"claimed", "run"}

HolderSound(me) ==
    /\ me \in [pc : Points, req : HookRequests \cup {NoRequest}]
    /\ Holds(me) => me.req \in HookRequests /\ delivery[me.req] = "interrupted"
    /\ me.pc = "claimed" => started[me.req] = 0

ArmedSound ==
    /\ hookTurn.pc = "armed" => /\ hookTurn.req \in HookRequests \ (linked \cup armable)
                                /\ delivery[hookTurn.req] \in {"none", "pending"}
    /\ \A r \in armable : delivery[r] = "none" /\ r \notin linked

HookInv ==
    /\ HookSound
    /\ HolderSound(hookTurn) /\ HolderSound(recovery)
    /\ Holds(hookTurn) /\ Holds(recovery) => hookTurn.req # recovery.req
    /\ \A r \in HookRequests : delivery[r] \in {"none", "pending"} => started[r] = 0
    /\ ArmedSound

\* What the loop of deliver_completion_hooks does for the turn.
LEMMA TurnDelivers ==
    HookInv /\ deliver_completion_hooks(hookTurn)
        /\ UNCHANGED <<sessionVars, recovery, configured, hookCrashes>> => HookInv'
<1> SUFFICES ASSUME HookInv, deliver_completion_hooks(hookTurn),
                    UNCHANGED <<sessionVars, recovery, configured, hookCrashes>>
             PROVE  HookInv'
  OBVIOUS
<1>1. /\ delivery \in [HookRequests -> {"none", "pending", "interrupted"} \cup Results]
      /\ started \in [HookRequests -> Nat]
      /\ hookTurn \in [pc : Points, req : HookRequests \cup {NoRequest}]
  BY DEF HookInv, HookSound, HookTypeOK, HolderSound
<1>2. UNCHANGED <<armable, linked, hookActive, hasOutcome, followUp, recovery, configured,
                  hookCrashes>>
  BY DEF sessionVars
<1>3. ASSUME NEW r \in HookRequests, Claimable(r),
             delivery' = [delivery EXCEPT ![r] = "interrupted"],
             hookTurn' = [pc |-> "claimed", req |-> r], UNCHANGED started
      PROVE  HookInv'
  <2>1. /\ delivery[r] = "pending" /\ hookActive # r /\ r \in linked
        /\ delivery'[r] = "interrupted" /\ started[r] = 0
        /\ \A q \in HookRequests \ {r} : delivery'[q] = delivery[q]
    BY <1>1, <1>3 DEF Claimable, HookInv
  <2>2. HookSound'
    BY <1>1, <1>2, <1>3, <2>1
       DEF HookInv, HookSound, HookTypeOK, HookRunsOnce, HookAfterTurn
  <2>3. HolderSound(hookTurn)' /\ HolderSound(recovery)'
    BY <1>2, <1>3, <2>1 DEF HookInv, HolderSound, Holds, Points
  <2>4. Holds(recovery) => recovery.req # r
    BY <2>1 DEF HookInv, HolderSound
  <2>5. ArmedSound'
    BY <1>2, <1>3, <2>1 DEF HookInv, ArmedSound
  <2>6. QED BY <1>1, <1>2, <1>3, <2>1, <2>2, <2>3, <2>4, <2>5 DEF HookInv, Holds
<1>4. CASE spawn(hookTurn) /\ UNCHANGED delivery
  <2> DEFINE r == hookTurn.req
  <2>1. /\ r \in HookRequests /\ delivery[r] = "interrupted" /\ started[r] = 0
        /\ started' = [started EXCEPT ![r] = @ + 1]
        /\ hookTurn' = [hookTurn EXCEPT !.pc = "run"] /\ UNCHANGED delivery
    BY <1>4 DEF spawn, HookInv, HolderSound, Holds
  <2> HIDE DEF r
  <2>2. /\ started'[r] = 1 /\ \A q \in HookRequests \ {r} : started'[q] = started[q]
        /\ started' \in [HookRequests -> Nat]
        /\ hookTurn'.pc = "run" /\ hookTurn'.req = hookTurn.req
        /\ hookTurn' \in [pc : Points, req : HookRequests \cup {NoRequest}]
    BY <1>1, <2>1 DEF Points
  <2>3. HookSound'
    BY <1>2, <2>1, <2>2 DEF HookInv, HookSound, HookTypeOK, HookRunsOnce, HookAfterTurn
  <2>4. recovery.pc = "claimed" => recovery.req # r
    BY <1>4 DEF HookInv, Holds, spawn, r
  <2>5. HolderSound(hookTurn)' /\ HolderSound(recovery)'
    BY <1>2, <2>1, <2>2, <2>4 DEF HookInv, HolderSound, Holds, r
  <2>6. ArmedSound'
    BY <1>2, <2>1, <2>2 DEF HookInv, ArmedSound
  <2>7. Holds(hookTurn)' /\ Holds(recovery)' => hookTurn'.req # recovery'.req
    BY <1>2, <1>4, <2>2 DEF HookInv, Holds, spawn
  <2>8. QED BY <1>2, <2>1, <2>2, <2>3, <2>5, <2>6, <2>7 DEF HookInv
<1>5. ASSUME NEW x \in Results, Finished(hookTurn.req, x), Holds(hookTurn),
             hookTurn' = [pc |-> "deliver", req |-> NoRequest], UNCHANGED started
      PROVE  HookInv'
  <2> DEFINE r == hookTurn.req
  <2>1. /\ r \in HookRequests /\ delivery[r] = "interrupted"
        /\ delivery' = [delivery EXCEPT ![r] = x] /\ x \notin {"none", "pending"}
    BY <1>5 DEF Finished, HookInv, HolderSound, Results
  <2>2. Holds(recovery) => recovery.req # r
    BY <1>5 DEF HookInv
  <2> HIDE DEF r
  <2>3. /\ delivery'[r] = x /\ \A q \in HookRequests \ {r} : delivery'[q] = delivery[q]
        /\ delivery' \in [HookRequests -> {"none", "pending", "interrupted"} \cup Results]
    BY <1>1, <2>1
  <2>4. HookSound'
    BY <1>2, <1>5, <2>1, <2>3
       DEF HookInv, HookSound, HookTypeOK, HookRunsOnce, HookAfterTurn
  <2>5. HolderSound(hookTurn)' /\ HolderSound(recovery)'
    BY <1>2, <1>5, <2>1, <2>2, <2>3 DEF HookInv, HolderSound, Holds, Points
  <2>6. ArmedSound'
    BY <1>2, <1>5, <2>1, <2>3 DEF HookInv, ArmedSound
  <2>7. ~Holds(hookTurn)'
    BY <1>5 DEF Holds
  <2>8. QED BY <1>5, <2>1, <2>3, <2>4, <2>5, <2>6, <2>7 DEF HookInv
<1>6. ASSUME hookTurn' = Off, UNCHANGED <<delivery, started>> PROVE HookInv'
  BY <1>2, <1>6 DEF HookInv, HookSound, HookTypeOK, HookRunsOnce, HookAfterTurn,
     HolderSound, Holds, Points, ArmedSound, Off
<1>7. finish(hookTurn) /\ UNCHANGED started => HookInv'
  BY <1>5 DEF finish, Holds, Results
<1>8. QED
  BY <1>3, <1>4, <1>6, <1>7 DEF deliver_completion_hooks, claim

\* The same loop in the recovery of a restarted host, beside a turn.
LEMMA RecoveryDelivers ==
    HookInv /\ deliver_completion_hooks(recovery)
        /\ UNCHANGED <<sessionVars, hookTurn, configured, hookCrashes>> => HookInv'
<1> SUFFICES ASSUME HookInv, deliver_completion_hooks(recovery),
                    UNCHANGED <<sessionVars, hookTurn, configured, hookCrashes>>
             PROVE  HookInv'
  OBVIOUS
<1>1. /\ delivery \in [HookRequests -> {"none", "pending", "interrupted"} \cup Results]
      /\ started \in [HookRequests -> Nat]
      /\ recovery \in [pc : Points, req : HookRequests \cup {NoRequest}]
  BY DEF HookInv, HookSound, HookTypeOK, HolderSound
<1>2. UNCHANGED <<armable, linked, hookActive, hasOutcome, followUp, hookTurn, configured,
                  hookCrashes>>
  BY DEF sessionVars
<1>3. ASSUME NEW r \in HookRequests, Claimable(r),
             delivery' = [delivery EXCEPT ![r] = "interrupted"],
             recovery' = [pc |-> "claimed", req |-> r], UNCHANGED started
      PROVE  HookInv'
  <2>1. /\ delivery[r] = "pending" /\ hookActive # r /\ r \in linked
        /\ delivery'[r] = "interrupted" /\ started[r] = 0
        /\ \A q \in HookRequests \ {r} : delivery'[q] = delivery[q]
    BY <1>1, <1>3 DEF Claimable, HookInv
  <2>2. HookSound'
    BY <1>1, <1>2, <1>3, <2>1
       DEF HookInv, HookSound, HookTypeOK, HookRunsOnce, HookAfterTurn
  <2>3. HolderSound(recovery)' /\ HolderSound(hookTurn)'
    BY <1>2, <1>3, <2>1 DEF HookInv, HolderSound, Holds, Points
  <2>4. Holds(hookTurn) => hookTurn.req # r
    BY <2>1 DEF HookInv, HolderSound
  <2>5. ArmedSound'
    BY <1>2, <1>3, <2>1 DEF HookInv, ArmedSound
  <2>6. QED BY <1>1, <1>2, <1>3, <2>1, <2>2, <2>3, <2>4, <2>5 DEF HookInv, Holds
<1>4. CASE spawn(recovery) /\ UNCHANGED delivery
  <2> DEFINE r == recovery.req
  <2>1. /\ r \in HookRequests /\ delivery[r] = "interrupted" /\ started[r] = 0
        /\ started' = [started EXCEPT ![r] = @ + 1]
        /\ recovery' = [recovery EXCEPT !.pc = "run"] /\ UNCHANGED delivery
    BY <1>4 DEF spawn, HookInv, HolderSound, Holds
  <2> HIDE DEF r
  <2>2. /\ started'[r] = 1 /\ \A q \in HookRequests \ {r} : started'[q] = started[q]
        /\ started' \in [HookRequests -> Nat]
        /\ recovery'.pc = "run" /\ recovery'.req = recovery.req
        /\ recovery' \in [pc : Points, req : HookRequests \cup {NoRequest}]
    BY <1>1, <2>1 DEF Points
  <2>3. HookSound'
    BY <1>2, <2>1, <2>2 DEF HookInv, HookSound, HookTypeOK, HookRunsOnce, HookAfterTurn
  <2>4. hookTurn.pc = "claimed" => hookTurn.req # r
    BY <1>4 DEF HookInv, Holds, spawn, r
  <2>5. HolderSound(recovery)' /\ HolderSound(hookTurn)'
    BY <1>2, <2>1, <2>2, <2>4 DEF HookInv, HolderSound, Holds, r
  <2>6. ArmedSound'
    BY <1>2, <2>1, <2>2 DEF HookInv, ArmedSound
  <2>7. Holds(recovery)' /\ Holds(hookTurn)' => recovery'.req # hookTurn'.req
    BY <1>2, <1>4, <2>2 DEF HookInv, Holds, spawn
  <2>8. QED BY <1>2, <2>1, <2>2, <2>3, <2>5, <2>6, <2>7 DEF HookInv
<1>5. ASSUME NEW x \in Results, Finished(recovery.req, x), Holds(recovery),
             recovery' = [pc |-> "deliver", req |-> NoRequest], UNCHANGED started
      PROVE  HookInv'
  <2> DEFINE r == recovery.req
  <2>1. /\ r \in HookRequests /\ delivery[r] = "interrupted"
        /\ delivery' = [delivery EXCEPT ![r] = x] /\ x \notin {"none", "pending"}
    BY <1>5 DEF Finished, HookInv, HolderSound, Results
  <2>2. Holds(hookTurn) => hookTurn.req # r
    BY <1>5 DEF HookInv
  <2> HIDE DEF r
  <2>3. /\ delivery'[r] = x /\ \A q \in HookRequests \ {r} : delivery'[q] = delivery[q]
        /\ delivery' \in [HookRequests -> {"none", "pending", "interrupted"} \cup Results]
    BY <1>1, <2>1
  <2>4. HookSound'
    BY <1>2, <1>5, <2>1, <2>3
       DEF HookInv, HookSound, HookTypeOK, HookRunsOnce, HookAfterTurn
  <2>5. HolderSound(recovery)' /\ HolderSound(hookTurn)'
    BY <1>2, <1>5, <2>1, <2>2, <2>3 DEF HookInv, HolderSound, Holds, Points
  <2>6. ArmedSound'
    BY <1>2, <1>5, <2>1, <2>3 DEF HookInv, ArmedSound
  <2>7. ~Holds(recovery)'
    BY <1>5 DEF Holds
  <2>8. QED BY <1>5, <2>1, <2>3, <2>4, <2>5, <2>6, <2>7 DEF HookInv
<1>6. ASSUME recovery' = Off, UNCHANGED <<delivery, started>> PROVE HookInv'
  BY <1>2, <1>6 DEF HookInv, HookSound, HookTypeOK, HookRunsOnce, HookAfterTurn,
     HolderSound, Holds, Points, ArmedSound, Off
<1>7. finish(recovery) /\ UNCHANGED started => HookInv'
  BY <1>5 DEF finish, Holds, Results
<1>8. QED
  BY <1>3, <1>4, <1>6, <1>7 DEF deliver_completion_hooks, claim

LEMMA HookStep == HookInv /\ [HookNext]_hookVars => HookInv'
<1> SUFFICES ASSUME HookInv, [HookNext]_hookVars PROVE HookInv'
  OBVIOUS
<1> USE DEF HookInv, HookSound, HookTypeOK, HookRunsOnce, HookAfterTurn, HolderSound,
            Holds, Points, ArmedSound
<1>1. ASSUME NEW r \in HookRequests, arm_completion_hook(r) PROVE HookInv'
  <2>1. /\ r \in armable /\ hookTurn' = [pc |-> "armed", req |-> r]
        /\ armable' = armable \ {r} /\ delivery[r] = "none" /\ r \notin linked
        /\ delivery' = IF configured THEN [delivery EXCEPT ![r] = "pending"]
                                     ELSE delivery
        /\ UNCHANGED <<linked, hookActive, hasOutcome, recovery, followUp, started,
                       configured, hookCrashes>>
    BY <1>1 DEF arm_completion_hook
  <2>2. /\ delivery'[r] \in {"none", "pending"}
        /\ \A q \in HookRequests \ {r} : delivery'[q] = delivery[q]
        /\ delivery' \in [HookRequests -> {"none", "pending", "interrupted"} \cup Results]
    BY <2>1
  <2>3. started[r] = 0
    BY <2>1
  <2>4. QED BY <2>1, <2>2, <2>3
<1>2. ASSUME NEW r \in HookRequests, hook_steer(r) PROVE HookInv'
  BY <1>2 DEF hook_steer
<1>3. CASE hook_admit
  BY <1>3 DEF hook_admit
<1>4. CASE hook_refuse
  BY <1>4 DEF hook_refuse
<1>5. CASE hook_outcome
  BY <1>5 DEF hook_outcome
<1>6. CASE hook_settle
  BY <1>6, HookAssumption DEF hook_settle
<1>7. CASE hook_turn_delivers
  BY <1>7, TurnDelivers DEF hook_turn_delivers
<1>8. CASE recover_completion_hooks
  <2>1. CASE deliver_completion_hooks(recovery)
    BY <1>8, <2>1, RecoveryDelivers DEF recover_completion_hooks
  <2>2. CASE /\ recovery' \in {[recovery EXCEPT !.pc = "deliver"], Off}
             /\ UNCHANGED <<delivery, started>>
    BY <1>8, <2>2 DEF recover_completion_hooks, sessionVars, Off
  <2>3. QED BY <1>8, <2>1, <2>2 DEF recover_completion_hooks
<1>9. CASE hook_restart
  <2>1. hasOutcome' \in BOOLEAN
    BY <1>9, Zenon DEF hook_restart
  <2>2. QED BY <1>9, <2>1, HookAssumption DEF hook_restart, Off
<1>10. CASE hook_abandon
  BY <1>10 DEF hook_abandon, sessionVars
<1>11. ASSUME NEW r \in HookRequests, hook_cancel(r) PROVE HookInv'
  BY <1>11 DEF hook_cancel
<1>12. CASE UNCHANGED hookVars
  BY <1>12 DEF hookVars
<1>13. QED
  BY <1>1, <1>2, <1>3, <1>4, <1>5, <1>6, <1>7, <1>8, <1>9, <1>10, <1>11, <1>12
     DEF HookNext, HookTurnStep

\* For any number of requests and restarts, a completion command is started at
\* most once per request, and only after the turn it announces was settled.
THEOREM NotifiedOnce == HookSpec => []HookSound
<1>1. HookInit => HookInv
  <2> SUFFICES ASSUME HookInit PROVE HookInv
    OBVIOUS
  <2>1. HookTypeOK /\ HookRunsOnce /\ HookAfterTurn
    <3>1. hasOutcome \in BOOLEAN /\ configured \in BOOLEAN
      BY DEF HookInit
    <3>2. hookTurn.pc = "off" /\ recovery.pc = "off"
      BY DEF HookInit, Off
    <3>3. /\ delivery \in [HookRequests -> {"none", "pending", "interrupted"} \cup Results]
          /\ started \in [HookRequests -> Nat]
          /\ hookActive = NoRequest /\ hookCrashes \in 0..MaxHookCrashes
          /\ armable \subseteq HookRequests /\ linked \subseteq HookRequests
          /\ followUp \subseteq HookRequests
      BY HookAssumption DEF HookInit
    <3>4. HookRunsOnce /\ HookAfterTurn
      BY DEF HookInit, HookRunsOnce, HookAfterTurn
    <3>5. QED BY <3>1, <3>2, <3>3, <3>4 DEF HookTypeOK
  <2>2. HolderSound(hookTurn) /\ HolderSound(recovery) /\ ~Holds(hookTurn)
    BY DEF HookInit, HolderSound, Holds, Points, Off
  <2>3. ArmedSound /\ \A r \in HookRequests : started[r] = 0
    BY DEF HookInit, ArmedSound, Off
  <2>4. QED BY <2>1, <2>2, <2>3 DEF HookInv, HookSound
<1>2. HookInv => HookSound
  BY DEF HookInv
<1>3. QED BY <1>1, <1>2, HookStep, PTL DEF HookSpec
=============================================================================
