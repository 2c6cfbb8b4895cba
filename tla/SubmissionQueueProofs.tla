----------------------- MODULE SubmissionQueueProofs -----------------------
(***************************************************************************)
(* Proofs about the session queue for any sets of submissions and direct   *)
(* requests, any capacity, any number of permits and any number of         *)
(* restarts.  What the order of the queue keeps (QueueConsistent) rests on *)
(* RetainFacts: Retain drops entries and neither repeats nor reorders one. *)
(***************************************************************************)
EXTENDS SubmissionQueue, FiniteSetTheorems, TLAPS

-----------------------------------------------------------------------------
(* Actors.  The queue worker runs submissions, a direct request itself; the *)
(* session's entry in Host::active belongs to the actor between enter_active *)
(* (or the start of a classification) and its release.                      *)
Resting == {"off", "loop", "check", "park"}
Owning == {"begin", "classifying", "entered", "loaded", "prepared", "running",
           "completed", "failing", "stopping", "published", "done"}
InTurn == {"running", "completed", "stopping", "published"}
Executing == {"enter", "permitted", "entered", "running", "completed", "failing",
              "stopping", "done"}

WorkerRecord(w) ==
    /\ w \in Runs /\ w.req \in Subs \cup {None}
    /\ w.pc \notin Resting => w.req \in Subs
DirectRecord(d, w) ==
    /\ w \in Runs /\ w.req \in {d, None} /\ w.pc \in Executing \cup {"off"}
    /\ w.pc # "off" => w.req = d
Record(a) == IF a = "worker" THEN WorkerRecord(run[a]) ELSE DirectRecord(a, run[a])

Records == run \in [Actors -> Runs] /\ \A a \in Actors : Record(a)
Owners == \A a \in Actors : pc(a) \in Owning => active = a
Down == host # "up" => /\ active = None /\ accepting
                       /\ \A a \in Actors : run[a] = Idle
PermitsInv == /\ IsFiniteSet(Holders) /\ permits \in Nat /\ others \in Nat
              /\ PermitsExact

\* SingleTurn, and a turn that is being stopped is still the session's.
TurnOwned ==
    \A a \in Actors : pc(a) \in {"running", "completed", "stopping", "published"} =>
        active = a /\ activeRequest = run[a].req

\* Who acts for the session.
TurnInv == /\ QueueType /\ TurnType /\ TaskType /\ HostType /\ active \in Actors \cup {None}
           /\ Records /\ Owners /\ Down /\ TurnOwned /\ PermitsInv

\* The types of the durable and volatile state, but for the runs.
Types == QueueType /\ TurnType /\ TaskType /\ HostType

LEMMA StatusType ==
    ASSUME QueueType, NEW S \in SUBSET Subs, NEW st \in Statuses, SubmissionChanged(S, st)
    PROVE  QueueType'
BY DEF QueueType, SubmissionChanged

LEMMA LinkType ==
    ASSUME TurnType, TaskType, NEW r \in Requests, NEW t \in TaskIds,
           NEW i \in Inputs \cup {None}, Link(r, t, i),
           UNCHANGED <<classified, results, entered, pendingShell>>,
           directive' \in [Subs -> Inputs \cup {None}]
    PROVE  TurnType' /\ TaskType' /\ stale' \in BOOLEAN
<1>1. /\ ops' = ops \cup {r} /\ activeRequest' = r /\ link' = [link EXCEPT ![r] = t]
      /\ current' = t /\ tasks' = [tasks EXCEPT ![t] = "open"]
      /\ pendingTask' = TRUE /\ stale' = FALSE
      /\ used' = IF r \in Subs THEN [used EXCEPT ![r] = i] ELSE used
  BY DEF Link
<1>2. TurnType'
  BY <1>1 DEF TurnType
<1>3. TaskType'
  BY <1>1 DEF TaskType
<1>4. QED BY <1>1, <1>2, <1>3

LEMMA ClientTypes == TurnInv /\ ClientStep => Types'
<1> SUFFICES ASSUME TurnInv, ClientStep PROVE Types'
  OBVIOUS
<1> USE DEF Types
<1>0. QueueType /\ TurnType /\ TaskType /\ HostType
  BY DEF TurnInv
<1>1. ASSUME NEW s \in Subs, NEW i \in Inputs, NEW steer \in BOOLEAN, submit(s, i, steer)
      PROVE  Types'
  <2>1. TurnType' /\ wakes' \subseteq Subs /\ UNCHANGED <<notified, accepting, host, crashes>>
    BY <1>0, <1>1 DEF submit, turnVars, TurnType, HostType
  <2>2. QueueType'
    <3>1. CASE UNCHANGED queueVars
      BY <1>0, <3>1 DEF queueVars, QueueType
    <3>2. CASE /\ status' = [status EXCEPT ![s] = "queued"]
               /\ input' = [input EXCEPT ![s] = i] /\ initial' = [initial EXCEPT ![s] = i]
               /\ target' = [target EXCEPT ![s] =
                                IF Intent[s] = "continue" THEN current ELSE None]
      <4>1. status' \in [Subs -> Statuses]
        BY <1>0, <3>2 DEF QueueType, Statuses
      <4>2. target' \in [Subs -> TaskIds \cup {None}]
        BY <1>0, <3>2 DEF QueueType, TaskType
      <4>3. QED BY <1>0, <3>2, <4>1, <4>2 DEF QueueType
    <3>3. QED BY <1>1, <3>1, <3>2 DEF submit
  <2>3. TaskType' /\ stale' \in BOOLEAN
    BY <1>0, <1>1 DEF submit, taskVars, Redirect, TaskType, HostType
  <2>4. QED BY <1>0, <2>1, <2>2, <2>3 DEF HostType
<1>2. ASSUME NEW s \in Subs, NEW i \in Inputs \cup {None}, edit_submission(s, i)
      PROVE  Types'
  <2>1. TurnType' /\ wakes' \subseteq Subs /\ UNCHANGED <<notified, accepting, host, crashes>>
    BY <1>0, <1>2 DEF edit_submission, turnVars, TurnType, HostType
  <2>2. QueueType'
    BY <1>0, <1>2 DEF edit_submission, QueueType
  <2>3. TaskType' /\ stale' \in BOOLEAN
    BY <1>0, <1>2 DEF edit_submission, Redirect, QueueType, TaskType, HostType
  <2>4. QED BY <1>0, <2>1, <2>2, <2>3 DEF HostType
<1>3. ASSUME NEW s \in Subs, NEW b \in Subs \cup {None}, move_submission(s, b)
      PROVE  Types'
  BY <1>0, <1>3 DEF move_submission, turnVars, taskVars, hostVars, ownVars, envVars,
     QueueType, TurnType, TaskType, HostType
<1>4. ASSUME NEW s \in Subs, cancel_submission(s) PROVE Types'
  <2>1. QueueType'
    BY <1>0, <1>4, StatusType DEF cancel_submission, Statuses
  <2>2. QED
    BY <1>0, <1>4, <2>1 DEF cancel_submission, turnVars, taskVars, hostVars, ownVars,
       envVars, TurnType, TaskType, HostType
<1>5. ASSUME NEW r \in Requests, cancel_request(r) PROVE Types'
  BY <1>0, <1>5 DEF cancel_request, RequestCancellation, queueVars, turnVars, hostVars,
     ownVars, envVars, QueueType, TurnType, TaskType, HostType
<1>6. ASSUME NEW d \in Direct, execute_request(d) PROVE Types'
  BY <1>0, <1>6 DEF execute_request, queueVars, turnVars, taskVars, ownVars, envVars,
     QueueType, TurnType, TaskType, HostType
<1>7. CASE cancel
  <2>1. QueueType'
    BY <1>0, <1>7, StatusType DEF cancel, Queued, Statuses
  <2>2. QED
    BY <1>0, <1>7, <2>1 DEF cancel, RequestCancellation, turnVars, hostVars, ownVars,
       envVars, TurnType, TaskType, HostType
<1>8. CASE shutdown_if_idle
  BY <1>0, <1>8 DEF shutdown_if_idle, queueVars, turnVars, taskVars, QueueType, TurnType,
     TaskType, HostType
<1>9. CASE others_acquire
  BY <1>0, <1>9 DEF others_acquire, queueVars, turnVars, taskVars, QueueType, TurnType,
     TaskType, HostType
<1>10. CASE crash
  <2>1. QueueType' /\ TurnType' /\ TaskType'
    BY <1>0, <1>10 DEF crash, queueVars, turnVars, taskVars, QueueType, TurnType, TaskType
  <2>2. crashes' \in 0..MaxCrashes
    BY <1>0, <1>10, BoundsAssumption DEF crash, HostType
  <2>3. QED BY <1>10, <2>1, <2>2 DEF crash, HostType
<1>11. QED
  BY <1>1, <1>2, <1>3, <1>4, <1>5, <1>6, <1>7, <1>8, <1>9, <1>10 DEF ClientStep

LEMMA StillTyped ==
    ASSUME Types, UNCHANGED <<queueVars, turnVars, taskVars, stale, envVars>>,
           notified' \in BOOLEAN
    PROVE  Types'
BY DEF Types, queueVars, turnVars, taskVars, envVars, QueueType, TurnType, TaskType,
       HostType

LEMMA WorkerRequest ==
    ASSUME TurnInv, run["worker"].pc \notin Resting
    PROVE  run["worker"].req \in Subs /\ run["worker"].req \in Requests
BY DEF TurnInv, Records, Record, WorkerRecord, Actors, Requests

LEMMA WorkerTypes == TurnInv /\ WorkerStep => Types'
<1> SUFFICES ASSUME TurnInv, WorkerStep PROVE Types'
  OBVIOUS
<1> DEFINE s == run["worker"].req
<1>0. /\ Types /\ QueueType /\ TurnType /\ TaskType /\ HostType
      /\ notified \in BOOLEAN /\ stale \in BOOLEAN
  BY DEF TurnInv, Types, HostType
<1>a. run["worker"].pc \notin Resting => s \in Subs /\ s \in Requests
  BY WorkerRequest
<1>b. run["worker"].input \in Inputs \cup {None}
  BY DEF TurnInv, Records, Runs, Actors
<1>1. CASE \/ park \/ dispatch \/ classify_ordinary \/ route \/ shell_uncaptured
           \/ enable_wake \/ load_shell
  BY <1>0, <1>1, StillTyped DEF park, dispatch, classify_ordinary, route,
     shell_uncaptured, enable_wake, load_shell, ownVars
<1>2. CASE claim
  <2>1. QueueType'
    <3>1. CASE UNCHANGED queueVars
      BY <1>0, <3>1 DEF queueVars, QueueType
    <3>2. ASSUME NEW q \in next_submission, SubmissionChanged({q}, "running")
          PROVE  QueueType'
      BY <1>0, <3>2, StatusType DEF next_submission, Queued, Statuses
    <3>3. QED BY <1>2, <3>1, <3>2 DEF claim
  <2>2. QED
    BY <1>0, <1>2, <2>1 DEF claim, turnVars, taskVars, ownVars, envVars, Types, TurnType,
       TaskType, HostType
<1>3. CASE finish
  <2>0. s \in Subs
    BY <1>3, <1>a DEF finish, pc, Resting
  <2>1. QueueType'
    <3>1. CASE UNCHANGED queueVars
      BY <1>0, <3>1 DEF queueVars, QueueType
    <3>2. ASSUME NEW st \in {"queued", "finished", "failed"}, SubmissionChanged({s}, st)
          PROVE  QueueType'
      <4>1. st \in Statuses /\ {s} \in SUBSET Subs
        BY <2>0 DEF Statuses
      <4>2. QED BY <1>0, <3>2, <4>1, StatusType
    <3>3. QED BY <1>3, <3>1, <3>2 DEF finish
  <2>2. QED
    BY <1>0, <1>3, <2>1 DEF finish, turnVars, taskVars, ownVars, envVars, Types, TurnType,
       TaskType, HostType
<1>4. CASE begin_classification
  <2>1. s \in Requests
    BY <1>4, <1>a DEF begin_classification, pc, Resting
  <2>2. QED
    BY <1>0, <1>4, <2>1 DEF begin_classification, queueVars, taskVars, envVars, Types,
       QueueType, TurnType, TaskType, HostType
<1>5. ASSUME NEW k \in {"none", "information", "action"}, classify_ordinary_call(k)
      PROVE  Types'
  BY <1>0, <1>5 DEF classify_ordinary_call, queueVars, taskVars, envVars, Types,
     QueueType, TurnType, TaskType, HostType
<1>6. CASE settle_failed_classification \/ settle_auxiliary
  BY <1>0, <1>6 DEF settle_failed_classification, settle_auxiliary, queueVars, taskVars,
     ownVars, envVars, Types, QueueType, TurnType, TaskType, HostType
<1>7. CASE continue_submission
  <2>1. s \in Subs /\ s \in Requests
    BY <1>7, <1>a DEF continue_submission, pc, Resting
  <2>2. Continued(s) \in TaskIds
    BY <1>0, <1>7, <2>1 DEF continue_submission, Continuable, Continued, QueueType,
       TaskType
  <2>3. input[s] \in Inputs \cup {None} /\ directive' \in [Subs -> Inputs \cup {None}]
    BY <1>0, <1>7, <2>1 DEF continue_submission, QueueType, TaskType
  <2>4. TurnType' /\ TaskType' /\ stale' \in BOOLEAN
    BY <1>0, <1>7, <2>1, <2>2, <2>3, LinkType DEF continue_submission
  <2>5. QED
    BY <1>0, <1>7, <2>4 DEF continue_submission, queueVars, envVars, Types, QueueType,
       HostType
<1>8. CASE begin_auxiliary
  <2>1. s \in Subs /\ s \in Requests
    BY <1>8, <1>a DEF begin_auxiliary, pc, Resting
  <2>2. TurnType'
    BY <1>0, <1>8, <2>1 DEF begin_auxiliary, TurnType, QueueType
  <2>3. QED
    BY <1>0, <1>8, <2>2 DEF begin_auxiliary, queueVars, taskVars, ownVars, envVars, Types,
       QueueType, TaskType, HostType
<1>9. CASE prepare_shell
  BY <1>0, <1>9 DEF prepare_shell, queueVars, turnVars, taskVars, envVars, Types,
     QueueType, TurnType, TaskType, HostType
<1>10. CASE begin_shell
  <2>1. s \in Subs /\ s \in Requests
    BY <1>10, <1>a DEF begin_shell, pc, Resting
  <2>2. TurnType'
    BY <1>0, <1>10, <1>b, <2>1 DEF begin_shell, TurnType, TaskType
  <2>3. pendingTask' \in BOOLEAN /\ pendingShell' \in BOOLEAN
    BY <1>10 DEF begin_shell
  <2>4. TaskType'
    BY <1>0, <1>10, <2>3 DEF begin_shell, TaskType
  <2>5. QED
    BY <1>0, <1>10, <2>2, <2>4 DEF begin_shell, queueVars, ownVars, envVars, Types,
       QueueType, HostType
<1>11. ASSUME NEW b \in BOOLEAN, publish_auxiliary(b) PROVE Types'
  <2>1. s \in Subs
    BY <1>11, <1>a DEF publish_auxiliary, pc, Resting
  <2>2. QED
    BY <1>0, <1>11, <2>1 DEF publish_auxiliary, queueVars, taskVars, ownVars, envVars,
       Types, QueueType, TurnType, TaskType, HostType
<1>12. ASSUME NEW b \in BOOLEAN, finish_shell(b) PROVE Types'
  <2>1. s \in Subs
    BY <1>12, <1>a DEF finish_shell, pc, Resting
  <2>2. TurnType'
    BY <1>0, <1>12, <2>1 DEF finish_shell, TurnType
  <2>3. pendingTask' \in BOOLEAN /\ pendingShell' \in BOOLEAN
    BY <1>12 DEF finish_shell
  <2>4. TaskType'
    BY <1>0, <1>12, <2>3 DEF finish_shell, TaskType
  <2>5. QED
    BY <1>0, <1>12, <2>2, <2>4 DEF finish_shell, queueVars, ownVars, envVars, Types,
       QueueType, HostType
<1>13. QED
  BY <1>1, <1>2, <1>3, <1>4, <1>5, <1>6, <1>7, <1>8, <1>9, <1>10, <1>11, <1>12
     DEF WorkerStep

LEMMA ActorRequest ==
    ASSUME TurnInv, NEW a \in Actors, run[a].pc \notin Resting
    PROVE  /\ run[a].req \in Requests
           /\ IF a = "worker" THEN run[a].req \in Subs ELSE run[a].req = a /\ a \in Direct
BY DEF TurnInv, Records, Record, WorkerRecord, DirectRecord, Actors, Requests, Resting

LEMMA ExecutionTypes ==
    TurnInv /\ (\E a \in Actors : RunStep(a)) => Types'
<1> SUFFICES ASSUME TurnInv, NEW a \in Actors, RunStep(a) PROVE Types'
  OBVIOUS
<1>0. /\ Types /\ QueueType /\ TurnType /\ TaskType /\ HostType
      /\ notified \in BOOLEAN /\ stale \in BOOLEAN
  BY DEF TurnInv, Types, HostType
<1>a. run[a].pc \notin Resting => run[a].req \in Requests
  BY ActorRequest
<1>b. run[a].input \in Inputs \cup {None}
  BY DEF TurnInv, Records, Runs
<1>1. CASE try_acquire(a) \/ enter_active(a) \/ admission_refused(a) \/ turn_fails(a)
  BY <1>0, <1>1, StillTyped DEF try_acquire, enter_active, admission_refused, turn_fails,
     ownVars
<1>2. CASE release(a)
  BY <1>0, <1>2, StillTyped DEF release
<1>3. CASE start_record(a)
  <2>1. PICK t \in TaskIds : Link(run[a].req, t, run[a].input)
    BY <1>3 DEF start_record
  <2>2. run[a].req \in Requests
    BY <1>3, <1>a DEF start_record, pc, Resting
  <2>3. directive' \in [Subs -> Inputs \cup {None}]
    BY <1>0, <1>3 DEF start_record, TaskType
  <2>4. UNCHANGED <<classified, results, entered, pendingShell>>
    BY <1>3 DEF start_record
  <2>5. TurnType' /\ TaskType' /\ stale' \in BOOLEAN
    BY <1>0, <1>b, <2>1, <2>2, <2>3, <2>4, LinkType
  <2>6. QED
    BY <1>0, <1>3, <2>5 DEF start_record, queueVars, envVars, Types, QueueType, HostType
<1>4. CASE accept_followups(a)
  <2>1. entered' \subseteq Subs
    BY <1>0, <1>4 DEF accept_followups, FollowUps, TaskType
  <2>2. QED
    BY <1>0, <1>4, <2>1 DEF accept_followups, queueVars, turnVars, hostVars, ownVars,
       envVars, Types, QueueType, TurnType, TaskType, HostType
<1>5. CASE complete(a)
  BY <1>0, <1>5 DEF complete, queueVars, turnVars, ownVars, envVars, Types, QueueType,
     TurnType, TaskType, HostType
<1>6. ASSUME NEW b \in BOOLEAN, finish_run(a, b) \/ end_task(a, b) \/ stop_failed(a, b)
      PROVE  Types'
  <2>1. pendingTask' \in BOOLEAN /\ activeRequest' \in Requests \cup {None}
    <3>1. (Settle(b) \/ Settle(FALSE)) => pendingTask' \in BOOLEAN /\ activeRequest' = None
      BY DEF Settle
    <3>2. UNCHANGED <<activeRequest, pendingTask>> =>
             pendingTask' \in BOOLEAN /\ activeRequest' \in Requests \cup {None}
      BY <1>0 DEF TaskType, TurnType
    <3>3. QED BY <1>6, <3>1, <3>2 DEF finish_run, end_task, stop_failed
  <2>2. tasks' \in [TaskIds -> {"absent", "open", "cancelling", "complete", "stopped"}]
    BY <1>0, <1>6 DEF finish_run, end_task, stop_failed, TaskType
  <2>3. UNCHANGED <<queueVars, ops, classified, results, link, used, current, directive,
                    entered, pendingShell, ownVars, envVars>>
    BY <1>6 DEF finish_run, end_task, stop_failed
  <2>4. QED
    BY <1>0, <2>1, <2>2, <2>3 DEF queueVars, ownVars, envVars, Types, QueueType, TurnType,
       TaskType, HostType
<1>7. CASE settle_error(a)
  <2>1. pendingTask' \in BOOLEAN /\ activeRequest' \in Requests \cup {None} /\ stale' \in BOOLEAN
    BY <1>0, <1>7 DEF settle_error, Settle, TaskType, TurnType
  <2>2. UNCHANGED <<queueVars, ops, classified, results, link, used, current, tasks,
                    directive, entered, pendingShell, notified, envVars>>
    BY <1>7 DEF settle_error
  <2>3. QED
    BY <1>0, <2>1, <2>2 DEF queueVars, envVars, Types, QueueType, TurnType, TaskType, HostType
<1>8. QED
  BY <1>1, <1>2, <1>3, <1>4, <1>5, <1>6, <1>7 DEF RunStep

LEMMA StepTypes == TurnInv /\ [Next]_vars => Types'
<1> SUFFICES ASSUME TurnInv, [Next]_vars PROVE Types'
  OBVIOUS
<1>0. /\ Types /\ QueueType /\ TurnType /\ TaskType /\ HostType
      /\ notified \in BOOLEAN /\ stale \in BOOLEAN
  BY DEF TurnInv, Types, HostType
<1>1. ASSUME NEW d \in Direct, resume_task(d) PROVE Types'
  <2>1. PICK t \in {link[r] : r \in Requests} \ {None} : Link(d, t, None)
    BY <1>1 DEF resume_task
  <2>2. d \in Requests /\ t \in TaskIds
    BY <1>0 DEF TurnType, Requests
  <2>3. /\ directive' \in [Subs -> Inputs \cup {None}]
        /\ UNCHANGED <<classified, results, entered, pendingShell>>
    BY <1>0, <1>1 DEF resume_task, TaskType
  <2>4. TurnType' /\ TaskType' /\ stale' \in BOOLEAN
    BY <1>0, <2>1, <2>2, <2>3, LinkType
  <2>5. QED
    BY <1>0, <1>1, <2>4 DEF resume_task, queueVars, envVars, Types, QueueType, HostType
<1>2. ASSUME NEW s \in Subs, wake_queue(s) PROVE Types'
  BY <1>0, <1>2 DEF wake_queue, queueVars, turnVars, taskVars, Types, QueueType, TurnType,
     TaskType, HostType
<1>3. CASE others_release
  BY <1>0, <1>3 DEF others_release, queueVars, turnVars, taskVars, Types, QueueType,
     TurnType, TaskType, HostType
<1>4. CASE recover_interrupted
  BY <1>0, <1>4 DEF recover_interrupted, queueVars, ownVars, Types, QueueType, TurnType,
     TaskType, HostType
<1>5. CASE recover_submissions
  <2>1. status' \in [Subs -> Statuses]
    BY <1>0, <1>5 DEF recover_submissions, Recovered, QueueType, Statuses
  <2>2. QED
    BY <1>0, <1>5, <2>1 DEF recover_submissions, turnVars, taskVars, ownVars, Types,
       QueueType, TurnType, TaskType, HostType
<1>6. CASE start_queued
  BY <1>0, <1>6 DEF start_queued, queueVars, turnVars, taskVars, ownVars, Types,
     QueueType, TurnType, TaskType, HostType
<1>7. CASE UNCHANGED vars
  BY <1>0, <1>7, StillTyped DEF vars, hostVars, ownVars
<1>8. QED
  BY <1>1, <1>2, <1>3, <1>4, <1>5, <1>6, <1>7, ClientTypes, WorkerTypes, ExecutionTypes
     DEF Next, HostStep, RestartStep

-----------------------------------------------------------------------------
(* One actor moves.  Acts(a) is all the session can see of a step of actor a: *)
(* it takes the session only when it is free, gives back only what it owns,   *)
(* touches the active request only as its owner, and takes or returns the     *)
(* permit with its own state.                                                 *)
PermitMoves(a) ==
    \/ permits' = permits /\ (run'[a].pc \in Held <=> run[a].pc \in Held)
    \/ permits # 0 /\ permits' = permits - 1 /\ run[a].pc \notin Held /\ run'[a].pc \in Held
    \/ permits' = permits + 1 /\ run[a].pc \in Held /\ run'[a].pc \notin Held

Acts(a) ==
    /\ Up /\ UNCHANGED <<host, others>>
    /\ run' \in [Actors -> Runs] /\ Record(a)'
    /\ \A b \in Actors \ {a} : run'[b] = run[b]
    /\ active' = active \/ (active \in {None, a} /\ active' \in {None, a})
    /\ run'[a].pc \in Owning => active' = a
    /\ run'[a].pc \in InTurn => activeRequest' = run'[a].req
    /\ activeRequest' = activeRequest \/ active = a \/ activeRequest = run[a].req
    /\ PermitMoves(a)

\* The requests of two actors differ.
LEMMA RequestsApart ==
    ASSUME TurnInv, NEW a \in Actors, NEW b \in Actors \ {a}, run[b].pc \notin Resting
    PROVE  run[a].req # run[b].req /\ run[b].req # None
BY IntentAssumption, SentinelAssumption
   DEF TurnInv, Records, Record, WorkerRecord, DirectRecord, Actors, Requests, Resting

LEMMA PermitsKept ==
    ASSUME PermitsInv, NEW a \in Actors, Acts(a) PROVE PermitsInv'
<1>1. \A b \in Actors \ {a} : b \in Holders' <=> b \in Holders
  BY DEF Acts, Holders, pc
<1>2. a \in Holders <=> run[a].pc \in Held
  BY DEF Holders, pc
<1>3. a \in Holders' <=> run'[a].pc \in Held
  BY DEF Holders, pc
<1>4. Holders \subseteq Actors /\ Holders' \subseteq Actors
  BY DEF Holders
<1>5. Cardinality(Holders) \in Nat /\ IsFiniteSet(Holders)
  BY FS_CardinalityType DEF PermitsInv
<1>6. permits \in Nat /\ others \in Nat /\ others' = others
      /\ permits + others + Cardinality(Holders) = Permits
  BY DEF PermitsInv, PermitsExact, Acts
<1>7. CASE permits' = permits /\ (run'[a].pc \in Held <=> run[a].pc \in Held)
  <2>1. Holders' = Holders
    BY <1>1, <1>2, <1>3, <1>4, <1>7
  <2>2. QED BY <1>5, <1>6, <1>7, <2>1 DEF PermitsInv, PermitsExact
<1>8. CASE permits # 0 /\ permits' = permits - 1 /\ run[a].pc \notin Held
           /\ run'[a].pc \in Held
  <2>1. Holders' = Holders \cup {a} /\ a \notin Holders
    BY <1>1, <1>2, <1>3, <1>4, <1>8
  <2>2. IsFiniteSet(Holders') /\ Cardinality(Holders') = Cardinality(Holders) + 1
    BY <1>5, <2>1, FS_AddElement
  <2>3. QED BY <1>5, <1>6, <1>8, <2>2 DEF PermitsInv, PermitsExact
<1>9. CASE permits' = permits + 1 /\ run[a].pc \in Held /\ run'[a].pc \notin Held
  <2>1. Holders' = Holders \ {a} /\ a \in Holders
    BY <1>1, <1>2, <1>3, <1>4, <1>9
  <2>2. IsFiniteSet(Holders') /\ Cardinality(Holders') = Cardinality(Holders) - 1
    BY <1>5, <2>1, FS_RemoveElement
  <2>3. QED BY <1>5, <1>6, <1>9, <2>2 DEF PermitsInv, PermitsExact
<1>10. QED BY <1>7, <1>8, <1>9 DEF Acts, PermitMoves

LEMMA ActsKept ==
    ASSUME TurnInv, Types', NEW a \in Actors, Acts(a) PROVE TurnInv'
<1>1. Records'
  <2>1. \A b \in Actors \ {a} : Record(b)'
    BY DEF TurnInv, Records, Record, WorkerRecord, DirectRecord, Acts
  <2>2. QED BY <2>1 DEF Acts, Records
<1>2. Owners' /\ active' \in Actors \cup {None}
  BY SentinelAssumption DEF TurnInv, Owners, Acts, pc
<1>3. TurnOwned'
  <2> SUFFICES ASSUME NEW b \in Actors \ {a}, run'[b].pc \in InTurn
               PROVE  active' = b /\ activeRequest' = run'[b].req
    BY <1>2 DEF Acts, TurnOwned, InTurn, Owning, Owners, pc
  <2>1. run'[b] = run[b] /\ active = b /\ activeRequest = run[b].req
    BY DEF TurnInv, TurnOwned, InTurn, Acts, pc
  <2>2. active' = b /\ active # a
    BY <2>1, SentinelAssumption DEF Acts
  <2>3. activeRequest # run[a].req
    BY <2>1, RequestsApart DEF InTurn, Resting
  <2>4. QED BY <2>1, <2>2, <2>3 DEF Acts
<1>4. Down'
  BY DEF Acts, Down, Up
<1>5. PermitsInv'
  BY PermitsKept DEF TurnInv
<1>6. QED BY <1>1, <1>2, <1>3, <1>4, <1>5 DEF TurnInv, Types

\* Actor a goes on to p with the request it has.
Moved(a, p) ==
    /\ run' \in [Actors -> Runs]
    /\ \A b \in Actors \ {a} : run'[b] = run[b]
    /\ run'[a].pc = p /\ run'[a].req = run[a].req

LEMMA GotoMoves ==
    ASSUME run \in [Actors -> Runs], NEW a \in Actors, NEW p \in Pcs, Goto(a, p)
    PROVE  /\ Moved(a, p) /\ run'[a].kind = run[a].kind /\ run'[a].input = run[a].input
           /\ run'[a].result = run[a].result
<1>1. run[a] \in Runs
  OBVIOUS
<1>2. run' = [run EXCEPT ![a].pc = p]
  BY DEF Goto
<1>3. QED BY <1>1, <1>2 DEF Moved, Runs

LEMMA ResultMoves ==
    ASSUME run \in [Actors -> Runs], NEW a \in Actors, NEW p \in Pcs,
           NEW r \in {"ok", "error", "busy"}, Result(a, p, r)
    PROVE  /\ Moved(a, p) /\ run'[a].kind = run[a].kind /\ run'[a].input = run[a].input
           /\ run'[a].result = r
<1>1. run[a] \in Runs
  OBVIOUS
<1>2. run' = [run EXCEPT ![a].pc = p, ![a].result = r]
  BY DEF Result
<1>3. QED BY <1>1, <1>2 DEF Moved, Runs

LEMMA SettleMoves ==
    ASSUME run \in [Actors -> Runs], TaskType, NEW a \in Actors, settle_error(a)
    PROVE  /\ \/ Moved(a, "done")
              \/ Moved(a, "stopping") /\ activeRequest = run[a].req /\ UNCHANGED activeRequest
           /\ run'[a].kind = run[a].kind /\ run'[a].input = run[a].input
           /\ run'[a].result = run[a].result
<1>1. CASE Goto(a, "done")
  BY <1>1, GotoMoves DEF Pcs
<1>2. CASE /\ current # None /\ OpenTask(current)
           /\ activeRequest = run[a].req /\ UNCHANGED activeRequest
           /\ run' = [run EXCEPT ![a].pc = "stopping", ![a].was = tasks[current]]
  <2>1. run[a] \in Runs
    OBVIOUS
  <2>2. tasks[current] \in {"none", "open", "cancelling"} /\ "stopping" \in Pcs
    BY <1>2 DEF OpenTask, Pcs
  <2> DEFINE w == [run[a] EXCEPT !.pc = "stopping", !.was = tasks[current]]
  <2>3. /\ w \in Runs /\ w.pc = "stopping" /\ w.req = run[a].req
        /\ w.kind = run[a].kind /\ w.input = run[a].input /\ w.result = run[a].result
    BY <2>1, <2>2 DEF Runs
  <2>4. run' = [run EXCEPT ![a] = w]
    BY <1>2
  <2> HIDE DEF w
  <2>5. run' \in [Actors -> Runs] /\ run'[a] = w /\ \A b \in Actors \ {a} : run'[b] = run[b]
    BY <2>3, <2>4
  <2>6. QED BY <1>2, <2>3, <2>5 DEF Moved
<1>3. QED BY <1>1, <1>2 DEF settle_error

LEMMA ResetMoves ==
    ASSUME run \in [Actors -> Runs], NEW a \in Actors, run' = [run EXCEPT ![a] = Idle]
    PROVE  /\ run' \in [Actors -> Runs] /\ run'[a] = Idle /\ Record(a)'
           /\ \A b \in Actors \ {a} : run'[b] = run[b]
BY DEF Idle, Runs, Pcs, SubIntents, Record, WorkerRecord, DirectRecord, Resting, Executing

\* The worker forgets its submission.
LEMMA RestMoves ==
    ASSUME run \in [Actors -> Runs], NEW p \in Resting, Rest(p)
    PROVE  /\ run' \in [Actors -> Runs] /\ run'["worker"].pc = p /\ Record("worker")'
           /\ \A b \in Actors \ {"worker"} : run'[b] = run[b]
<1>1. run' = [run EXCEPT !["worker"] = [Idle EXCEPT !.pc = p]] /\ "worker" \in Actors
  BY DEF Rest, Actors
<1>2. /\ [Idle EXCEPT !.pc = p] \in Runs /\ [Idle EXCEPT !.pc = p].pc = p
      /\ [Idle EXCEPT !.pc = p].req = None
  BY DEF Idle, Runs, Pcs, SubIntents, Resting
<1>3. run'["worker"] = [Idle EXCEPT !.pc = p]
  BY <1>1
<1>4. WorkerRecord(run'["worker"])
  BY <1>2, <1>3 DEF WorkerRecord, Resting
<1>5. QED BY <1>1, <1>2, <1>3, <1>4 DEF Record

\* A working actor that goes on keeps its request.
LEMMA MovedRecord ==
    ASSUME TurnInv, NEW a \in Actors, NEW p \in Pcs, Moved(a, p),
           run[a].pc \notin Resting, a # "worker" => p \in Executing
    PROVE  Record(a)'
<1>1. IF a = "worker" THEN run[a].req \in Subs ELSE run[a].req = a
  BY ActorRequest
<1>2. run'[a] \in Runs
  BY DEF Moved
<1>3. QED BY <1>1, <1>2 DEF Moved, Record, WorkerRecord, DirectRecord

\* A move that leaves the session, its active request and the permits alone.
LEMMA QuietMove ==
    ASSUME TurnInv, NEW a \in Actors, NEW p \in Pcs, Moved(a, p), Record(a)', Up,
           UNCHANGED <<host, others, active, activeRequest, permits>>,
           p \in Held <=> run[a].pc \in Held,
           p \in Owning => run[a].pc \in Owning, p \in InTurn => run[a].pc \in InTurn
    PROVE  Acts(a)
<1>1. p \in Owning => active = a
  BY DEF TurnInv, Owners, pc
<1>2. p \in InTurn => activeRequest = run[a].req
  BY DEF TurnInv, TurnOwned, InTurn, pc
<1>3. QED BY <1>1, <1>2 DEF Acts, PermitMoves, Moved

\* The owner of the session moves within its turn and may end or open it.
LEMMA OwnersMove ==
    ASSUME TurnInv, NEW a \in Actors, NEW p \in Owning, Moved(a, p), Up,
           run[a].pc \in Owning, run[a].pc \in Held <=> p \in Held,
           UNCHANGED <<host, others, active, permits>>,
           a # "worker" => p \in Executing,
           p \in InTurn => activeRequest' = run[a].req
    PROVE  Acts(a)
<1>1. active = a
  BY DEF TurnInv, Owners, pc
<1>2. p \in Pcs /\ run[a].pc \notin Resting
  BY DEF Owning, Pcs, Resting
<1>3. Record(a)'
  BY <1>2, MovedRecord
<1>4. QED BY <1>1, <1>3 DEF Acts, PermitMoves, Moved

LEMMA WorkerActs == TurnInv /\ WorkerStep => Acts("worker")
<1> SUFFICES ASSUME TurnInv, WorkerStep PROVE Acts("worker")
  OBVIOUS
<1>a. run \in [Actors -> Runs] /\ "worker" \in Actors /\ run["worker"] \in Runs
  BY DEF TurnInv, Records, Actors
<1>b. run["worker"].req \in Subs \cup {None}
  BY <1>a DEF TurnInv, Records, Record, WorkerRecord
<1>c. run["worker"].pc \in Owning => active = "worker"
  BY <1>a DEF TurnInv, Owners, pc
<1>1. CASE enable_wake \/ park
  <2>1. PICK p \in {"check", "loop"} : Goto("worker", p)
    BY <1>1 DEF enable_wake, park
  <2>2. Moved("worker", p) /\ p \in Pcs
    BY <1>a, <2>1, GotoMoves DEF Pcs
  <2>3. Record("worker")'
    BY <1>a, <1>b, <2>1, <2>2 DEF Record, WorkerRecord, Moved, Resting
  <2>4. QED
    BY <1>1, <1>a, <2>2, <2>3, QuietMove DEF enable_wake, park, ownVars, turnVars, envVars,
       Up, pc, Owning, InTurn, Held
<1>2. CASE claim
  <2>0. Up /\ run["worker"].pc = "check"
        /\ UNCHANGED <<host, others, active, activeRequest, permits>>
    BY <1>2 DEF claim, Up, pc, turnVars, ownVars, envVars
  <2>1. CASE Goto("worker", "park")
    <3>1. Moved("worker", "park") /\ "park" \in Pcs
      BY <1>a, <2>1, GotoMoves DEF Pcs
    <3>2. Record("worker")'
      BY <1>a, <1>b, <3>1 DEF Record, WorkerRecord, Moved, Resting
    <3>3. QED BY <1>a, <2>0, <3>1, <3>2, QuietMove DEF Owning, InTurn, Held
  <2>2. CASE run' = [run EXCEPT !["worker"] = Idle]
    <3>1. /\ run' \in [Actors -> Runs] /\ run'["worker"] = Idle /\ Record("worker")'
          /\ \A b \in Actors \ {"worker"} : run'[b] = run[b]
      BY <1>a, <2>2, ResetMoves
    <3>2. QED BY <2>0, <3>1 DEF Idle, Acts, PermitMoves, Owning, InTurn, Held
  <2>3. ASSUME NEW s \in next_submission,
               run' = [run EXCEPT !["worker"] =
                        [Idle EXCEPT !.pc = "claimed", !.req = s,
                                     !.kind = Intent[s], !.input = input[s]]]
        PROVE  Acts("worker")
    <3> DEFINE w == [Idle EXCEPT !.pc = "claimed", !.req = s,
                                 !.kind = Intent[s], !.input = input[s]]
    <3>1. s \in Subs
      BY DEF next_submission, Queued
    <3>2. Intent[s] \in SubIntents /\ input[s] \in Inputs \cup {None}
      BY <3>1, IntentAssumption DEF TurnInv, QueueType
    <3>3. w \in Runs /\ w.pc = "claimed" /\ w.req = s
      BY <3>1, <3>2 DEF Idle, Runs, Pcs, Requests
    <3> HIDE DEF w
    <3>4. /\ run' \in [Actors -> Runs] /\ run'["worker"] = w
          /\ \A b \in Actors \ {"worker"} : run'[b] = run[b]
      BY <1>a, <2>3, <3>3 DEF w
    <3>5. Record("worker")'
      BY <3>1, <3>3, <3>4 DEF Record, WorkerRecord
    <3>6. QED BY <2>0, <3>3, <3>4, <3>5 DEF Acts, PermitMoves, Owning, InTurn, Held
  <2>4. QED BY <1>2, <2>1, <2>2, <2>3 DEF claim
<1>3. CASE dispatch
  <2>1. PICK p \in {"classify", "enter"} :
           run' = [run EXCEPT !["worker"].pc = p, !["worker"].seen = current]
    BY <1>3 DEF dispatch
  <2>2. current \in TaskIds \cup {None}
    BY DEF TurnInv, TaskType
  <2>3. Moved("worker", p) /\ p \in Pcs
    <3>1. p \in Pcs /\ "worker" \in Actors
      BY DEF Pcs, Actors
    <3>2. PICK w \in Runs : w = run["worker"]
      BY <1>a, <3>1
    <3>3. PICK n : n = [w EXCEPT !.pc = p, !.seen = current]
      OBVIOUS
    <3>4. n \in Runs /\ n.pc = p /\ n.req = w.req
      BY <2>2, <3>1, <3>3 DEF Runs
    <3>5. run' = [run EXCEPT !["worker"] = n]
      BY <1>a, <2>1, <3>1, <3>2, <3>3
    <3>6. QED BY <1>a, <3>1, <3>2, <3>4, <3>5 DEF Moved
  <2>4. run["worker"].pc = "claimed" /\ Up
        /\ UNCHANGED <<host, others, active, activeRequest, permits>>
    BY <1>3 DEF dispatch, Up, pc, turnVars, ownVars, envVars
  <2>5. Record("worker")'
    BY <1>a, <2>3, <2>4, MovedRecord DEF Resting
  <2>6. QED BY <1>a, <2>1, <2>3, <2>4, <2>5, QuietMove DEF Owning, InTurn, Held
<1>4. CASE classify_ordinary
  <2>1. run["worker"].pc = "classify" /\ Up
        /\ UNCHANGED <<host, others, activeRequest, permits>>
    BY <1>4 DEF classify_ordinary, Up, pc, turnVars, envVars
  <2>2. CASE active # None
    <3>1. Moved("worker", "unclassified") /\ "unclassified" \in Pcs
      BY <1>4, <1>a, <2>2, ResultMoves DEF classify_ordinary, Pcs
    <3>2. Record("worker")'
      BY <1>a, <2>1, <3>1, MovedRecord DEF Resting
    <3>3. QED
      BY <1>4, <1>a, <2>1, <2>2, <3>1, <3>2, QuietMove
         DEF classify_ordinary, Owning, InTurn, Held
  <2>3. CASE active = None
    <3>1. Moved("worker", "begin") /\ "begin" \in Pcs /\ active' = "worker"
      BY <1>4, <1>a, <2>3, GotoMoves DEF classify_ordinary, Pcs
    <3>2. Record("worker")'
      BY <1>a, <2>1, <3>1, MovedRecord DEF Resting
    <3>3. QED BY <2>1, <2>3, <3>1, <3>2 DEF Acts, PermitMoves, Moved, Owning, InTurn, Held
  <2>4. QED BY <2>2, <2>3
<1>5. CASE begin_classification
  <2>1. run["worker"].pc = "begin" /\ Up /\ active = "worker"
        /\ UNCHANGED <<host, others, permits>>
    BY <1>5, <1>c DEF begin_classification, Up, pc, envVars, Owning
  <2>2. CASE Goto("worker", "classifying") /\ UNCHANGED active
    <3>1. Moved("worker", "classifying")
      BY <1>a, <2>2, GotoMoves DEF Pcs
    <3>2. QED BY <1>a, <2>1, <2>2, <3>1, OwnersMove DEF Owning, Held, InTurn
  <2>3. CASE Result("worker", "unclassified", "error") /\ active' = None
    <3>1. Moved("worker", "unclassified") /\ "unclassified" \in Pcs
      BY <1>a, <2>3, ResultMoves DEF Pcs
    <3>2. Record("worker")'
      BY <1>a, <2>1, <3>1, MovedRecord DEF Resting
    <3>3. QED BY <2>1, <2>3, <3>1, <3>2 DEF Acts, PermitMoves, Moved, Owning, InTurn, Held
  <2>4. QED BY <1>5, <2>2, <2>3 DEF begin_classification
<1>6. ASSUME NEW k \in {"none", "information", "action"}, classify_ordinary_call(k)
      PROVE  Acts("worker")
  <2>1. run["worker"].pc = "classifying" /\ Up /\ active = "worker" /\ active' = None
        /\ UNCHANGED <<host, others, permits, activeRequest>>
    BY <1>6, <1>c DEF classify_ordinary_call, Up, pc, envVars, Owning
  <2>2. PICK p \in {"unclassified", "routed"} : Moved("worker", p) /\ p \in Pcs
    BY <1>6, <1>a, GotoMoves, ResultMoves DEF classify_ordinary_call, Pcs
  <2>3. Record("worker")'
    BY <1>a, <2>1, <2>2, MovedRecord DEF Resting
  <2>4. QED BY <2>1, <2>2, <2>3 DEF Acts, PermitMoves, Moved, Owning, InTurn, Held
<1>7. CASE settle_failed_classification
  <2>1. /\ run["worker"].pc = "unclassified" /\ Up
        /\ UNCHANGED <<host, others, permits, active>>
        /\ activeRequest' = activeRequest \/ activeRequest = run["worker"].req
    BY <1>7 DEF settle_failed_classification, Up, pc, ownVars, envVars
  <2>2. Moved("worker", "finish") /\ "finish" \in Pcs
    BY <1>7, <1>a, GotoMoves DEF settle_failed_classification, Pcs
  <2>3. Record("worker")'
    BY <1>a, <2>1, <2>2, MovedRecord DEF Resting
  <2>4. QED BY <2>1, <2>2, <2>3 DEF Acts, PermitMoves, Moved, Owning, InTurn, Held
<1>8. CASE route
  <2>1. run["worker"].pc = "routed" /\ Up
        /\ UNCHANGED <<host, others, permits, active, activeRequest>>
    BY <1>8 DEF route, Up, pc, turnVars, ownVars, envVars
  <2>2. PICK k \in {"answer", "continue", "new"} :
           run' = [run EXCEPT !["worker"].pc = "enter", !["worker"].kind = k]
    BY <1>8 DEF route
  <2>k. k \in SubIntents \cup {"none", "answer", "resume"} /\ "enter" \in Pcs
    BY DEF SubIntents, Pcs
  <2>3. Moved("worker", "enter") /\ "enter" \in Pcs
    BY <1>a, <2>2, <2>k DEF Moved, Runs
  <2>4. Record("worker")'
    BY <1>a, <2>1, <2>3, MovedRecord DEF Resting
  <2>5. QED BY <1>a, <2>1, <2>3, <2>4, QuietMove DEF Owning, InTurn, Held
<1>9. CASE continue_submission
  <2>1. run["worker"].pc = "entered" /\ Up /\ UNCHANGED <<host, others, permits, active>>
        /\ activeRequest' = run["worker"].req /\ Goto("worker", "running")
    BY <1>9 DEF continue_submission, Link, Up, pc, envVars
  <2>2. Moved("worker", "running")
    BY <1>a, <2>1, GotoMoves DEF Pcs
  <2>3. QED BY <1>a, <2>1, <2>2, OwnersMove DEF Owning, Held, InTurn
<1>10. CASE begin_auxiliary
  <2>1. run["worker"].pc = "entered" /\ Up /\ UNCHANGED <<host, others, permits, active>>
        /\ activeRequest' = run["worker"].req /\ Goto("worker", "running")
    BY <1>10 DEF begin_auxiliary, Up, pc, ownVars, envVars
  <2>2. Moved("worker", "running")
    BY <1>a, <2>1, GotoMoves DEF Pcs
  <2>3. QED BY <1>a, <2>1, <2>2, OwnersMove DEF Owning, Held, InTurn
<1>11. CASE load_shell \/ prepare_shell
  <2>1. /\ run["worker"].pc \in {"entered", "loaded"} /\ Up
        /\ UNCHANGED <<host, others, permits, active>>
    BY <1>11 DEF load_shell, prepare_shell, Up, pc, ownVars, envVars
  <2>2. run["worker"].req \in Subs
    BY <2>1, WorkerRequest DEF Resting
  <2>3. input[run["worker"].req] \in Inputs \cup {None}
    BY <2>2 DEF TurnInv, QueueType
  <2>4. CASE load_shell
    <3>1. Moved("worker", "loaded")
      BY <1>a, <2>3, <2>4 DEF load_shell, Moved, Runs, Pcs
    <3>2. QED BY <1>a, <2>1, <3>1, OwnersMove DEF Owning, Held, InTurn
  <2>5. CASE prepare_shell
    <3>1. Moved("worker", "prepared")
      BY <1>a, <2>5, GotoMoves DEF prepare_shell, Pcs
    <3>2. QED BY <1>a, <2>1, <3>1, OwnersMove DEF Owning, Held, InTurn
  <2>6. QED BY <1>11, <2>4, <2>5
<1>12. CASE begin_shell
  <2>1. run["worker"].pc = "prepared" /\ Up /\ UNCHANGED <<host, others, permits, active>>
        /\ activeRequest' = run["worker"].req /\ Goto("worker", "running")
    BY <1>12 DEF begin_shell, Up, pc, ownVars, envVars
  <2>2. Moved("worker", "running")
    BY <1>a, <2>1, GotoMoves DEF Pcs
  <2>3. QED BY <1>a, <2>1, <2>2, OwnersMove DEF Owning, Held, InTurn
<1>13. ASSUME NEW b \in BOOLEAN, publish_auxiliary(b) PROVE Acts("worker")
  <2>1. run["worker"].pc = "running" /\ Up
        /\ UNCHANGED <<host, others, permits, active, activeRequest>>
    BY <1>13 DEF publish_auxiliary, Up, pc, ownVars, envVars
  <2>2. PICK p \in {"done", "published"} : Moved("worker", p)
    BY <1>13, <1>a, GotoMoves, ResultMoves DEF publish_auxiliary, Pcs
  <2>3. activeRequest = run["worker"].req
    BY <1>a, <2>1 DEF TurnInv, TurnOwned, pc
  <2>4. QED BY <1>a, <2>1, <2>2, <2>3, OwnersMove DEF Owning, Held, InTurn
<1>14. ASSUME NEW b \in BOOLEAN, finish_shell(b) PROVE Acts("worker")
  <2>1. run["worker"].pc = "running" /\ Up /\ UNCHANGED <<host, others, permits, active>>
    BY <1>14 DEF finish_shell, Up, pc, ownVars, envVars
  <2>2. Moved("worker", "done")
    BY <1>14, <1>a, ResultMoves DEF finish_shell, Pcs
  <2>3. QED BY <1>a, <2>1, <2>2, OwnersMove DEF Owning, Held, InTurn
<1>15. CASE settle_auxiliary \/ shell_uncaptured
  <2>1. run["worker"].pc \in {"published", "running"} /\ Up
        /\ UNCHANGED <<host, others, permits, active>>
    BY <1>15 DEF settle_auxiliary, shell_uncaptured, Up, pc, ownVars, envVars
  <2>2. Moved("worker", "done")
    BY <1>15, <1>a, ResultMoves DEF settle_auxiliary, shell_uncaptured, Pcs
  <2>3. QED BY <1>a, <2>1, <2>2, OwnersMove DEF Owning, Held, InTurn
<1>16. CASE finish
  <2>1. run["worker"].pc = "finish" /\ Up
        /\ UNCHANGED <<host, others, permits, active, activeRequest>>
    BY <1>16 DEF finish, Up, pc, turnVars, ownVars, envVars
  <2>2. PICK p \in {"loop", "park"} : Rest(p)
    BY <1>16 DEF finish
  <2>3. /\ run' \in [Actors -> Runs] /\ run'["worker"].pc = p /\ Record("worker")'
        /\ \A b \in Actors \ {"worker"} : run'[b] = run[b]
    BY <1>a, <2>2, RestMoves DEF Resting
  <2>4. QED BY <2>1, <2>3 DEF Acts, PermitMoves, Owning, InTurn, Held
<1>17. QED
  BY <1>1, <1>2, <1>3, <1>4, <1>5, <1>6, <1>7, <1>8, <1>9, <1>10, <1>11, <1>12, <1>13,
     <1>14, <1>15, <1>16 DEF WorkerStep

LEMMA RefuseActs ==
    ASSUME TurnInv, NEW a \in Actors, NEW r \in {"busy", "error"}, Refuse(a, r), Up,
           run[a].pc \in {"enter", "permitted"},
           UNCHANGED <<host, others, active, activeRequest>>,
           permits' = IF run[a].pc \in Held THEN permits + 1 ELSE permits
    PROVE  Acts(a)
<1>a. run \in [Actors -> Runs]
  BY DEF TurnInv, Records
<1>1. CASE a = "worker"
  <2>1. Moved(a, "finish") /\ "finish" \in Pcs
    BY <1>1, <1>a, ResultMoves DEF Refuse, Pcs
  <2>2. Record(a)'
    BY <1>1, <2>1, MovedRecord DEF Resting
  <2>3. QED BY <2>1, <2>2 DEF Acts, PermitMoves, Moved, Owning, InTurn, Held
<1>2. CASE a # "worker"
  <2>1. run' = [run EXCEPT ![a] = Idle]
    BY <1>2 DEF Refuse
  <2>2. /\ run' \in [Actors -> Runs] /\ run'[a] = Idle /\ Record(a)'
        /\ \A b \in Actors \ {a} : run'[b] = run[b]
    BY <1>a, <2>1, ResetMoves
  <2>3. QED BY <2>2 DEF Acts, PermitMoves, Idle, Owning, InTurn, Held
<1>3. QED BY <1>1, <1>2

LEMMA ExecutionActs ==
    ASSUME TurnInv, NEW a \in Actors, RunStep(a), ~accept_followups(a) PROVE Acts(a)
<1>a. run \in [Actors -> Runs]
  BY DEF TurnInv, Records
<1>b. run[a].pc \in InTurn => activeRequest = run[a].req
  BY DEF TurnInv, TurnOwned, InTurn, pc
<1>1. CASE try_acquire(a)
  <2>1. run[a].pc = "enter" /\ Up /\ UNCHANGED <<host, others, active, activeRequest>>
    BY <1>1 DEF try_acquire, Up, pc, turnVars, envVars
  <2>2. CASE permits = 0
    BY <1>1, <2>1, <2>2, RefuseActs DEF try_acquire, Held
  <2>3. CASE permits # 0
    <3>1. Moved(a, "permitted") /\ "permitted" \in Pcs /\ permits' = permits - 1
      BY <1>1, <1>a, <2>3, GotoMoves DEF try_acquire, Pcs
    <3>2. Record(a)'
      BY <2>1, <3>1, MovedRecord DEF Resting, Executing
    <3>3. QED BY <2>1, <2>3, <3>1, <3>2 DEF Acts, PermitMoves, Moved, Owning, InTurn, Held
  <2>4. QED BY <2>2, <2>3
<1>2. CASE enter_active(a)
  <2>1. run[a].pc = "permitted" /\ Up /\ UNCHANGED <<host, others, activeRequest>>
    BY <1>2 DEF enter_active, Up, pc, turnVars, envVars
  <2>2. ASSUME NEW r \in {"busy", "error"}, Refuse(a, r), permits' = permits + 1,
               UNCHANGED active
        PROVE  Acts(a)
    BY <2>1, <2>2, RefuseActs DEF Held
  <2>3. CASE Goto(a, "entered") /\ active = None /\ active' = a /\ UNCHANGED permits
    <3>1. Moved(a, "entered") /\ "entered" \in Pcs
      BY <1>a, <2>3, GotoMoves DEF Pcs
    <3>2. Record(a)'
      BY <2>1, <3>1, MovedRecord DEF Resting, Executing
    <3>3. QED BY <2>1, <2>3, <3>1, <3>2 DEF Acts, PermitMoves, Moved, Owning, InTurn, Held
  <2>4. QED BY <1>2, <2>2, <2>3 DEF enter_active, SessionFree
<1>3. CASE start_record(a)
  <2>1. run[a].pc = "entered" /\ Up /\ UNCHANGED <<host, others, permits, active>>
        /\ activeRequest' = run[a].req /\ Goto(a, "running")
    BY <1>3 DEF start_record, Link, Up, pc, envVars
  <2>2. Moved(a, "running")
    BY <1>a, <2>1, GotoMoves DEF Pcs
  <2>3. QED BY <2>1, <2>2, OwnersMove DEF Owning, Held, InTurn, Executing
<1>4. CASE admission_refused(a)
  <2>1. run[a].pc \in {"entered", "prepared"} /\ Up
        /\ UNCHANGED <<host, others, permits, active>>
    BY <1>4 DEF admission_refused, Up, pc, ownVars, envVars
  <2>2. PICK p \in {"done", "failing"}, r \in {"ok", "error"} : Result(a, p, r)
    BY <1>4 DEF admission_refused
  <2>3. Moved(a, p)
    BY <1>a, <2>2, ResultMoves DEF Pcs
  <2>4. QED BY <2>1, <2>3, OwnersMove DEF Owning, Held, InTurn, Executing
<1>5. CASE complete(a)
  <2>1. run[a].pc = "running" /\ Up
        /\ UNCHANGED <<host, others, permits, active, activeRequest>>
    BY <1>5 DEF complete, Turn, Up, pc, turnVars, ownVars, envVars
  <2>2. Moved(a, "completed")
    BY <1>5, <1>a, GotoMoves DEF complete, Pcs
  <2>3. QED BY <1>b, <2>1, <2>2, OwnersMove DEF Owning, Held, InTurn, Executing
<1>6. ASSUME NEW b \in BOOLEAN, finish_run(a, b) \/ end_task(a, b) \/ stop_failed(a, b)
      PROVE  Acts(a)
  <2>1. run[a].pc \in {"running", "completed", "stopping"} /\ Up
        /\ UNCHANGED <<host, others, permits, active>>
    BY <1>6 DEF finish_run, end_task, stop_failed, Turn, Up, pc, ownVars, envVars
  <2>2. \/ \E p \in {"done", "failing"}, r \in {"ok", "error"} : Result(a, p, r)
        \/ Goto(a, "done")
    BY <1>6 DEF finish_run, end_task, stop_failed
  <2>3. PICK p \in {"done", "failing"} : Moved(a, p)
    BY <1>a, <2>2, ResultMoves, GotoMoves DEF Pcs
  <2>4. QED BY <2>1, <2>3, OwnersMove DEF Owning, Held, InTurn, Executing
<1>7. CASE turn_fails(a)
  <2>1. run[a].pc = "running" /\ Up /\ UNCHANGED <<host, others, permits, active>>
    BY <1>7 DEF turn_fails, Turn, Up, pc, ownVars, envVars
  <2>2. Moved(a, "failing")
    BY <1>7, <1>a, ResultMoves DEF turn_fails, Pcs
  <2>3. QED BY <2>1, <2>2, OwnersMove DEF Owning, Held, InTurn, Executing
<1>8. CASE release(a)
  <2>1. run[a].pc = "done" /\ Up /\ active' = None /\ permits' = permits + 1
        /\ UNCHANGED <<host, others, activeRequest>>
    BY <1>8 DEF release, Up, pc, turnVars, envVars
  <2>2. active = a
    BY <2>1 DEF TurnInv, Owners, Owning, pc
  <2>3. CASE a = "worker"
    <3>1. Moved(a, "finish") /\ "finish" \in Pcs
      BY <1>8, <1>a, <2>3, GotoMoves DEF release, Pcs
    <3>2. Record(a)'
      BY <2>1, <2>3, <3>1, MovedRecord DEF Resting
    <3>3. QED BY <2>1, <2>2, <3>1, <3>2 DEF Acts, PermitMoves, Moved, Owning, InTurn, Held
  <2>4. CASE a # "worker"
    <3>1. run' = [run EXCEPT ![a] = Idle]
      BY <1>8, <2>4 DEF release
    <3>2. /\ run' \in [Actors -> Runs] /\ run'[a] = Idle /\ Record(a)'
          /\ \A b \in Actors \ {a} : run'[b] = run[b]
      BY <1>a, <3>1, ResetMoves
    <3>3. QED BY <2>1, <2>2, <3>2 DEF Acts, PermitMoves, Idle, Owning, InTurn, Held
  <2>5. QED BY <2>3, <2>4
<1>9. CASE settle_error(a)
  <2>1. run[a].pc = "failing" /\ Up /\ UNCHANGED <<host, others, permits, active>>
    BY <1>9 DEF settle_error, Up, pc, envVars
  <2>2. PICK p \in {"done", "stopping"} :
           Moved(a, p) /\ (p = "stopping" => activeRequest' = run[a].req)
    BY <1>9, <1>a, SettleMoves DEF TurnInv
  <2>3. QED BY <2>1, <2>2, OwnersMove DEF Owning, Held, InTurn, Executing
<1>10. QED
  BY <1>1, <1>2, <1>3, <1>4, <1>5, <1>6, <1>7, <1>8, <1>9 DEF RunStep

LEMMA ResumeActs == ASSUME TurnInv, NEW d \in Direct, resume_task(d) PROVE Acts(d)
<1>1. run[d].pc = "entered" /\ Up /\ UNCHANGED <<host, others, permits, active>>
      /\ activeRequest' = d /\ Goto(d, "running") /\ d \in Actors
  BY DEF resume_task, Link, Up, pc, envVars, Actors
<1>2. Moved(d, "running")
  BY <1>1, GotoMoves DEF TurnInv, Records, Pcs
<1>3. run[d].req = d
  BY <1>1, ActorRequest, IntentAssumption DEF Resting
<1>4. QED BY <1>1, <1>2, <1>3, OwnersMove DEF Owning, Held, InTurn, Executing

LEMMA ExecuteActs == ASSUME TurnInv, NEW d \in Direct, execute_request(d) PROVE Acts(d)
<1> DEFINE w == [Idle EXCEPT !.pc = "enter", !.req = d, !.kind = Intent[d]]
<1>1. Intent[d] \in {"new", "resume"} /\ d \in Requests /\ d \in Actors /\ d # "worker"
  BY IntentAssumption DEF Requests, Actors
<1>2. w \in Runs /\ w.pc = "enter" /\ w.req = d
  BY <1>1 DEF Idle, Runs, Pcs, SubIntents
<1>3. /\ run[d].pc = "off" /\ run' = [run EXCEPT ![d] = w] /\ Up
      /\ UNCHANGED <<host, others, permits, active, activeRequest>>
  BY DEF execute_request, Up, pc, turnVars, ownVars, envVars
<1> HIDE DEF w
<1>4. /\ run' \in [Actors -> Runs] /\ run'[d] = w
      /\ \A b \in Actors \ {d} : run'[b] = run[b]
  BY <1>1, <1>2, <1>3 DEF TurnInv, Records
<1>5. Record(d)'
  BY <1>1, <1>2, <1>4 DEF Record, DirectRecord, Executing
<1>6. QED BY <1>2, <1>3, <1>4, <1>5 DEF Acts, PermitMoves, Owning, InTurn, Held

LEMMA WakeActs == ASSUME TurnInv, NEW s \in Subs, wake_queue(s),
                         pc("worker") = "off"
                  PROVE  Acts("worker")
<1>1. /\ run["worker"].pc = "off" /\ Up /\ Goto("worker", "loop") /\ "worker" \in Actors
      /\ UNCHANGED <<host, others, permits, active, activeRequest>>
  BY DEF wake_queue, Up, pc, turnVars, Actors
<1>2. Moved("worker", "loop") /\ "loop" \in Pcs
  BY <1>1, GotoMoves DEF TurnInv, Records, Pcs
<1>3. run["worker"].req \in Subs \cup {None}
  BY <1>1 DEF TurnInv, Records, Record, WorkerRecord
<1>4. Record("worker")'
  BY <1>1, <1>2, <1>3 DEF Record, WorkerRecord, Moved, Resting
<1>5. QED BY <1>1, <1>2, <1>4, QuietMove DEF Owning, InTurn, Held

LEMMA QuietKept ==
    ASSUME TurnInv, Types', UNCHANGED <<run, active, activeRequest, permits, others, host>>,
           Up \/ UNCHANGED accepting
    PROVE  TurnInv'
<1>1. Holders' = Holders
  BY DEF Holders, pc
<1>2. PermitsInv'
  BY <1>1 DEF TurnInv, PermitsInv, PermitsExact
<1>3. Records' /\ Owners' /\ TurnOwned'
  BY DEF TurnInv, Records, Record, Owners, TurnOwned, pc
<1>4. Down'
  BY DEF TurnInv, Down, Up
<1>5. QED BY <1>2, <1>3, <1>4 DEF TurnInv, Types

\* Nothing of the old host's work is left when it is down.
LEMMA NobodyHolds ==
    ASSUME \A a \in Actors : pc(a) \in {"off", "loop"}, permits = Permits, others = 0
    PROVE  PermitsInv /\ Owners /\ TurnOwned
<1>1. Holders = {}
  BY DEF Holders, Held
<1>2. PermitsInv
  BY <1>1, FS_EmptySet, BoundsAssumption DEF PermitsInv, PermitsExact
<1>3. QED BY <1>2 DEF Owners, TurnOwned, Owning

LEMMA TurnStep == TurnInv /\ [Next]_vars => TurnInv'
<1> SUFFICES ASSUME TurnInv, [Next]_vars PROVE TurnInv'
  OBVIOUS
<1>0. Types'
  BY StepTypes
<1>w. "worker" \in Actors /\ Direct \subseteq Actors
  BY DEF Actors
<1>1. CASE ClientStep
  <2>1. ASSUME \/ \E s \in Subs, i \in Inputs, steer \in BOOLEAN : submit(s, i, steer)
               \/ \E s \in Subs, i \in Inputs \cup {None} : edit_submission(s, i)
               \/ \E s \in Subs, b \in Subs \cup {None} : move_submission(s, b)
               \/ \E s \in Subs : cancel_submission(s)
               \/ \E r \in Requests : cancel_request(r)
               \/ cancel \/ shutdown_if_idle
        PROVE  TurnInv'
    <3>1. /\ UNCHANGED <<run, active, activeRequest, permits, others, host>> /\ Up
      BY <2>1 DEF submit, edit_submission, move_submission, cancel_submission,
         cancel_request, cancel, shutdown_if_idle, turnVars, hostVars, ownVars, envVars
    <3>2. QED BY <1>0, <3>1, QuietKept
  <2>2. ASSUME NEW d \in Direct, execute_request(d) PROVE TurnInv'
    BY <1>0, <1>w, <2>2, ExecuteActs, ActsKept
  <2>3. CASE others_acquire
    <3>1. /\ UNCHANGED <<run, active, activeRequest, host>> /\ Up
          /\ permits > 0 /\ permits' = permits - 1 /\ others' = others + 1
      BY <2>3 DEF others_acquire, turnVars
    <3>2. Holders' = Holders /\ Cardinality(Holders) \in Nat
      BY <3>1, FS_CardinalityType DEF Holders, pc, TurnInv, PermitsInv
    <3>3. PermitsInv'
      BY <3>1, <3>2 DEF TurnInv, PermitsInv, PermitsExact
    <3>4. QED BY <1>0, <3>1, <3>3 DEF TurnInv, Types, Records, Record, Owners, TurnOwned,
          Down, Up, pc
  <2>4. CASE crash
    <3>1. /\ run' = [a \in Actors |-> Idle] /\ active' = None /\ accepting'
          /\ permits' = Permits /\ others' = 0
      BY <2>4 DEF crash
    <3>2. Idle \in Runs /\ Idle.pc = "off" /\ Idle.req = None
      BY DEF Idle, Runs, Pcs
    <3>3. \A a \in Actors : run'[a] = Idle /\ pc(a)' \in {"off", "loop"}
      BY <3>1, <3>2 DEF pc
    <3>4. PermitsInv' /\ Owners' /\ TurnOwned'
      <4>1. Holders' = {}
        BY <3>3 DEF Holders, Held
      <4>2. PermitsInv'
        BY <3>1, <4>1, FS_EmptySet, BoundsAssumption DEF PermitsInv, PermitsExact
      <4>3. QED BY <3>3, <4>2 DEF Owners, TurnOwned, Owning
    <3>5. Records'
      BY <3>1, <3>2, <3>3 DEF Records, Record, WorkerRecord, DirectRecord, Resting
    <3>6. QED BY <1>0, <3>1, <3>3, <3>4, <3>5 DEF TurnInv, Types, Down
  <2>5. QED BY <1>1, <2>1, <2>2, <2>3, <2>4 DEF ClientStep
<1>2. CASE WorkerStep
  BY <1>0, <1>2, <1>w, WorkerActs, ActsKept
<1>3. ASSUME NEW a \in Actors, RunStep(a) PROVE TurnInv'
  <2>1. CASE accept_followups(a)
    <3>1. UNCHANGED <<run, active, activeRequest, permits, others, host, accepting>>
      BY <2>1 DEF accept_followups, turnVars, hostVars, ownVars, envVars
    <3>2. QED BY <1>0, <3>1, QuietKept
  <2>2. CASE ~accept_followups(a)
    BY <1>0, <1>3, <2>2, ExecutionActs, ActsKept
  <2>3. QED BY <2>1, <2>2
<1>4. ASSUME NEW d \in Direct, resume_task(d) PROVE TurnInv'
  BY <1>0, <1>w, <1>4, ResumeActs, ActsKept
<1>5. ASSUME NEW s \in Subs, wake_queue(s) PROVE TurnInv'
  <2>1. CASE pc("worker") = "off"
    BY <1>0, <1>5, <1>w, <2>1, WakeActs, ActsKept
  <2>2. CASE pc("worker") # "off"
    <3>1. UNCHANGED <<run, active, activeRequest, permits, others, host, accepting>>
      BY <1>5, <2>2 DEF wake_queue, turnVars
    <3>2. QED BY <1>0, <3>1, QuietKept
  <2>3. QED BY <2>1, <2>2
<1>6. CASE others_release
  <2>1. /\ UNCHANGED <<run, active, activeRequest, host>> /\ Up
        /\ others > 0 /\ permits' = permits + 1 /\ others' = others - 1
    BY <1>6 DEF others_release, turnVars
  <2>2. Holders' = Holders /\ Cardinality(Holders) \in Nat
    BY <2>1, FS_CardinalityType DEF Holders, pc, TurnInv, PermitsInv
  <2>3. PermitsInv'
    BY <2>1, <2>2 DEF TurnInv, PermitsInv, PermitsExact
  <2>4. QED BY <1>0, <2>1, <2>3 DEF TurnInv, Types, Records, Record, Owners, TurnOwned,
        Down, Up, pc
<1>7. CASE RestartStep
  <2>1. host # "up" /\ active = None /\ accepting /\ \A a \in Actors : run[a] = Idle
    BY <1>7 DEF RestartStep, recover_interrupted, recover_submissions, start_queued,
       TurnInv, Down
  <2>2. UNCHANGED <<active, permits, others, accepting>>
    BY <1>7 DEF RestartStep, recover_interrupted, recover_submissions, start_queued,
       ownVars
  <2>3. Idle \in Runs /\ Idle.pc = "off" /\ Idle.req = None
    BY DEF Idle, Runs, Pcs
  <2>4. CASE UNCHANGED run
    <3>1. Holders' = Holders /\ PermitsInv'
      BY <2>2, <2>4 DEF Holders, pc, TurnInv, PermitsInv, PermitsExact
    <3>2. Owners' /\ TurnOwned'
      BY <2>1, <2>3, <2>4 DEF Owners, TurnOwned, pc, Owning
    <3>3. QED BY <1>0, <2>1, <2>2, <2>4, <3>1, <3>2 DEF TurnInv, Types, Records, Record, Down
  <2>5. CASE Goto("worker", "loop") /\ host' = "up"
    <3>1. Moved("worker", "loop")
      BY <1>w, <2>5, GotoMoves DEF TurnInv, Records, Pcs
    <3>2. \A a \in Actors : pc(a)' \in {"off", "loop"}
      BY <2>1, <2>3, <3>1 DEF Moved, pc
    <3>3. Holders' = {} /\ Holders = {}
      BY <2>1, <2>3, <3>2 DEF Holders, Held, pc
    <3>4. PermitsInv'
      BY <2>2, <3>3 DEF TurnInv, PermitsInv, PermitsExact
    <3>5. Owners' /\ TurnOwned'
      BY <3>2 DEF Owners, TurnOwned, Owning
    <3>6. Records'
      BY <2>1, <2>3, <3>1 DEF Records, Record, WorkerRecord, DirectRecord, Moved, Resting
    <3>7. QED BY <1>0, <2>1, <2>2, <2>5, <3>4, <3>5, <3>6 DEF TurnInv, Types, Down
  <2>6. QED
    BY <1>7, <2>4, <2>5 DEF RestartStep, recover_interrupted, recover_submissions,
       start_queued
<1>8. CASE UNCHANGED vars
  <2>1. UNCHANGED <<run, active, activeRequest, permits, others, host, accepting>>
    BY <1>8 DEF vars, turnVars, hostVars, ownVars, envVars
  <2>2. QED BY <1>0, <2>1, QuietKept
<1>9. QED
  BY <1>1, <1>2, <1>3, <1>4, <1>5, <1>6, <1>7, <1>8 DEF Next, HostStep

LEMMA TurnInit == Init => TurnInv
<1> SUFFICES ASSUME Init PROVE TurnInv
  OBVIOUS
<1>1. Idle \in Runs /\ Idle.pc = "off" /\ Idle.req = None
  BY DEF Idle, Runs, Pcs
<1>2. \A a \in Actors : run[a] = Idle /\ pc(a) = "off"
  BY <1>1 DEF Init, pc
<1>3. QueueType /\ TurnType /\ TaskType
  BY DEF Init, QueueType, TurnType, TaskType, Statuses
<1>4. HostType
  <2>1. crashes \in 0..MaxCrashes
    BY BoundsAssumption DEF Init
  <2>2. QED BY <2>1 DEF Init, HostType
<1>5. PermitsInv /\ Owners /\ TurnOwned
  BY <1>2, NobodyHolds DEF Init
<1>6. Records
  BY <1>1, <1>2 DEF Init, Records, Record, WorkerRecord, DirectRecord, Resting
<1>7. QED BY <1>3, <1>4, <1>5, <1>6 DEF Init, TurnInv, Down

LEMMA TurnInvariant == Spec => []TurnInv
BY TurnInit, TurnStep, PTL DEF Spec

\* Every variable but the order of the queue has its type.
LEMMA SessionTypes ==
    Spec => [](QueueType /\ TurnType /\ TaskType /\ RunType /\ HostType /\ PermitType)
<1>1. TurnInv => QueueType /\ TurnType /\ TaskType /\ RunType /\ HostType /\ PermitType
  <2> SUFFICES ASSUME TurnInv PROVE RunType /\ PermitType
    BY DEF TurnInv
  <2>1. RunType
    BY DEF TurnInv, Records, RunType
  <2>2. Cardinality(Holders) \in Nat
    BY FS_CardinalityType DEF TurnInv, PermitsInv
  <2>3. PermitType
    BY <2>2, BoundsAssumption DEF TurnInv, PermitsInv, PermitsExact, PermitType
  <2>4. QED BY <2>1, <2>3
<1>2. QED BY <1>1, TurnInvariant, PTL

\* At most one turn runs in a session at a time and its owner holds the session,
\* and every permit of the host is free, held by one execution or by another
\* session: no error path, refusal or restart leaks one or returns it twice.
THEOREM OneTurnAtATime == Spec => []OneTurn
<1>1. TurnInv => OneTurn
  BY DEF TurnInv, PermitsInv, TurnOwned, OneTurn, SingleTurn
<1>2. QED BY <1>1, TurnInvariant, PTL

-----------------------------------------------------------------------------
(* Submissions.  What the worker holds in its hands is running or was       *)
(* cancelled under it; nothing queued was ever admitted, but for an ordinary *)
(* input that was classified and then found the host busy.                  *)
W == run["worker"]
Working == W.pc \notin Resting
Unstarted == W.pc \in {"claimed", "classify", "begin", "classifying", "unclassified",
                       "routed", "enter", "permitted", "entered", "loaded", "prepared"}
Classified == {"classifying", "routed", "enter", "permitted", "entered"}

Fresh(s) == link[s] = None /\ used[s] = None

WorkerKind ==
    /\ W.pc = "claimed" => W.kind = Intent[W.req]
    /\ W.pc \in {"classify", "begin", "classifying", "unclassified", "routed"} =>
          Intent[W.req] = "ordinary"
    /\ W.pc \in Executing \cup {"loaded", "prepared", "published"} =>
          \/ W.kind = Intent[W.req] /\ W.kind # "ordinary"
          \/ Intent[W.req] = "ordinary" /\ W.kind \in {"answer", "continue", "new"}
    /\ W.pc \in {"loaded", "prepared"} => W.kind = "shell"
InHand ==
    Working =>
      /\ status[W.req] \in {"running", "cancelled"}
      /\ W.pc \in {"loaded", "prepared"} => W.input = input[W.req]
      /\ Unstarted => Fresh(W.req)
      /\ W.result = "busy" => W.pc \in {"unclassified", "finish"} /\ Fresh(W.req)
      /\ W.result = "ok" => W.req \in results \/ link[W.req] # None
      /\ W.pc = "completed" \/ Turn("worker") => link[W.req] # None
      /\ W.pc = "published" => W.req \in results
KeepsTurn ==
    Working /\ Intent[W.req] = "ordinary" /\ W.pc \in Classified => activeRequest = W.req
Admitted ==
    /\ \A s \in Subs : link[s] # None \/ used[s] # None =>
          s \in ops /\ status[s] \notin {"none", "queued"}
    /\ \A r \in Requests : Intent[r] \in {"new", "continue", "resume"} /\ r \in ops =>
          link[r] # None
Registered ==
    /\ \A s \in Subs : directive[s] # None =>
          status[s] # "none" /\ (Intent[s] # "continue" => link[s] # None)
    /\ \A s \in Subs : target[s] # None => Intent[s] = "continue"
Quiescent ==
    ~accepting => /\ Pending = {}
                  /\ \A a \in Actors : pc(a) \notin Owning \ {"begin"}

Reported == InputExact /\ CancelHonoured /\ FinishedRan /\ FollowUpsCovered
Data == Admitted /\ Registered /\ Reported
Hand == WorkerKind /\ InHand /\ KeepsTurn
ReportInv == TurnInv /\ Hand /\ Quiescent /\ Data

dataVars == <<status, input, target, ops, link, used, results, tasks, directive, entered>>

LEMMA DataStays == ASSUME Data, UNCHANGED dataVars PROVE Data'
BY DEF Data, dataVars, Admitted, Registered, Reported, InputExact, CancelHonoured,
   FinishedRan, FollowUpsCovered, FollowUps

\* Follow-ups are covered as long as a task that is complete after the step was
\* complete before it, and nothing newly names it.
LEMMA CoverStays ==
    ASSUME FollowUpsCovered, entered \subseteq entered',
           \A t \in TaskIds : tasks'[t] = "complete" =>
               tasks[t] = "complete" /\ FollowUps(t)' \subseteq FollowUps(t)
    PROVE  FollowUpsCovered'
BY DEF FollowUpsCovered

LEMMA ClientData == ReportInv /\ ClientStep => Data'
<1> SUFFICES ASSUME ReportInv, ClientStep PROVE Data'
  OBVIOUS
<1>0. /\ QueueType /\ TurnType /\ TaskType /\ Data /\ Admitted /\ Registered
      /\ InputExact /\ CancelHonoured /\ FinishedRan /\ FollowUpsCovered
  BY DEF ReportInv, TurnInv, Data, Reported
<1>n. None \notin Inputs /\ None \notin TaskIds /\ Subs \subseteq Requests
  BY SentinelAssumption DEF Requests
<1>1. ASSUME NEW s \in Subs, NEW i \in Inputs, NEW steer \in BOOLEAN, submit(s, i, steer)
      PROVE  Data'
  <2>1. CASE UNCHANGED <<queueVars, taskVars>>
    BY <1>0, <1>1, <2>1, DataStays DEF submit, queueVars, taskVars, turnVars, dataVars
  <2>2. CASE status[s] = "none" /\ status' = [status EXCEPT ![s] = "queued"]
    <3>1. /\ input' = [input EXCEPT ![s] = i] /\ UNCHANGED <<ops, link, used, results>>
          /\ target' = [target EXCEPT ![s] =
                            IF Intent[s] = "continue" THEN current ELSE None]
          /\ Intent[s] = "continue" => current # None
          /\ UNCHANGED entered
      BY <1>0, <1>1, <2>2 DEF submit, queueVars, turnVars, QueueType
    <3>2. /\ link[s] = None /\ used[s] = None /\ directive[s] = None
      BY <1>0, <1>n, <2>2 DEF Admitted, Registered
    <3>3. \/ UNCHANGED <<directive, tasks>>
          \/ /\ Intent[s] = "continue" /\ directive' = [directive EXCEPT ![s] = i]
             /\ tasks' = [tasks EXCEPT ![current] = IF @ = "cancelling" THEN @ ELSE "open"]
      BY <1>0, <1>1, <2>2 DEF submit, Redirect, queueVars, QueueType
    <3>4. /\ \A q \in Subs \ {s} : /\ status'[q] = status[q] /\ input'[q] = input[q]
                                   /\ target'[q] = target[q] /\ directive'[q] = directive[q]
          /\ status'[s] = "queued" /\ input'[s] = i
          /\ target'[s] = IF Intent[s] = "continue" THEN current ELSE None
          /\ directive'[s] = None \/ (directive'[s] = i /\ Intent[s] = "continue")
      BY <1>0, <2>2, <3>1, <3>2, <3>3 DEF QueueType, TaskType
    <3>5. Admitted'
      BY <1>0, <3>1, <3>2, <3>4 DEF Admitted
    <3>6. Registered'
      BY <1>0, <3>1, <3>2, <3>4 DEF Registered
    <3>7. InputExact' /\ CancelHonoured' /\ FinishedRan'
      BY <1>0, <3>1, <3>2, <3>4 DEF InputExact, CancelHonoured, FinishedRan
    <3>8. ASSUME NEW t \in TaskIds, tasks'[t] = "complete"
          PROVE  tasks[t] = "complete" /\ FollowUps(t)' \subseteq FollowUps(t)
      <4>1. tasks[t] = "complete" /\ (directive'[s] # None => current # t)
        BY <1>0, <3>2, <3>3, <3>8 DEF TaskType
      <4>2. s \notin FollowUps(t)'
        BY <1>n, <3>1, <3>2, <3>4, <4>1 DEF FollowUps
      <4>3. QED BY <3>1, <3>4, <4>1, <4>2 DEF FollowUps
    <3>9. FollowUpsCovered'
      BY <1>0, <3>1, <3>8, CoverStays
    <3>10. QED BY <3>5, <3>6, <3>7, <3>9 DEF Data, Reported
  <2>3. QED BY <1>1, <2>1, <2>2 DEF submit, taskVars
<1>2. ASSUME NEW s \in Subs, NEW i \in Inputs \cup {None}, edit_submission(s, i)
      PROVE  Data'
  <2> DEFINE new == IF i = None THEN input[s] ELSE i
  <2>1. /\ status[s] = "queued" /\ input' = [input EXCEPT ![s] = new]
        /\ UNCHANGED <<status, target, ops, link, used, results, entered>>
        /\ Intent[s] = "continue" => current = target[s]
        /\ \/ UNCHANGED <<directive, tasks>>
              /\ ~(Intent[s] = "continue" /\ (directive[s] # None \/ i = None))
           \/ /\ Intent[s] = "continue" /\ directive' = [directive EXCEPT ![s] = new]
              /\ tasks' = [tasks EXCEPT ![current] = IF @ = "cancelling" THEN @ ELSE "open"]
    BY <1>2 DEF edit_submission, Editable, Redirect, turnVars
  <2>2. link[s] = None /\ used[s] = None /\ (Intent[s] # "continue" => directive[s] = None)
    BY <1>0, <1>n, <2>1 DEF Admitted, Registered
  <2> HIDE DEF new
  <2>3. /\ \A q \in Subs \ {s} : input'[q] = input[q] /\ directive'[q] = directive[q]
        /\ input'[s] = new
        /\ directive'[s] = None \/ (directive'[s] = new /\ Intent[s] = "continue")
    BY <1>0, <2>1, <2>2 DEF QueueType, TaskType
  <2>4. Admitted'
    BY <1>0, <2>1 DEF Admitted
  <2>5. Registered'
    BY <1>0, <2>1, <2>3 DEF Registered
  <2>6. InputExact' /\ CancelHonoured' /\ FinishedRan'
    BY <1>0, <2>1, <2>2, <2>3 DEF InputExact, CancelHonoured, FinishedRan
  <2>7. ASSUME NEW t \in TaskIds, tasks'[t] = "complete"
        PROVE  tasks[t] = "complete" /\ FollowUps(t)' \subseteq FollowUps(t)
    <3>1. CASE UNCHANGED <<directive, tasks>>
      BY <2>1, <2>7, <3>1 DEF FollowUps
    <3>2. CASE /\ Intent[s] = "continue"
               /\ tasks' = [tasks EXCEPT ![current] = IF @ = "cancelling" THEN @ ELSE "open"]
      <4>1. tasks[t] = "complete" /\ current # t
        BY <1>0, <2>7, <3>2 DEF TaskType
      <4>2. s \notin FollowUps(t)'
        BY <1>n, <2>1, <2>2, <3>2, <4>1 DEF FollowUps
      <4>3. QED BY <2>1, <2>3, <4>1, <4>2 DEF FollowUps
    <3>3. QED BY <2>1, <3>1, <3>2
  <2>8. FollowUpsCovered'
    BY <1>0, <2>1, <2>7, CoverStays
  <2>9. QED BY <2>4, <2>5, <2>6, <2>8 DEF Data, Reported
<1>3. ASSUME NEW S \in SUBSET Subs, SubmissionChanged(S, "cancelled"),
             \A s \in S : \/ status[s] = "queued"
                          \/ status[s] = "running" /\ s \notin ops,
             UNCHANGED <<ops, link, used, results, directive, entered>>,
             \A t \in TaskIds : tasks'[t] = "complete" => tasks[t] = "complete"
      PROVE  Data'
  <2>1. /\ \A q \in Subs : status'[q] = IF q \in S THEN "cancelled" ELSE status[q]
        /\ UNCHANGED <<input, target>>
    BY <1>3 DEF SubmissionChanged
  <2>2. \A s \in S : link[s] = None /\ used[s] = None
    BY <1>0, <1>3 DEF Admitted
  <2>3. Admitted' /\ Registered'
    BY <1>0, <1>3, <2>1, <2>2 DEF Admitted, Registered
  <2>4. InputExact' /\ CancelHonoured' /\ FinishedRan'
    BY <1>0, <1>3, <2>1, <2>2 DEF InputExact, CancelHonoured, FinishedRan
  <2>5. FollowUpsCovered'
    BY <1>0, <1>3, <2>1, CoverStays DEF FollowUps
  <2>6. QED BY <2>3, <2>4, <2>5 DEF Data, Reported
<1>4. ASSUME NEW t \in TaskIds \cup {None}, RequestCancellation(t)
      PROVE  \A q \in TaskIds : tasks'[q] = "complete" => tasks[q] = "complete"
  BY <1>0, <1>4 DEF RequestCancellation, TaskType
<1>5. ASSUME NEW s \in Subs, cancel_submission(s) PROVE Data'
  BY <1>3, <1>5 DEF cancel_submission, turnVars, taskVars
<1>6. CASE cancel
  <2>1. \A q \in TaskIds : tasks'[q] = "complete" => tasks[q] = "complete"
    BY <1>0, <1>4, <1>6 DEF cancel, TaskType
  <2>2. QED BY <1>3, <1>6, <2>1 DEF cancel, Queued, turnVars
<1>7. ASSUME NEW r \in Requests, cancel_request(r) PROVE Data'
  <2>1. \A q \in TaskIds : tasks'[q] = "complete" => tasks[q] = "complete"
    BY <1>0, <1>4, <1>7 DEF cancel_request, TurnType
  <2>2. UNCHANGED <<status, input, target, ops, link, used, results, directive, entered>>
    BY <1>7 DEF cancel_request, queueVars, turnVars
  <2>3. FollowUpsCovered'
    BY <1>0, <2>1, <2>2, CoverStays DEF FollowUps
  <2>4. QED
    BY <1>0, <2>2, <2>3 DEF Data, Reported, Admitted, Registered, InputExact,
       CancelHonoured, FinishedRan
<1>8. ASSUME \/ \E s \in Subs, b \in Subs \cup {None} : move_submission(s, b)
             \/ \E d \in Direct : execute_request(d)
             \/ shutdown_if_idle \/ others_acquire \/ crash
      PROVE  Data'
  <2>1. UNCHANGED dataVars
    BY <1>8 DEF move_submission, execute_request, shutdown_if_idle, others_acquire, crash,
       queueVars, turnVars, taskVars, dataVars
  <2>2. QED BY <1>0, <2>1, DataStays
<1>9. QED BY <1>1, <1>2, <1>5, <1>6, <1>7, <1>8 DEF ClientStep
\* A step that only adds reports and contract entries and completes no task.
LEMMA GrowthData ==
    ASSUME Data, UNCHANGED <<status, input, target, ops, link, used, directive>>,
           results \subseteq results', entered \subseteq entered',
           \A t \in TaskIds : tasks'[t] = "complete" => tasks[t] = "complete"
    PROVE  Data'
<1>1. FollowUpsCovered'
  BY CoverStays DEF Data, Reported, FollowUps
<1>2. QED
  BY <1>1 DEF Data, Admitted, Registered, Reported, InputExact, CancelHonoured,
     FinishedRan

\* A submission goes from one status to another: it goes back to the queue only
\* if it never took effect, and ends as finished only if it did.
LEMMA StatusData ==
    ASSUME Data, QueueType, UNCHANGED <<input, target, ops, link, used, results, tasks,
                                        directive, entered>>,
           \A s \in Subs : status'[s] = status[s] \/
              /\ status[s] # "none" /\ status'[s] \notin {"none", "cancelled"}
              /\ status'[s] = "queued" => link[s] = None /\ used[s] = None
              /\ status'[s] = "finished" => s \in results \/ link[s] # None
    PROVE  Data'
<1>1. Admitted' /\ Registered'
  BY DEF Data, Admitted, Registered
<1>2. InputExact' /\ CancelHonoured' /\ FinishedRan'
  BY DEF Data, Reported, InputExact, CancelHonoured, FinishedRan
<1>3. FollowUpsCovered'
  BY CoverStays DEF Data, Reported, FollowUps, FollowUpsCovered
<1>4. QED BY <1>1, <1>2, <1>3 DEF Data, Reported

\* A request is admitted with a task: it had none, it is running with the text
\* it is admitted with, and a follow-up is registered with no other task.
LEMMA LinkData ==
    ASSUME Data, QueueType, TurnType, TaskType,
           NEW r \in Requests, NEW t \in TaskIds, NEW i \in Inputs \cup {None}, Link(r, t, i),
           UNCHANGED <<status, input, target, results, entered>>,
           link[r] = None, r \in Subs => status[r] = "running" /\ i = input[r],
           \/ UNCHANGED directive
           \/ /\ r \in Subs /\ target[r] \in {None, t}
              /\ directive' = [directive EXCEPT ![r] = IF @ = None THEN input[r] ELSE @]
    PROVE  Data'
<1>n. None \notin TaskIds /\ Subs \subseteq Requests
  BY SentinelAssumption DEF Requests
<1>0. Admitted /\ Registered /\ InputExact /\ CancelHonoured /\ FinishedRan /\ FollowUpsCovered
  BY DEF Data, Reported
<1>1. /\ ops' = ops \cup {r} /\ link'[r] = t
      /\ \A q \in Requests \ {r} : link'[q] = link[q]
      /\ \A q \in Subs \ {r} : used'[q] = used[q] /\ directive'[q] = directive[q]
      /\ r \in Subs => used'[r] = input[r] /\ directive'[r] \in {directive[r], input[r]}
  BY DEF Link, TurnType, TaskType
<1>2. \A q \in TaskIds \ {t} : tasks'[q] = tasks[q]
  BY DEF Link, TaskType
<1>3. tasks'[t] = "open"
  BY DEF Link, TaskType
<1>4. Admitted'
  BY <1>0, <1>1, <1>n DEF Admitted
<1>5. Registered'
  BY <1>0, <1>1, <1>n DEF Registered
<1>6. InputExact'
  BY <1>0, <1>1 DEF InputExact
<1>7. CancelHonoured' /\ FinishedRan'
  BY <1>0, <1>1, <1>n DEF CancelHonoured, FinishedRan
<1>8. ASSUME NEW q \in TaskIds, tasks'[q] = "complete"
      PROVE  tasks[q] = "complete" /\ FollowUps(q)' \subseteq FollowUps(q)
  <2>1. q # t /\ tasks[q] = "complete"
    BY <1>2, <1>3, <1>8
  <2>2. ASSUME NEW s \in FollowUps(q)' PROVE s \in FollowUps(q)
    <3>1. s \in Subs /\ directive'[s] # None /\ q \in {target[s], link'[s]}
      BY <2>2 DEF FollowUps
    <3>2. CASE s # r
      BY <1>1, <1>n, <3>1, <3>2 DEF FollowUps
    <3>3. CASE s = r
      <4>1. q = target[r] /\ r \in Subs
        BY <1>1, <2>1, <3>1, <3>3
      <4>2. UNCHANGED directive
        BY <1>n, <2>1, <4>1
      <4>3. QED BY <3>1, <3>3, <4>1, <4>2 DEF FollowUps
    <3>4. QED BY <3>2, <3>3
  <2>3. QED BY <2>1, <2>2
<1>9. FollowUpsCovered'
  BY <1>0, <1>8, CoverStays
<1>10. QED BY <1>4, <1>5, <1>6, <1>7, <1>9 DEF Data, Reported


LEMMA WorkerData == ReportInv /\ WorkerStep => Data'
<1> SUFFICES ASSUME ReportInv, WorkerStep PROVE Data'
  OBVIOUS
<1> DEFINE s == W.req
<1>0. /\ TurnInv /\ QueueType /\ TurnType /\ TaskType /\ Data /\ Admitted /\ Registered
      /\ InputExact /\ CancelHonoured /\ FinishedRan /\ FollowUpsCovered
      /\ WorkerKind /\ InHand
  BY DEF ReportInv, TurnInv, Data, Reported, Hand
<1>n. None \notin Inputs /\ None \notin TaskIds /\ Subs \subseteq Requests
  BY SentinelAssumption DEF Requests
<1>a. Working => s \in Subs /\ s \in Requests
  BY <1>0, WorkerRequest DEF W, Working
<1>1. CASE \/ enable_wake \/ park \/ dispatch \/ classify_ordinary \/ route
           \/ load_shell \/ prepare_shell
           \/ (\E k \in {"none", "information", "action"} : classify_ordinary_call(k))
           \/ settle_failed_classification \/ settle_auxiliary \/ shell_uncaptured
  <2>1. UNCHANGED dataVars
    BY <1>1 DEF enable_wake, park, dispatch, classify_ordinary, route, load_shell, prepare_shell,
       classify_ordinary_call, settle_failed_classification, settle_auxiliary,
       shell_uncaptured, queueVars, turnVars, taskVars, dataVars
  <2>2. QED BY <1>0, <2>1, DataStays
<1>2. CASE claim
  <2>1. UNCHANGED <<ops, link, used, results, tasks, directive, entered>>
    BY <1>2 DEF claim, turnVars, taskVars
  <2>2. CASE UNCHANGED queueVars
    BY <1>0, <2>1, <2>2, DataStays DEF queueVars, dataVars
  <2>3. ASSUME NEW q \in next_submission, SubmissionChanged({q}, "running") PROVE Data'
    <3>1. status[q] = "queued"
      BY DEF next_submission, Queued
    <3>2. UNCHANGED <<input, target>>
          /\ \A x \in Subs : status'[x] = IF x = q THEN "running" ELSE status[x]
      BY <2>3 DEF SubmissionChanged
    <3>3. QED BY <1>0, <2>1, <3>1, <3>2, StatusData
  <2>4. QED BY <1>2, <2>2, <2>3 DEF claim
<1>3. CASE finish
  <2>1. UNCHANGED <<ops, link, used, results, tasks, directive, entered>>
    BY <1>3 DEF finish, turnVars, taskVars
  <2>2. Working /\ s \in Subs /\ status[s] \in {"running", "cancelled"}
        /\ (W.result = "busy" => Fresh(s))
        /\ (W.result = "ok" => s \in results \/ link[s] # None)
    BY <1>0, <1>3, <1>a DEF finish, pc, W, Working, Resting, InHand
  <2>3. CASE UNCHANGED queueVars
    BY <1>0, <2>1, <2>3, DataStays DEF queueVars, dataVars
  <2>4. ASSUME NEW st \in {"queued", "finished", "failed"}, SubmissionChanged({s}, st),
               st = "queued" => W.result = "busy", st = "finished" => W.result = "ok"
        PROVE  Data'
    <3>1. UNCHANGED <<input, target>>
          /\ \A x \in Subs : status'[x] = IF x = s THEN st ELSE status[x]
      BY <2>4 DEF SubmissionChanged
    <3>2. QED BY <1>0, <2>1, <2>2, <2>4, <3>1, StatusData DEF Fresh
  <2>5. QED BY <1>3, <2>3, <2>4 DEF finish, W
<1>4. CASE begin_classification
  <2>1. Working /\ Intent[s] = "ordinary"
    BY <1>0, <1>4 DEF begin_classification, pc, W, WorkerKind, Working, Resting
  <2>2. /\ UNCHANGED <<status, input, target, link, used, results, tasks, directive, entered>>
        /\ ops \subseteq ops' /\ ops' \subseteq ops \cup {s}
    BY <1>4 DEF begin_classification, queueVars, taskVars, W
  <2>3. Admitted'
    BY <1>0, <2>1, <2>2 DEF Admitted
  <2>4. FollowUpsCovered'
    BY <1>0, <2>2, CoverStays DEF FollowUps
  <2>5. QED BY <1>0, <2>2, <2>3, <2>4 DEF Data, Reported, Registered, InputExact,
        CancelHonoured, FinishedRan
<1>5. CASE continue_submission
  <2>1. /\ s \in Subs /\ s \in Requests /\ link[s] = None /\ Continuable(s)
        /\ directive' = [directive EXCEPT ![s] = IF @ = None THEN input[s] ELSE @]
        /\ Link(s, Continued(s), input[s])
        /\ UNCHANGED <<status, input, target, results, entered>>
    BY <1>5, <1>a DEF continue_submission, pc, W, Working, Resting, queueVars
  <2>2. Continued(s) \in TaskIds /\ target[s] \in {None, Continued(s)}
    BY <1>0, <2>1 DEF Continuable, Continued, QueueType, TaskType, Registered
  <2>3. input[s] \in Inputs \cup {None} /\ status[s] = "running"
    BY <1>0, <2>1 DEF QueueType, Continuable
  <2>4. QED BY <1>0, <2>1, <2>2, <2>3, LinkData
<1>6. CASE begin_auxiliary \/ begin_shell
  <2>1. s \in Subs /\ s \in Requests /\ Fresh(s) /\ Intent[s] \in {"auxiliary", "ordinary", "shell"}
    <3>1. /\ W.pc \in {"entered", "prepared"}
          /\ W.pc = "entered" => W.kind \in {"auxiliary", "answer"}
      BY <1>6 DEF begin_auxiliary, begin_shell, pc, W
    <3>2. Working /\ Unstarted
      BY <3>1 DEF Working, Resting, Unstarted
    <3>3. Intent[s] \in {"auxiliary", "ordinary", "shell"}
      <4>1. W.pc \in Executing \cup {"loaded", "prepared", "published"}
        BY <3>1 DEF Executing
      <4>2. \/ W.kind = Intent[s] /\ W.kind # "ordinary"
            \/ Intent[s] = "ordinary"
        BY <1>0, <4>1 DEF WorkerKind
      <4>3. W.kind \in {"auxiliary", "answer", "shell"}
        BY <1>0, <3>1 DEF WorkerKind
      <4>4. Intent[s] # "answer"
        BY <1>a, <3>2, IntentAssumption DEF SubIntents
      <4>5. QED BY <4>2, <4>3, <4>4
    <3>4. QED BY <1>0, <1>a, <3>2, <3>3 DEF InHand
  <2>2. /\ status[s] = "running" /\ ops' = ops \cup {s}
        /\ UNCHANGED <<status, input, target, results, directive, entered>>
        /\ used' = [used EXCEPT ![s] = input[s]]
        /\ \/ UNCHANGED <<link, tasks>>
           \/ /\ link' = [link EXCEPT ![s] = current]
              /\ tasks' = IF current = None THEN tasks
                          ELSE [tasks EXCEPT ![current] = "open"]
    <3>1. W.pc = "prepared" => W.input = input[s]
      BY <1>0 DEF InHand, Working, Resting
    <3>2. QED BY <1>6, <3>1 DEF begin_auxiliary, begin_shell, ShellAdmissible, Unadmitted,
          queueVars, taskVars, W, pc
  <2>3. directive[s] = None
    BY <1>0, <2>1 DEF Registered, Fresh
  <2>4. /\ \A q \in Requests \ {s} : link'[q] = link[q]
        /\ \A q \in Subs \ {s} : used'[q] = used[q]
        /\ used'[s] = input[s]
        /\ \A t \in TaskIds : tasks'[t] = "complete" => tasks[t] = "complete"
    BY <1>0, <2>1, <2>2 DEF TurnType, TaskType
  <2>5. Admitted'
    BY <1>0, <1>n, <2>1, <2>2, <2>4 DEF Admitted
  <2>6. Registered'
    BY <1>0, <1>n, <2>1, <2>2, <2>3, <2>4 DEF Registered
  <2>7. InputExact'
    BY <1>0, <2>2, <2>4 DEF InputExact
  <2>8. CancelHonoured' /\ FinishedRan'
    BY <1>0, <1>n, <2>2, <2>4 DEF CancelHonoured, FinishedRan
  <2>9. ASSUME NEW t \in TaskIds PROVE FollowUps(t)' \subseteq FollowUps(t)
    BY <1>n, <2>2, <2>3, <2>4 DEF FollowUps
  <2>10. FollowUpsCovered'
    BY <1>0, <2>2, <2>4, <2>9, CoverStays
  <2>11. QED BY <2>5, <2>6, <2>7, <2>8, <2>10 DEF Data, Reported
<1>7. ASSUME NEW b \in BOOLEAN, publish_auxiliary(b) \/ finish_shell(b) PROVE Data'
  <2>1. /\ UNCHANGED <<status, input, target, ops, link, used, directive, entered>>
        /\ results \subseteq results'
    BY <1>7 DEF publish_auxiliary, finish_shell, queueVars, taskVars
  <2>2. \A t \in TaskIds : tasks'[t] = "complete" => tasks[t] = "complete"
    BY <1>0, <1>7 DEF publish_auxiliary, finish_shell, taskVars, TaskType
  <2>3. QED BY <1>0, <2>1, <2>2, GrowthData
<1>8. QED
  BY <1>1, <1>2, <1>3, <1>4, <1>5, <1>6, <1>7 DEF WorkerStep

LEMMA ExecutionData == ASSUME ReportInv, NEW a \in Actors, RunStep(a) PROVE Data'
<1> DEFINE r == run[a].req
<1>0. /\ TurnInv /\ QueueType /\ TurnType /\ TaskType /\ Data /\ Admitted /\ Registered
      /\ InputExact /\ CancelHonoured /\ FinishedRan /\ FollowUpsCovered
  BY DEF ReportInv, TurnInv, Data, Reported
<1>n. None \notin TaskIds
  BY SentinelAssumption
<1>1. CASE try_acquire(a) \/ enter_active(a) \/ admission_refused(a) \/ turn_fails(a) \/ release(a)
  <2>1. UNCHANGED dataVars
    BY <1>1 DEF try_acquire, enter_active, admission_refused, turn_fails, release,
       queueVars, turnVars, taskVars, dataVars
  <2>2. QED BY <1>0, <2>1, DataStays
<1>2. CASE start_record(a)
  <2>1. run[a].pc \notin Resting
    BY <1>2 DEF start_record, pc, Resting
  <2>2. r \in Requests /\ (a # "worker" => r \notin Subs)
    BY <1>0, <2>1, ActorRequest, IntentAssumption
  <2>3. PICK t \in TaskIds : Link(r, t, run[a].input)
    BY <1>2 DEF start_record
  <2>4. /\ link[r] = None /\ Startable(r)
        /\ UNCHANGED <<status, input, target, results, directive, entered>>
    BY <1>2 DEF start_record, queueVars
  <2>5. run[a].input \in Inputs \cup {None}
    BY <1>0 DEF TurnInv, Records, Runs
  <2>6. r \in Subs => status[r] = "running" /\ run[a].input = input[r]
    BY <2>2, <2>4 DEF Startable
  <2>7. QED BY <1>0, <2>2, <2>3, <2>4, <2>5, <2>6, LinkData
<1>3. CASE accept_followups(a)
  <2>1. /\ UNCHANGED <<status, input, target, ops, link, used, results, tasks, directive>>
        /\ entered \subseteq entered'
    BY <1>3 DEF accept_followups, queueVars, turnVars
  <2>2. QED BY <1>0, <2>1, GrowthData
<1>4. CASE complete(a)
  <2>1. /\ UNCHANGED <<status, input, target, ops, link, used, results, directive, entered>>
        /\ FollowUps(link[r]) \subseteq entered
        /\ tasks' = [tasks EXCEPT ![link[r]] = "complete"]
    BY <1>4 DEF complete, queueVars, turnVars
  <2>2. \A t \in TaskIds : FollowUps(t)' = FollowUps(t)
    BY <2>1 DEF FollowUps
  <2>3. FollowUpsCovered'
    BY <1>0, <2>1, <2>2 DEF FollowUpsCovered, TaskType
  <2>4. QED BY <1>0, <2>1, <2>3 DEF Data, Reported, Admitted, Registered, InputExact,
        CancelHonoured, FinishedRan
<1>5. ASSUME \/ \E b \in BOOLEAN : finish_run(a, b) \/ end_task(a, b) \/ stop_failed(a, b)
             \/ settle_error(a)
      PROVE  Data'
  <2>1. UNCHANGED <<status, input, target, ops, link, used, results, directive, entered>>
    BY <1>5 DEF finish_run, end_task, stop_failed, settle_error, queueVars
  <2>2. \A t \in TaskIds : tasks'[t] = "complete" => tasks[t] = "complete"
    BY <1>0, <1>5 DEF finish_run, end_task, stop_failed, settle_error, TaskType
  <2>3. QED BY <1>0, <2>1, <2>2, GrowthData
<1>6. QED BY <1>1, <1>2, <1>3, <1>4, <1>5 DEF RunStep

LEMMA DataStep == ReportInv /\ [Next]_vars => Data'
<1> SUFFICES ASSUME ReportInv, [Next]_vars PROVE Data'
  OBVIOUS
<1>0. TurnInv /\ QueueType /\ TurnType /\ TaskType /\ Data /\ Admitted
  BY DEF ReportInv, TurnInv, Data
<1>1. ASSUME NEW d \in Direct, resume_task(d) PROVE Data'
  <2>1. d \in Requests /\ d \notin Subs
    BY IntentAssumption DEF Requests
  <2>2. PICK t \in {link[r] : r \in Requests} \ {None} : Link(d, t, None)
    BY <1>1 DEF resume_task
  <2>3. t \in TaskIds
    BY <1>0, <2>2 DEF TurnType
  <2>4. link[d] = None /\ UNCHANGED <<status, input, target, results, directive, entered>>
    BY <1>1 DEF resume_task, queueVars
  <2>5. QED BY <1>0, <2>1, <2>2, <2>3, <2>4, LinkData
<1>2. ASSUME \/ \E s \in Subs : wake_queue(s)
             \/ others_release \/ start_queued \/ UNCHANGED vars
      PROVE  Data'
  <2>1. UNCHANGED dataVars
    BY <1>2 DEF wake_queue, others_release, start_queued, vars, queueVars, turnVars,
       taskVars, dataVars
  <2>2. QED BY <1>0, <2>1, DataStays
<1>3. CASE recover_interrupted
  <2>1. UNCHANGED <<status, input, target, ops, link, used, results, directive, entered>>
    BY <1>3 DEF recover_interrupted, queueVars
  <2>2. \A t \in TaskIds : tasks'[t] = "complete" => tasks[t] = "complete"
    BY <1>3 DEF recover_interrupted
  <2>3. QED BY <1>0, <2>1, <2>2, GrowthData
<1>4. CASE recover_submissions
  <2>1. UNCHANGED <<input, target, ops, link, used, results, tasks, directive, entered>>
    BY <1>4 DEF recover_submissions, turnVars, taskVars
  <2>2. \A s \in Subs : status'[s] = status[s] \/
           /\ status[s] = "running" /\ status'[s] \in {"interrupted", "queued"}
           /\ status'[s] = "queued" => s \notin ops
    BY <1>4 DEF recover_submissions, Recovered
  <2>3. \A s \in Subs : s \notin ops => link[s] = None /\ used[s] = None
    BY <1>0 DEF Admitted
  <2>4. QED BY <1>0, <2>1, <2>2, <2>3, StatusData
<1>5. QED
  BY <1>1, <1>2, <1>3, <1>4, ClientData, WorkerData, ExecutionData DEF Next, HostStep,
     RestartStep

\* Nothing is in hand while the worker rests.
LEMMA RestingHand == ASSUME W'.pc \in Resting PROVE Hand'
BY DEF Hand, WorkerKind, InHand, KeepsTurn, Working, Resting, Executing, Turn, pc, W

\* A step of somebody else leaves alone what the worker holds.
LEMMA HandStays ==
    ASSUME ReportInv, run'["worker"] = run["worker"],
           Working => /\ status'[W.req] \in {"running", "cancelled"}
                      /\ input'[W.req] = input[W.req] /\ link'[W.req] = link[W.req]
                      /\ used'[W.req] = used[W.req] /\ results \subseteq results',
           activeRequest' = activeRequest \/ activeRequest \notin Subs
    PROVE  Hand'
<1>0. WorkerKind /\ InHand /\ KeepsTurn /\ W' = W
  BY DEF ReportInv, Hand, W
<1>a. Working => W.req \in Subs
  BY WorkerRequest DEF ReportInv, W, Working
<1>1. WorkerKind'
  BY <1>0 DEF WorkerKind
<1>2. InHand'
  BY <1>0 DEF InHand, Working, Unstarted, Fresh, Turn, pc, W
<1>3. KeepsTurn'
  BY <1>0, <1>a DEF KeepsTurn, Working
<1>4. QED BY <1>1, <1>2, <1>3 DEF Hand

LEMMA ClientHand == ReportInv /\ ClientStep => Hand'
<1> SUFFICES ASSUME ReportInv, ClientStep PROVE Hand'
  OBVIOUS
<1>0. TurnInv /\ QueueType /\ InHand
  BY DEF ReportInv, Hand, TurnInv
<1>a. Working => W.req \in Subs /\ status[W.req] \in {"running", "cancelled"}
  BY <1>0, WorkerRequest DEF W, Working, InHand
<1>1. CASE crash
  <2>1. W'.pc \in Resting
    BY <1>1 DEF crash, W, Idle, Resting, Actors
  <2>2. QED BY <2>1, RestingHand
<1>2. CASE ~crash
  <2>1. run'["worker"] = run["worker"]
    <3>1. ASSUME NEW d \in Direct, execute_request(d) PROVE run'["worker"] = run["worker"]
      BY <1>0, <3>1, IntentAssumption DEF execute_request, TurnInv, Records, Actors
    <3>2. QED BY <1>2, <3>1 DEF ClientStep, submit, edit_submission, move_submission,
          cancel_submission, cancel_request, cancel, shutdown_if_idle, others_acquire,
          hostVars
  <2>2. UNCHANGED <<activeRequest, link, used, results>>
    BY <1>2 DEF ClientStep, submit, edit_submission, move_submission, cancel_submission,
       cancel_request, cancel, execute_request, shutdown_if_idle, others_acquire, turnVars
  <2>3. ASSUME NEW s \in Subs, status[s] \in {"running", "cancelled"}
        PROVE  status'[s] \in {"running", "cancelled"} /\ input'[s] = input[s]
    <3>1. ASSUME NEW q \in Subs, NEW i \in Inputs, NEW steer \in BOOLEAN, submit(q, i, steer)
          PROVE  status'[s] = status[s] /\ input'[s] = input[s]
      BY <1>0, <2>3, <3>1 DEF submit, queueVars, QueueType
    <3>2. ASSUME NEW q \in Subs, NEW i \in Inputs \cup {None}, edit_submission(q, i)
          PROVE  status'[s] = status[s] /\ input'[s] = input[s]
      BY <1>0, <2>3, <3>2 DEF edit_submission, Editable, QueueType
    <3>3. ASSUME \E S \in SUBSET Subs : SubmissionChanged(S, "cancelled")
          PROVE  status'[s] \in {"running", "cancelled"} /\ input'[s] = input[s]
      BY <2>3, <3>3 DEF SubmissionChanged
    <3>4. (\E q \in Subs : cancel_submission(q)) \/ cancel =>
             \E S \in SUBSET Subs : SubmissionChanged(S, "cancelled")
      BY DEF cancel_submission, cancel, Queued
    <3>5. ASSUME UNCHANGED <<status, input>>
          PROVE  status'[s] \in {"running", "cancelled"} /\ input'[s] = input[s]
      BY <2>3, <3>5
    <3>6. \/ \E q \in Subs, b \in Subs \cup {None} : move_submission(q, b)
          \/ \E q \in Requests : cancel_request(q)
          \/ \E d \in Direct : execute_request(d)
          \/ shutdown_if_idle \/ others_acquire
          => UNCHANGED <<status, input>>
      BY DEF move_submission, cancel_request, execute_request, shutdown_if_idle,
         others_acquire, queueVars
    <3>7. QED BY <1>2, <2>3, <3>1, <3>2, <3>3, <3>4, <3>5, <3>6 DEF ClientStep
  <2>4. QED BY <1>a, <2>1, <2>2, <2>3, HandStays
<1>3. QED BY <1>1, <1>2

\* A direct request that moves leaves alone what the worker holds.
LEMMA DirectHand ==
    ASSUME ReportInv, NEW d \in Direct, RunStep(d) \/ resume_task(d) PROVE Hand'
<1>0. TurnInv /\ TurnType /\ InHand /\ d \in Actors /\ "worker" \in Actors
  BY DEF ReportInv, Hand, TurnInv, Actors
<1>d. d # "worker" /\ d \in Requests /\ d \notin Subs
  BY IntentAssumption DEF Requests
<1>a. Working => W.req \in Subs /\ status[W.req] \in {"running", "cancelled"}
  BY <1>0, WorkerRequest DEF W, Working, InHand
<1>r. run[d].pc \notin Resting => run[d].req = d
  BY <1>0, <1>d, ActorRequest
<1>1. run'["worker"] = run["worker"]
  <2>1. CASE accept_followups(d)
    BY <2>1 DEF accept_followups, hostVars
  <2>2. CASE ~accept_followups(d)
    <3>1. Acts(d)
      BY <1>0, <2>2, ExecutionActs, ResumeActs
    <3>2. QED BY <1>0, <1>d, <3>1 DEF Acts
  <2>3. QED BY <2>1, <2>2
<1>2. UNCHANGED <<status, input, results>>
  BY DEF RunStep, try_acquire, enter_active, start_record, admission_refused,
     accept_followups, complete, finish_run, end_task, settle_error, stop_failed, turn_fails, release,
     resume_task, queueVars, turnVars
<1>3. \A s \in Subs : link'[s] = link[s] /\ used'[s] = used[s]
  <2>1. CASE UNCHANGED <<link, used>>
    BY <2>1
  <2>2. ASSUME NEW t, NEW i, Link(d, t, i)
        PROVE  \A s \in Subs : link'[s] = link[s] /\ used'[s] = used[s]
    BY <1>0, <1>d, <2>2 DEF Link, TurnType, Requests
  <2>3. CASE start_record(d)
    <3>1. run[d].req = d
      BY <1>r, <2>3 DEF start_record, pc, Resting
    <3>2. QED BY <2>2, <2>3, <3>1 DEF start_record
  <2>4. CASE resume_task(d)
    BY <2>2, <2>4 DEF resume_task
  <2>5. QED
    BY <2>1, <2>3, <2>4 DEF RunStep, try_acquire, enter_active, admission_refused,
       accept_followups, complete, finish_run, end_task, settle_error, stop_failed, turn_fails, release,
       turnVars
<1>4. activeRequest' = activeRequest \/ activeRequest \in {None, d}
  <2>1. CASE start_record(d)
    <3>1. run[d].req = d /\ Startable(run[d].req)
      BY <1>r, <2>1 DEF start_record, pc, Resting
    <3>2. QED BY <1>d, <3>1 DEF Startable
  <2>2. CASE resume_task(d)
    BY <2>2 DEF resume_task
  <2>3. ASSUME NEW b \in BOOLEAN, finish_run(d, b) \/ end_task(d, b)
        PROVE  activeRequest \in {None, d}
    <3>1. run[d].pc \in {"completed", "running"}
      BY <2>3 DEF finish_run, end_task, Turn, pc
    <3>2. QED BY <1>0, <1>r, <3>1 DEF TurnInv, TurnOwned, Resting, pc
  <2>4. CASE settle_error(d)
    <3>1. run[d].req = d
      BY <1>r, <2>4 DEF settle_error, pc, Resting
    <3>2. QED BY <2>4, <3>1 DEF settle_error
  <2>5. ASSUME NEW b \in BOOLEAN, stop_failed(d, b)
        PROVE  activeRequest' = activeRequest \/ activeRequest \in {None, d}
    <3>1. run[d].req = d /\ run[d].pc = "stopping"
      BY <1>r, <2>5 DEF stop_failed, pc, Resting
    <3>2. activeRequest = d
      BY <1>0, <3>1 DEF TurnInv, TurnOwned, pc
    <3>3. QED BY <3>2
  <2>6. QED
    BY <2>1, <2>2, <2>3, <2>4, <2>5 DEF RunStep, try_acquire, enter_active, admission_refused,
       accept_followups, complete, turn_fails, release, turnVars
<1>5. activeRequest' = activeRequest \/ activeRequest \notin Subs
  BY <1>4, <1>d, SentinelAssumption DEF Requests
<1>6. QED BY <1>a, <1>1, <1>2, <1>3, <1>5, HandStays

\* The worker goes on with the submission it holds.
LEMMA HandMoves ==
    ASSUME ReportInv, Working, UNCHANGED <<status, input>>, results \subseteq results',
           WorkerKind', W'.req = W.req, link[W.req] # None => link'[W.req] # None,
           W'.pc \in {"loaded", "prepared"} => W'.input = input[W.req],
           Unstarted' \/ W'.result = "busy" => Fresh(W.req) /\ UNCHANGED <<link, used>>,
           W'.result = "busy" => W'.pc \in {"unclassified", "finish"},
           W'.result = "ok" => W.result = "ok" \/ W.req \in results' \/ link'[W.req] # None,
           W'.pc = "completed" \/ Turn("worker")' => link'[W.req] # None,
           W'.pc = "published" => W.req \in results',
           Intent[W.req] = "ordinary" /\ W'.pc \in Classified => activeRequest' = W.req
    PROVE  Hand'
<1>1. InHand /\ KeepsTurn
  BY DEF ReportInv, Hand
<1>2. InHand'
  <2>1. status'[W'.req] \in {"running", "cancelled"}
    BY <1>1 DEF InHand
  <2>2. Unstarted' \/ W'.result = "busy" => Fresh(W.req)'
    BY DEF Fresh, W
  <2>3. W'.result = "ok" => W'.req \in results' \/ link'[W'.req] # None
    BY <1>1 DEF InHand
  <2>4. QED BY <2>1, <2>2, <2>3 DEF InHand, Fresh, W
<1>3. KeepsTurn'
  BY DEF KeepsTurn
<1>4. QED BY <1>2, <1>3 DEF Hand

\* How the worker's record moves, and what it keeps of its kind.
LEMMA HandGoto ==
    ASSUME TurnInv, NEW p \in Pcs, Goto("worker", p)
    PROVE  /\ W'.pc = p /\ W'.req = W.req /\ W'.kind = W.kind /\ W'.input = W.input
           /\ W'.result = W.result
BY GotoMoves DEF TurnInv, Records, Actors, Moved, W

LEMMA HandResult ==
    ASSUME TurnInv, NEW p \in Pcs, NEW r \in {"ok", "error", "busy"}, Result("worker", p, r)
    PROVE  /\ W'.pc = p /\ W'.req = W.req /\ W'.kind = W.kind /\ W'.input = W.input
           /\ W'.result = r
BY ResultMoves DEF TurnInv, Records, Actors, Moved, W

LEMMA KindKept ==
    ASSUME WorkerKind, W.pc \in Executing \cup {"loaded", "prepared", "published"},
           W'.pc \in Executing \cup {"published", "finish"},
           W'.kind = W.kind, W'.req = W.req
    PROVE  WorkerKind'
BY DEF WorkerKind, Executing

LEMMA QueueHand == ReportInv /\ WorkerStep => Hand'
<1> SUFFICES ASSUME ReportInv, WorkerStep PROVE Hand'
  OBVIOUS
<1> DEFINE s == W.req
<1>0. TurnInv /\ WorkerKind /\ InHand /\ KeepsTurn /\ Admitted
  BY DEF ReportInv, Hand, Data
<1>1. CASE enable_wake \/ park
  <2>1. PICK p \in {"check", "loop"} : Goto("worker", p)
    BY <1>1 DEF enable_wake, park
  <2>2. W'.pc \in Resting
    BY <1>0, <2>1, HandGoto DEF Pcs, Resting
  <2>3. QED BY <2>2, RestingHand
<1>2. CASE finish
  <2>1. PICK p \in {"park", "loop"} : Rest(p)
    BY <1>2 DEF finish
  <2>2. W'.pc \in Resting
    BY <1>0, <2>1, RestMoves DEF TurnInv, Records, Resting, W
  <2>3. QED BY <2>2, RestingHand
<1>3. CASE claim
  <2>1. CASE Goto("worker", "park")
    <3>1. W'.pc \in Resting
      BY <1>0, <2>1, HandGoto DEF Pcs, Resting
    <3>2. QED BY <3>1, RestingHand
  <2>2. CASE run' = [run EXCEPT !["worker"] = Idle]
    <3>1. W'.pc \in Resting
      BY <1>0, <2>2, ResetMoves DEF TurnInv, Records, Actors, W, Idle, Resting
    <3>2. QED BY <3>1, RestingHand
  <2>3. ASSUME NEW q \in next_submission, SubmissionChanged({q}, "running"),
               run' = [run EXCEPT !["worker"] =
                        [Idle EXCEPT !.pc = "claimed", !.req = q,
                                     !.kind = Intent[q], !.input = input[q]]]
        PROVE  Hand'
    <3>1. q \in Subs /\ status[q] = "queued"
      BY DEF next_submission, Queued
    <3>2. /\ W'.pc = "claimed" /\ W'.req = q /\ W'.kind = Intent[q] /\ W'.result = "none"
      BY <1>0, <2>3 DEF TurnInv, Records, Actors, W, Idle
    <3>3. Fresh(q) /\ UNCHANGED <<link, used>>
      BY <1>0, <1>3, <3>1 DEF Admitted, Fresh, claim, turnVars
    <3>4. status'[q] = "running"
      BY <2>3, <3>1 DEF SubmissionChanged
    <3>5. InHand'
      BY <3>2, <3>3, <3>4 DEF InHand, Fresh, Turn, pc, W
    <3>6. QED BY <3>2, <3>5 DEF Hand, WorkerKind, KeepsTurn, Executing, Classified
  <2>4. QED BY <1>3, <2>1, <2>2, <2>3 DEF claim
<1>4. CASE dispatch
  <2>1. /\ W.pc = "claimed" /\ Working /\ Unstarted
        /\ UNCHANGED <<status, input, link, used, results, activeRequest>>
    BY <1>4 DEF dispatch, pc, W, Working, Resting, Unstarted, queueVars, turnVars
  <2>2. /\ W'.pc = IF W.kind = "ordinary" THEN "classify" ELSE "enter"
        /\ W'.req = W.req /\ W'.kind = W.kind /\ W'.result = W.result
    BY <1>0, <1>4 DEF dispatch, TurnInv, Records, Actors, W, Runs
  <2>3. W.kind = Intent[s] /\ Fresh(s) /\ W.result # "busy"
    BY <1>0, <2>1 DEF WorkerKind, InHand
  <2>4. WorkerKind'
    BY <2>2, <2>3 DEF WorkerKind, Executing
  <2>5. QED BY <2>1, <2>2, <2>3, <2>4, HandMoves DEF Turn, pc, W, Classified
<1>5. CASE classify_ordinary
  <2>1. /\ W.pc = "classify" /\ Working /\ Unstarted
        /\ UNCHANGED <<status, input, link, used, results, activeRequest>>
    BY <1>5 DEF classify_ordinary, pc, W, Working, Resting, Unstarted, queueVars, turnVars
  <2>2. /\ W'.pc \in {"unclassified", "begin"} /\ W'.req = W.req
        /\ \/ W'.result = "busy" /\ W'.pc = "unclassified"
           \/ W'.result = W.result
    BY <1>0, <1>5, HandGoto, HandResult DEF classify_ordinary, Pcs
  <2>3. Intent[s] = "ordinary" /\ Fresh(s) /\ W.result # "busy"
    BY <1>0, <2>1 DEF WorkerKind, InHand
  <2>4. WorkerKind'
    BY <2>2, <2>3 DEF WorkerKind, Executing
  <2>5. QED BY <2>1, <2>2, <2>3, <2>4, HandMoves DEF Turn, pc, W, Classified
<1>6. CASE begin_classification
  <2>1. /\ W.pc = "begin" /\ Working /\ Unstarted
        /\ UNCHANGED <<status, input, link, used, results>>
    BY <1>6 DEF begin_classification, pc, W, Working, Resting, Unstarted, queueVars
  <2>2. /\ W'.req = W.req /\ W'.pc \in {"classifying", "unclassified"}
        /\ W'.pc = "classifying" => activeRequest' = W.req
        /\ W'.result \in {W.result, "error"}
    BY <1>0, <1>6, HandGoto, HandResult DEF begin_classification, Pcs, W
  <2>3. Intent[s] = "ordinary" /\ Fresh(s) /\ W.result # "busy"
    BY <1>0, <2>1 DEF WorkerKind, InHand
  <2>4. WorkerKind'
    BY <2>2, <2>3 DEF WorkerKind, Executing
  <2>5. QED BY <2>1, <2>2, <2>3, <2>4, HandMoves DEF Turn, pc, W, Classified
<1>7. ASSUME NEW k \in {"none", "information", "action"}, classify_ordinary_call(k)
      PROVE  Hand'
  <2>1. /\ W.pc = "classifying" /\ Working /\ Unstarted
        /\ UNCHANGED <<status, input, link, used, results, activeRequest>>
    BY <1>7 DEF classify_ordinary_call, pc, W, Working, Resting, Unstarted, queueVars
  <2>2. /\ W'.req = W.req /\ W'.pc \in {"routed", "unclassified"}
        /\ W'.result \in {W.result, "error"}
    BY <1>0, <1>7, HandGoto, HandResult DEF classify_ordinary_call, Pcs
  <2>3. Intent[s] = "ordinary" /\ Fresh(s) /\ W.result # "busy" /\ activeRequest = s
    BY <1>0, <2>1 DEF WorkerKind, InHand, KeepsTurn, Classified
  <2>4. WorkerKind'
    BY <2>2, <2>3 DEF WorkerKind, Executing
  <2>5. QED BY <2>1, <2>2, <2>3, <2>4, HandMoves DEF Turn, pc, W, Classified
<1>8. CASE settle_failed_classification
  <2>1. /\ W.pc = "unclassified" /\ Working /\ Unstarted
        /\ UNCHANGED <<status, input, link, used, results>>
    BY <1>8 DEF settle_failed_classification, pc, W, Working, Resting, Unstarted, queueVars
  <2>2. W'.req = W.req /\ W'.pc = "finish" /\ W'.result = W.result
    BY <1>0, <1>8, HandGoto DEF settle_failed_classification, Pcs
  <2>3. Fresh(s)
    BY <1>0, <2>1 DEF InHand
  <2>4. WorkerKind'
    BY <2>2 DEF WorkerKind, Executing
  <2>5. QED BY <2>1, <2>2, <2>3, <2>4, HandMoves DEF Turn, pc, W, Classified, Unstarted
<1>9. CASE route
  <2>1. /\ W.pc = "routed" /\ Working /\ Unstarted
        /\ UNCHANGED <<status, input, link, used, results, activeRequest>>
    BY <1>9 DEF route, pc, W, Working, Resting, Unstarted, queueVars, turnVars
  <2>2. /\ W'.req = W.req /\ W'.pc = "enter" /\ W'.result = W.result
        /\ W'.kind \in {"answer", "continue", "new"}
    BY <1>0, <1>9 DEF route, TurnInv, Records, Actors, W, Runs
  <2>3. Intent[s] = "ordinary" /\ Fresh(s) /\ W.result # "busy" /\ activeRequest = s
    BY <1>0, <2>1 DEF WorkerKind, InHand, KeepsTurn, Classified
  <2>4. WorkerKind'
    BY <2>2, <2>3 DEF WorkerKind, Executing
  <2>5. QED BY <2>1, <2>2, <2>3, <2>4, HandMoves DEF Turn, pc, W, Classified
<1>10. CASE continue_submission \/ begin_auxiliary \/ begin_shell
  <2>1. /\ W.pc \in {"entered", "prepared"} /\ Working /\ Unstarted
        /\ UNCHANGED <<status, input, results>> /\ Goto("worker", "running")
    BY <1>10 DEF continue_submission, begin_auxiliary, begin_shell, pc, W, Working, Resting,
       Unstarted, queueVars
  <2>2. W'.req = W.req /\ W'.pc = "running" /\ W'.result = W.result /\ W'.kind = W.kind
    BY <1>0, <2>1, HandGoto DEF Pcs
  <2>3. link[s] = None /\ W.result # "busy" /\ (W.pc = "prepared" => W.kind = "shell")
    BY <1>0, <2>1 DEF WorkerKind, InHand, Fresh
  <2>4. WorkerKind'
    BY <1>0, <2>1, <2>2, KindKept DEF Executing
  <2>5. W.kind = "continue" => link'[s] # None
    <3>1. CASE begin_auxiliary \/ begin_shell
      BY <2>3, <3>1 DEF begin_auxiliary, begin_shell, pc, W
    <3>2. CASE continue_submission
      <4>1. s \in Requests
        BY <1>0, <2>1, WorkerRequest DEF W, Working
      <4>2. QED BY <1>0, <3>2, <4>1 DEF continue_submission, Link, Continuable, TurnInv,
            TurnType, W
    <3>3. QED BY <1>10, <3>1, <3>2
  <2>6. W.kind \notin {"new", "resume"}
    BY <1>10, <2>3 DEF continue_submission, begin_auxiliary, begin_shell, pc, W
  <2>7. Turn("worker")' => link'[s] # None
    BY <2>2, <2>5, <2>6 DEF Turn, W
  <2>8. QED BY <2>1, <2>2, <2>3, <2>4, <2>7, HandMoves DEF Classified, Unstarted
<1>11. CASE load_shell \/ prepare_shell
  <2>1. /\ W.pc \in {"entered", "loaded"} /\ Working /\ Unstarted
        /\ UNCHANGED <<status, input, link, used, results, activeRequest>>
    BY <1>11 DEF load_shell, prepare_shell, pc, W, Working, Resting, Unstarted, queueVars, turnVars
  <2>k. W.kind = "shell"
    BY <1>0, <1>11 DEF load_shell, prepare_shell, pc, W, WorkerKind
  <2>2. /\ W'.req = W.req /\ W'.pc \in {"loaded", "prepared"} /\ W'.result = W.result
        /\ W'.kind = W.kind /\ W'.input = input[s]
    <3>1. CASE load_shell
      BY <1>0, <3>1 DEF load_shell, TurnInv, Records, Actors, W, Runs
    <3>2. CASE prepare_shell
      <4>1. W.input = input[s]
        BY <1>0, <3>2 DEF prepare_shell, InHand, Working, Resting, pc, W
      <4>2. QED BY <1>0, <3>2, <4>1, HandGoto DEF prepare_shell, Pcs
    <3>3. QED BY <1>11, <3>1, <3>2
  <2>3. Fresh(s) /\ W.result # "busy"
    BY <1>0, <2>1 DEF InHand
  <2>4. WorkerKind'
    BY <1>0, <2>1, <2>2, <2>k DEF WorkerKind, Executing
  <2>5. QED BY <2>1, <2>2, <2>3, <2>4, HandMoves DEF Turn, pc, W, Classified
<1>12. ASSUME NEW b \in BOOLEAN,
              \/ publish_auxiliary(b) \/ finish_shell(b)
              \/ settle_auxiliary \/ shell_uncaptured
       PROVE  Hand'
  <2>1. /\ W.pc \in {"running", "published"} /\ Working
        /\ UNCHANGED <<status, input, link>> /\ results \subseteq results'
    BY <1>12 DEF publish_auxiliary, finish_shell, settle_auxiliary, shell_uncaptured, pc, W,
       Working, Resting, queueVars, turnVars
  <2>2. W.pc = "published" => s \in results
    BY <1>0, <2>1 DEF InHand
  <2>3. W.result # "busy"
    BY <1>0, <2>1 DEF InHand
  <2>4. /\ W'.req = W.req /\ W'.kind = W.kind /\ W'.pc \in {"done", "published"}
        /\ W'.result \in {W.result, "ok", "error"}
        /\ W'.pc = "published" \/ W'.result = "ok" => W.result = "ok" \/ s \in results'
    <3>1. CASE publish_auxiliary(b)
      BY <1>0, <3>1, HandGoto, HandResult DEF publish_auxiliary, Pcs, W
    <3>2. CASE finish_shell(b)
      <4>1. Result("worker", "done", IF b THEN "ok" ELSE "error") /\ s \in results'
        BY <3>2 DEF finish_shell, W
      <4>2. \E r \in {"ok", "error"} : Result("worker", "done", r)
        BY <4>1
      <4>3. QED BY <1>0, <4>1, <4>2, HandResult DEF Pcs
    <3>3. CASE settle_auxiliary
      <4>1. W.pc = "published" /\ Result("worker", "done", "ok") /\ UNCHANGED results
        BY <3>3 DEF settle_auxiliary, pc, W
      <4>2. QED BY <1>0, <2>2, <4>1, HandResult DEF Pcs
    <3>4. CASE shell_uncaptured
      BY <1>0, <3>4, HandResult DEF shell_uncaptured, Pcs
    <3>5. QED BY <1>12, <3>1, <3>2, <3>3, <3>4
  <2>5. WorkerKind'
    BY <1>0, <2>1, <2>4, KindKept DEF Executing
  <2>6. W'.pc = "published" => s \in results'
    <3>1. CASE publish_auxiliary(b)
      BY <1>0, <3>1, HandGoto, HandResult DEF publish_auxiliary, Pcs, W
    <3>2. CASE finish_shell(b) \/ settle_auxiliary \/ shell_uncaptured
      <4>1. \E r \in {"ok", "error"} : Result("worker", "done", r)
        BY <3>2 DEF finish_shell, settle_auxiliary, shell_uncaptured
      <4>2. QED BY <1>0, <4>1, HandResult DEF Pcs
    <3>3. QED BY <1>12, <3>1, <3>2
  <2>7. QED BY <2>1, <2>3, <2>4, <2>5, <2>6, HandMoves DEF Turn, pc, W, Classified, Unstarted
<1>13. QED
  BY <1>1, <1>2, <1>3, <1>4, <1>5, <1>6, <1>7, <1>8, <1>9, <1>10, <1>11, <1>12
     DEF WorkerStep

LEMMA ExecutionHand == ReportInv /\ RunStep("worker") => Hand'
<1> SUFFICES ASSUME ReportInv, RunStep("worker") PROVE Hand'
  OBVIOUS
<1> DEFINE s == W.req
<1>0. TurnInv /\ WorkerKind /\ InHand /\ KeepsTurn
  BY DEF ReportInv, Hand
<1>1. CASE try_acquire("worker") \/ enter_active("worker")
  <2>1. /\ W.pc \in {"enter", "permitted"} /\ Working /\ Unstarted
        /\ UNCHANGED <<status, input, link, used, results, activeRequest>>
    BY <1>1 DEF try_acquire, enter_active, pc, W, Working, Resting, Unstarted, queueVars,
       turnVars
  <2>2. \/ \E p \in {"permitted", "entered"} : Goto("worker", p)
        \/ \E r \in {"busy", "error"} : Result("worker", "finish", r)
    BY <1>1 DEF try_acquire, enter_active, Refuse
  <2>3. /\ W'.req = W.req /\ W'.kind = W.kind /\ W'.pc \in {"permitted", "entered", "finish"}
        /\ \/ W'.result = W.result
           \/ W'.result \in {"busy", "error"} /\ W'.pc = "finish"
    BY <1>0, <2>2, HandGoto, HandResult DEF Pcs
  <2>4. Fresh(s) /\ W.result # "busy" /\ (Intent[s] = "ordinary" => activeRequest = s)
    BY <1>0, <2>1 DEF InHand, KeepsTurn, Classified
  <2>5. WorkerKind'
    BY <1>0, <2>1, <2>3, KindKept DEF Executing
  <2>6. QED BY <2>1, <2>3, <2>4, <2>5, HandMoves DEF Turn, pc, W
<1>2. CASE start_record("worker")
  <2>1. /\ W.pc = "entered" /\ Working /\ Unstarted
        /\ UNCHANGED <<status, input, results>> /\ Goto("worker", "running")
    BY <1>2 DEF start_record, pc, W, Working, Resting, Unstarted, queueVars
  <2>2. W'.req = W.req /\ W'.pc = "running" /\ W'.result = W.result /\ W'.kind = W.kind
    BY <1>0, <2>1, HandGoto DEF Pcs
  <2>3. W.result # "busy"
    BY <1>0, <2>1 DEF InHand
  <2>4. WorkerKind'
    BY <1>0, <2>1, <2>2, KindKept DEF Executing
  <2>5. s \in Requests
    BY <1>0, <2>1, WorkerRequest DEF W, Working
  <2>6. link'[s] # None
    BY <1>0, <1>2, <2>5, SentinelAssumption DEF start_record, Link, TurnInv, TurnType, W
  <2>7. QED BY <2>1, <2>2, <2>3, <2>4, <2>6, HandMoves DEF Classified, Unstarted
<1>3. CASE admission_refused("worker")
  <2>1. /\ W.pc \in {"entered", "prepared"} /\ Working
        /\ UNCHANGED <<status, input, link, used, results, activeRequest>>
    BY <1>3 DEF admission_refused, pc, W, Working, Resting, queueVars, turnVars
  <2>2. \/ link[s] # None /\ Result("worker", "done", "ok")
        \/ \E p \in {"done", "failing"} : Result("worker", p, "error")
    BY <1>3 DEF admission_refused, W
  <2>3. /\ W'.req = W.req /\ W'.kind = W.kind /\ W'.pc \in {"done", "failing"}
        /\ W'.result \in {"ok", "error"} /\ (W'.result = "ok" => link[s] # None)
    BY <1>0, <2>2, HandResult DEF Pcs
  <2>4. WorkerKind'
    BY <1>0, <2>1, <2>3, KindKept DEF Executing
  <2>5. QED BY <2>1, <2>3, <2>4, HandMoves DEF Turn, pc, W, Classified, Unstarted
<1>4. CASE accept_followups("worker")
  <2>1. UNCHANGED <<run, status, input, link, used, results, activeRequest>>
    BY <1>4 DEF accept_followups, queueVars, turnVars, hostVars
  <2>2. QED BY <1>0, <2>1, HandStays DEF InHand
<1>5. ASSUME NEW b \in BOOLEAN,
             \/ complete("worker") \/ finish_run("worker", b) \/ end_task("worker", b)
             \/ turn_fails("worker")
      PROVE  Hand'
  <2>1. W.pc = "completed" \/ Turn("worker")
    BY <1>5 DEF complete, finish_run, end_task, turn_fails, pc, W
  <2>2. Working /\ W.pc \in Executing /\ link[s] # None /\ W.result # "busy"
    BY <1>0, <2>1 DEF InHand, Turn, pc, W, Working, Resting, Executing
  <2>3. \/ Goto("worker", "completed")
        \/ \E p \in {"done", "failing"}, r \in {"ok", "error"} : Result("worker", p, r)
    BY <1>5 DEF complete, finish_run, end_task, turn_fails
  <2>4. /\ W'.req = W.req /\ W'.kind = W.kind /\ W'.pc \in {"completed", "done", "failing"}
        /\ W'.result \in {W.result, "ok", "error"}
    BY <1>0, <2>3, HandGoto, HandResult DEF Pcs
  <2>5. WorkerKind'
    BY <1>0, <2>2, <2>4, KindKept DEF Executing
  <2>6. UNCHANGED <<status, input, link, results>>
    BY <1>5 DEF complete, finish_run, end_task, turn_fails, queueVars, turnVars
  <2>7. QED BY <2>2, <2>4, <2>5, <2>6, HandMoves DEF Classified, Unstarted
<1>6. ASSUME settle_error("worker") \/ \E b \in BOOLEAN : stop_failed("worker", b) PROVE Hand'
  <2>1. /\ W.pc \in {"failing", "stopping"} /\ Working
        /\ UNCHANGED <<status, input, link, results>>
    BY <1>6 DEF settle_error, stop_failed, pc, W, Working, Resting, queueVars
  <2>2. /\ W'.req = W.req /\ W'.kind = W.kind /\ W'.pc \in {"stopping", "done"}
        /\ \/ W'.result = W.result
           \/ W'.result = "ok" /\ link[s] # None
    <3>1. CASE settle_error("worker")
      BY <1>0, <3>1, SettleMoves DEF TurnInv, Records, Actors, Moved, W
    <3>2. ASSUME NEW b \in BOOLEAN, stop_failed("worker", b)
          PROVE  \/ Goto("worker", "done")
                 \/ link[s] # None /\ Result("worker", "done", "ok")
      BY <3>2 DEF stop_failed, W
    <3>3. QED BY <1>0, <1>6, <3>1, <3>2, HandGoto, HandResult DEF Pcs
  <2>3. W.pc \in Executing /\ W'.pc \in Executing
    BY <2>1, <2>2 DEF Executing
  <2>4. W.result # "busy"
    BY <1>0, <2>1 DEF InHand
  <2>5. WorkerKind'
    BY <1>0, <2>2, <2>3, KindKept
  <2>6. QED BY <2>1, <2>2, <2>4, <2>5, HandMoves DEF Turn, pc, W, Classified, Unstarted
<1>7. CASE release("worker")
  <2>1. /\ W.pc = "done" /\ Working /\ UNCHANGED <<status, input, link, results>>
        /\ Goto("worker", "finish")
    BY <1>7 DEF release, pc, W, Working, Resting, queueVars, turnVars
  <2>2. /\ W'.req = W.req /\ W'.kind = W.kind /\ W'.pc = "finish" /\ W'.result = W.result
    BY <1>0, <2>1, HandGoto DEF Pcs
  <2>3. W.result # "busy"
    BY <1>0, <2>1 DEF InHand
  <2>4. WorkerKind'
    BY <1>0, <2>1, <2>2, KindKept DEF Executing
  <2>5. QED BY <2>1, <2>2, <2>3, <2>4, HandMoves DEF Turn, pc, W, Classified, Unstarted
<1>8. QED BY <1>1, <1>2, <1>3, <1>4, <1>5, <1>6, <1>7 DEF RunStep

LEMMA HandStep == ReportInv /\ [Next]_vars => Hand'
<1> SUFFICES ASSUME ReportInv, [Next]_vars PROVE Hand'
  OBVIOUS
<1>0. TurnInv /\ InHand
  BY DEF ReportInv, Hand
<1>1. ASSUME NEW a \in Actors, RunStep(a) PROVE Hand'
  BY <1>1, ExecutionHand, DirectHand DEF Actors
<1>2. ASSUME UNCHANGED <<run, status, input, link, used, results, activeRequest>> PROVE Hand'
  BY <1>0, <1>2, HandStays DEF InHand
<1>3. ASSUME NEW s \in Subs, wake_queue(s) PROVE Hand'
  <2>1. CASE Goto("worker", "loop")
    <3>1. W'.pc \in Resting
      BY <1>0, <2>1, HandGoto DEF Pcs, Resting
    <3>2. QED BY <3>1, RestingHand
  <2>2. QED BY <1>2, <1>3, <2>1 DEF wake_queue, queueVars, turnVars
<1>4. CASE others_release \/ UNCHANGED vars
  BY <1>2, <1>4 DEF others_release, vars, queueVars, turnVars, hostVars
<1>5. CASE RestartStep
  <2>1. W.pc \in Resting
    BY <1>0, <1>5 DEF RestartStep, recover_interrupted, recover_submissions, start_queued,
       TurnInv, Down, Actors, W, Idle, Resting
  <2>2. W'.pc \in Resting
    <3>1. CASE Goto("worker", "loop")
      BY <1>0, <3>1, HandGoto DEF Pcs, Resting
    <3>2. QED BY <1>5, <2>1, <3>1 DEF RestartStep, recover_interrupted,
          recover_submissions, start_queued, W
  <2>3. QED BY <2>2, RestingHand
<1>6. QED
  BY <1>1, <1>3, <1>4, <1>5, ClientHand, QueueHand, DirectHand DEF Next, HostStep

-----------------------------------------------------------------------------
(* Shutdown.  Once shutdown_if_idle has said yes nothing is pending and nobody *)
(* owns the session, except a worker about to find its submission cancelled.  *)
Still(a) == pc(a)' \notin Owning \ {"begin"}
Unadmitting ==
    /\ ops' = ops /\ Pending' \subseteq Pending
    /\ \A t \in TaskIds : tasks'[t] = tasks[t] \/ tasks'[t] = "cancelling"

LEMMA StillPending ==
    ASSUME \A s \in Subs : status'[s] = status[s] \/ status'[s] = "cancelled",
           UNCHANGED <<ops, tasks>>
    PROVE  Unadmitting
BY DEF Unadmitting, Pending

LEMMA WorkerQuiet ==
    ASSUME ReportInv, ~accepting, WorkerStep PROVE Unadmitting /\ Still("worker")
<1>0. TurnInv /\ InHand /\ Pending = {} /\ W.pc \notin Owning \ {"begin"}
  BY DEF ReportInv, Hand, Quiescent, Actors, pc, W
<1>a. Working => W.req \in Subs
  BY <1>0, WorkerRequest DEF W, Working
<1>b. Working => status[W.req] = "cancelled"
  BY <1>0, <1>a DEF InHand, Pending
<1>1. CASE enable_wake \/ park \/ claim
  <2>1. UNCHANGED <<status, ops, tasks>>
    <3>1. next_submission = {}
      BY <1>0 DEF next_submission, Queued, Pending
    <3>2. QED BY <1>1, <3>1 DEF enable_wake, park, claim, queueVars, turnVars, taskVars
  <2>2. CASE \E p \in {"check", "loop", "park"} : Goto("worker", p)
    BY <1>0, <2>1, <2>2, HandGoto, StillPending DEF Pcs, Still, pc, W, Owning
  <2>3. CASE run' = [run EXCEPT !["worker"] = Idle]
    BY <1>0, <2>1, <2>3, ResetMoves, StillPending DEF TurnInv, Records, Actors, Still, pc,
       Idle, Owning
  <2>4. next_submission = {}
    BY <1>0 DEF next_submission, Queued, Pending
  <2>5. QED BY <1>1, <2>2, <2>3, <2>4 DEF enable_wake, park, claim
<1>2. CASE dispatch
  <2>1. UNCHANGED <<status, ops, tasks>>
    BY <1>2 DEF dispatch, queueVars, turnVars, taskVars
  <2>2. W'.pc \in {"classify", "enter"}
    BY <1>0, <1>2 DEF dispatch, TurnInv, Records, Actors, W, Runs
  <2>3. QED BY <2>1, <2>2, StillPending DEF Still, pc, W, Owning
<1>3. CASE route
  <2>1. UNCHANGED <<status, ops, tasks>>
    BY <1>3 DEF route, queueVars, turnVars, taskVars
  <2>2. W'.pc = "enter"
    BY <1>0, <1>3 DEF route, TurnInv, Records, Actors, W, Runs
  <2>3. QED BY <2>1, <2>2, StillPending DEF Still, pc, W, Owning
<1>4. CASE classify_ordinary \/ settle_failed_classification
  <2>1. UNCHANGED <<status, ops, tasks>>
    BY <1>4 DEF classify_ordinary, settle_failed_classification, queueVars, turnVars,
       taskVars
  <2>2. W'.pc \in {"unclassified", "begin", "finish"}
    BY <1>0, <1>4, HandGoto, HandResult DEF classify_ordinary,
       settle_failed_classification, Pcs
  <2>3. QED BY <2>1, <2>2, StillPending DEF Still, pc, W, Owning
<1>5. CASE begin_classification
  <2>1. Working /\ status[W.req] = "cancelled"
    BY <1>5, <1>b DEF begin_classification, pc, W, Working, Resting
  <2>2. Result("worker", "unclassified", "error") /\ UNCHANGED <<status, ops, tasks>>
    BY <1>5, <2>1 DEF begin_classification, Unadmitted, W, queueVars, taskVars
  <2>3. W'.pc = "unclassified"
    BY <1>0, <2>2, HandResult DEF Pcs
  <2>4. QED BY <2>2, <2>3, StillPending DEF Still, pc, W, Owning
<1>6. CASE finish
  <2>1. Working /\ status[W.req] = "cancelled"
    BY <1>6, <1>b DEF finish, pc, W, Working, Resting
  <2>2. Rest("loop") /\ UNCHANGED <<status, ops, tasks>>
    BY <1>6, <2>1 DEF finish, W, queueVars, turnVars, taskVars
  <2>3. W'.pc = "loop"
    BY <1>0, <2>2, RestMoves DEF TurnInv, Records, Resting, W
  <2>4. QED BY <2>2, <2>3, StillPending DEF Still, pc, W, Owning
<1>7. CASE \/ \E k \in {"none", "information", "action"} : classify_ordinary_call(k)
           \/ continue_submission \/ begin_auxiliary \/ load_shell \/ prepare_shell \/ begin_shell
           \/ \E b \in BOOLEAN : publish_auxiliary(b) \/ finish_shell(b)
           \/ settle_auxiliary \/ shell_uncaptured
  <2>1. W.pc \in {"classifying", "entered", "loaded", "prepared", "running", "published"}
    BY <1>7 DEF classify_ordinary_call, continue_submission, begin_auxiliary, load_shell,
       prepare_shell, begin_shell, publish_auxiliary, finish_shell, settle_auxiliary, shell_uncaptured, pc, W
  <2>2. QED BY <1>0, <2>1 DEF Owning
<1>8. QED BY <1>1, <1>2, <1>3, <1>4, <1>5, <1>6, <1>7 DEF WorkerStep

LEMMA ExecutionQuiet ==
    ASSUME ReportInv, ~accepting, NEW a \in Actors, RunStep(a) PROVE Unadmitting /\ Still(a)
<1>0. TurnInv /\ run \in [Actors -> Runs] /\ run[a].pc \notin Owning \ {"begin"}
  BY DEF ReportInv, Quiescent, pc, TurnInv, Records
<1>1. CASE try_acquire(a) \/ enter_active(a)
  <2>1. UNCHANGED <<status, ops, tasks>>
    BY <1>1 DEF try_acquire, enter_active, queueVars, turnVars, taskVars
  <2>2. \/ Goto(a, "permitted")
        \/ \E r \in {"busy", "error"} : Refuse(a, r)
    BY <1>1 DEF try_acquire, enter_active
  <2>3. CASE Goto(a, "permitted")
    BY <1>0, <2>1, <2>3, GotoMoves, StillPending DEF Pcs, Moved, Still, pc, Owning
  <2>4. ASSUME NEW r \in {"busy", "error"}, Result(a, "finish", r) PROVE Unadmitting /\ Still(a)
    BY <1>0, <2>1, <2>4, ResultMoves, StillPending DEF Pcs, Moved, Still, pc, Owning
  <2>5. CASE run' = [run EXCEPT ![a] = Idle]
    BY <1>0, <2>1, <2>5, ResetMoves, StillPending DEF Still, pc, Idle, Owning
  <2>6. QED BY <2>2, <2>3, <2>4, <2>5 DEF Refuse
<1>2. CASE ~(try_acquire(a) \/ enter_active(a))
  <2>1. run[a].pc \in {"entered", "prepared", "running", "completed", "failing", "stopping", "done"}
    BY <1>2 DEF RunStep, start_record, admission_refused, accept_followups, complete,
       finish_run, end_task, settle_error, stop_failed, turn_fails, release, Turn, pc
  <2>2. QED BY <1>0, <2>1 DEF Owning
<1>3. QED BY <1>1, <1>2

LEMMA ClientQuiet ==
    ASSUME ReportInv, ~accepting, ~accepting', ClientStep
    PROVE  Unadmitting /\ \A a \in Actors : Still(a)
<1>0. TurnInv /\ TaskType /\ TurnType /\ \A a \in Actors : run[a].pc \notin Owning \ {"begin"}
  BY DEF ReportInv, TurnInv, Quiescent, pc
<1>1. \/ \E s \in Subs, b \in Subs \cup {None} : move_submission(s, b)
      \/ \E s \in Subs : cancel_submission(s)
      \/ \E r \in Requests : cancel_request(r)
      \/ \E d \in Direct : execute_request(d)
      \/ cancel \/ shutdown_if_idle \/ others_acquire
  BY DEF ClientStep, submit, edit_submission, crash
<1>2. \A s \in Subs : status'[s] = status[s] \/ status'[s] = "cancelled"
  BY <1>1 DEF move_submission, cancel_submission, cancel_request, execute_request, cancel,
     shutdown_if_idle, others_acquire, SubmissionChanged, queueVars
<1>3. \A t \in TaskIds : tasks'[t] = tasks[t] \/ tasks'[t] = "cancelling"
  BY <1>0, <1>1 DEF move_submission, cancel_submission, cancel_request, execute_request,
     cancel, shutdown_if_idle, others_acquire, RequestCancellation, taskVars, TaskType
<1>4. ops' = ops
  BY <1>1 DEF move_submission, cancel_submission, cancel_request, execute_request, cancel,
     shutdown_if_idle, others_acquire, turnVars
<1>5. \A a \in Actors : Still(a)
  <2>1. CASE UNCHANGED run
    BY <1>0, <2>1 DEF Still, pc
  <2>2. ASSUME NEW d \in Direct, execute_request(d) PROVE \A a \in Actors : Still(a)
    BY <1>0, <2>2 DEF execute_request, TurnInv, Records, Idle, Still, pc, Owning
  <2>3. QED
    BY <1>1, <2>1, <2>2 DEF move_submission, cancel_submission, cancel_request, cancel,
       shutdown_if_idle, others_acquire, hostVars
<1>6. QED BY <1>2, <1>3, <1>4, <1>5 DEF Unadmitting, Pending

LEMMA ShutdownStep ==
    ASSUME ReportInv, [Next]_vars, ~accepting, ~accepting'
    PROVE  Unadmitting /\ \A a \in Actors : Still(a)
<1>0. /\ TurnInv /\ Up /\ "worker" \in Actors /\ Direct \subseteq Actors
      /\ \A a \in Actors : run[a].pc \notin Owning \ {"begin"}
  BY DEF ReportInv, TurnInv, Down, Up, Actors, Quiescent, pc
<1>1. ASSUME UNCHANGED <<status, ops, tasks>> PROVE Unadmitting
  BY <1>1, StillPending
<1>2. ASSUME NEW a \in Actors, Still(a), \A b \in Actors \ {a} : run'[b] = run[b]
      PROVE  \A b \in Actors : Still(b)
  BY <1>0, <1>2 DEF Still, pc
<1>3. CASE WorkerStep
  BY <1>0, <1>2, <1>3, WorkerQuiet, WorkerActs DEF Acts
<1>4. ASSUME NEW a \in Actors, RunStep(a) PROVE Unadmitting /\ \A b \in Actors : Still(b)
  <2>1. Unadmitting /\ Still(a)
    BY <1>4, ExecutionQuiet
  <2>2. ~accept_followups(a)
    <3>1. CASE accept_followups(a)
      BY <1>0, <3>1 DEF accept_followups, Turn, pc, Owning
    <3>2. QED BY <3>1
  <2>3. QED BY <1>0, <1>2, <1>4, <2>1, <2>2, ExecutionActs DEF Acts
<1>5. ASSUME NEW d \in Direct, resume_task(d) PROVE FALSE
  BY <1>0, <1>5 DEF resume_task, pc, Owning
<1>6. ASSUME NEW s \in Subs, wake_queue(s) PROVE Unadmitting /\ \A b \in Actors : Still(b)
  <2>1. Unadmitting
    BY <1>1, <1>6 DEF wake_queue, queueVars, turnVars, taskVars
  <2>2. CASE UNCHANGED run
    BY <1>0, <2>1, <2>2 DEF Still, pc
  <2>3. CASE Goto("worker", "loop")
    <3>1. Moved("worker", "loop")
      BY <1>0, <2>3, GotoMoves DEF TurnInv, Records, Pcs
    <3>2. QED BY <1>0, <1>2, <2>1, <3>1 DEF Moved, Still, pc, Owning
  <2>4. QED BY <1>6, <2>2, <2>3 DEF wake_queue
<1>7. CASE others_release \/ UNCHANGED vars
  <2>1. UNCHANGED <<status, ops, tasks, run>>
    BY <1>7 DEF others_release, vars, queueVars, turnVars, taskVars, hostVars
  <2>2. QED BY <1>0, <1>1, <2>1 DEF Still, pc
<1>8. CASE RestartStep
  BY <1>0, <1>8 DEF RestartStep, recover_interrupted, recover_submissions, start_queued, Up
<1>9. QED
  BY <1>3, <1>4, <1>5, <1>6, <1>7, <1>8, ClientQuiet DEF Next, HostStep

\* Only shutdown_if_idle stops the host from accepting.
LEMMA QuiescentStep == ReportInv /\ [Next]_vars => Quiescent'
<1> SUFFICES ASSUME ReportInv, [Next]_vars, ~accepting' PROVE Quiescent'
  BY DEF Quiescent
<1>1. CASE ~accepting
  <2>1. Unadmitting /\ \A a \in Actors : Still(a)
    BY <1>1, ShutdownStep
  <2>2. QED BY <1>1, <2>1 DEF ReportInv, Quiescent, Unadmitting, Still
<1>2. CASE accepting
  <2>1. shutdown_if_idle
    BY <1>2 DEF Next, ClientStep, HostStep, WorkerStep, RunStep, RestartStep, vars, submit,
       edit_submission, move_submission, cancel_submission, cancel_request, execute_request,
       cancel, others_acquire, crash, enable_wake, claim, park, dispatch, classify_ordinary,
       begin_classification, classify_ordinary_call, settle_failed_classification, route,
       continue_submission, begin_auxiliary, load_shell, prepare_shell, begin_shell, publish_auxiliary,
       finish_shell, settle_auxiliary, shell_uncaptured, finish, try_acquire, enter_active,
       start_record, admission_refused, accept_followups, complete, finish_run, end_task,
       settle_error, stop_failed, turn_fails, release, resume_task, wake_queue, others_release,
       recover_interrupted, recover_submissions, start_queued, hostVars, envVars
  <2>2. active = None /\ Pending = {} /\ UNCHANGED <<run, status>>
    BY <2>1 DEF shutdown_if_idle, queueVars
  <2>3. \A a \in Actors : pc(a) \notin Owning
    BY <2>2, SentinelAssumption DEF ReportInv, TurnInv, Owners
  <2>4. QED BY <2>2, <2>3 DEF Quiescent, Pending, pc
<1>3. QED BY <1>1, <1>2

LEMMA ReportInit == Init => ReportInv
<1> SUFFICES ASSUME Init PROVE ReportInv
  OBVIOUS
<1>1. TurnInv
  BY TurnInit
<1>2. W.pc = "off"
  BY DEF Init, W, Idle, Actors
<1>3. Hand
  BY <1>2 DEF Hand, WorkerKind, InHand, KeepsTurn, Working, Resting, Executing
<1>4. Quiescent
  BY DEF Init, Quiescent
<1>5. Subs \subseteq Requests
  BY DEF Requests
<1>6. Data
  BY <1>5 DEF Init, Data, Admitted, Registered, Reported, InputExact, CancelHonoured,
     FinishedRan, FollowUpsCovered
<1>7. QED BY <1>1, <1>3, <1>4, <1>6 DEF ReportInv

LEMMA ReportStep == ReportInv /\ [Next]_vars => ReportInv'
BY TurnStep, HandStep, QuiescentStep, DataStep DEF ReportInv

LEMMA ReportInvariant == Spec => []ReportInv
BY ReportInit, ReportStep, PTL DEF Spec

-----------------------------------------------------------------------------
(* Turns that nobody settles.  The active request of a running host is        *)
(* running or failed, or it was classified and waits again; a submission that *)
(* is about to be shown as finished has given the session back.               *)
Kept(s) == \/ status[s] \in {"running", "failed"}
           \/ status[s] \in {"queued", "cancelled"} /\ Intent[s] = "ordinary"

ActiveKept == Up => \A s \in Subs : activeRequest = s => Kept(s)
ActiveDown == host \in {"requeue", "start"} => activeRequest = None
ActiveAdmitted == activeRequest \in ops \cup {None}
GaveBack ==
    Working =>
      /\ W.result = "ok" => W.pc \in {"done", "finish"} /\ activeRequest # W.req
      /\ (Unstarted \/ W.result = "busy") /\ Intent[W.req] # "ordinary" =>
            activeRequest # W.req
ActiveInv == ActiveKept /\ ActiveDown /\ ActiveAdmitted /\ GaveBack

\* The steps that touch the statuses or the order of the queue.
LEMMA QueueMoves ==
    ASSUME [Next]_vars
    PROVE  \/ \E s \in Subs, i \in Inputs, steer \in BOOLEAN : submit(s, i, steer)
           \/ \E s \in Subs, i \in Inputs \cup {None} : edit_submission(s, i)
           \/ \E s \in Subs, b \in Subs \cup {None} : move_submission(s, b)
           \/ claim \/ finish \/ cancel \/ (\E s \in Subs : cancel_submission(s))
           \/ recover_submissions \/ UNCHANGED queueVars
BY DEF Next, ClientStep, HostStep, WorkerStep, RunStep, RestartStep, vars,
   cancel_request, execute_request, shutdown_if_idle,
   others_acquire, crash, enable_wake, park, dispatch, classify_ordinary,
   begin_classification, classify_ordinary_call, settle_failed_classification, route,
   continue_submission, begin_auxiliary, load_shell, prepare_shell, begin_shell,
   publish_auxiliary, finish_shell, settle_auxiliary, shell_uncaptured, try_acquire,
   enter_active, start_record, admission_refused, accept_followups, complete, finish_run,
   end_task, settle_error, stop_failed, turn_fails, release, resume_task, wake_queue,
   others_release, recover_interrupted, start_queued

\* The active request stays, ends, or is one that is admitted.
Admits ==
    /\ Up /\ UNCHANGED <<status, host>> /\ activeRequest' \in ops'
    /\ activeRequest' \in Subs =>
          /\ status[activeRequest'] = "running" /\ activeRequest' = W.req
          /\ W.pc \in {"begin", "entered", "prepared"}
          /\ W'.pc \in {"classifying", "running"} /\ W'.req = W.req

LEMMA ActiveMoves ==
    ASSUME ReportInv, [Next]_vars
    PROVE  UNCHANGED activeRequest \/ activeRequest' = None \/ Admits
<1>0. TurnInv
  BY DEF ReportInv
<1>1. ASSUME NEW a \in Actors, start_record(a) PROVE Admits
  <2>1. /\ run[a].pc = "entered" /\ Startable(run[a].req) /\ Goto(a, "running")
        /\ activeRequest' = run[a].req /\ ops' = ops \cup {run[a].req}
        /\ Up /\ UNCHANGED <<status, host>>
    BY <1>1 DEF start_record, Link, pc, queueVars, envVars
  <2>2. CASE a = "worker"
    <3>1. W'.pc = "running" /\ W'.req = W.req
      BY <1>0, <2>1, <2>2, HandGoto DEF Pcs
    <3>2. QED BY <2>1, <2>2, <3>1 DEF Admits, Startable, W
  <2>3. CASE a # "worker"
    <3>1. run[a].req \notin Subs
      BY <1>0, <2>1, <2>3, ActorRequest, IntentAssumption DEF Resting
    <3>2. QED BY <2>1, <3>1 DEF Admits
  <2>4. QED BY <2>2, <2>3
<1>2. CASE continue_submission \/ begin_auxiliary \/ begin_shell
  <2>1. /\ W.pc \in {"entered", "prepared"} /\ Goto("worker", "running")
        /\ activeRequest' = W.req /\ ops' = ops \cup {W.req} /\ status[W.req] = "running"
        /\ Up /\ UNCHANGED <<status, host>>
    BY <1>2 DEF continue_submission, begin_auxiliary, begin_shell, Link, Continuable,
       ShellAdmissible, Unadmitted, pc, W, queueVars, envVars
  <2>2. W'.pc = "running" /\ W'.req = W.req
    BY <1>0, <2>1, HandGoto DEF Pcs
  <2>3. QED BY <2>1, <2>2 DEF Admits
<1>3. CASE begin_classification
  <2>1. CASE UNCHANGED activeRequest
    BY <2>1
  <2>2. CASE ~UNCHANGED activeRequest
    <3>1. /\ W.pc = "begin" /\ Goto("worker", "classifying")
          /\ activeRequest' = W.req /\ ops' = ops \cup {W.req} /\ status[W.req] = "running"
          /\ Up /\ UNCHANGED <<status, host>>
      BY <1>3, <2>2 DEF begin_classification, Unadmitted, pc, W, queueVars, envVars
    <3>2. W'.pc = "classifying" /\ W'.req = W.req
      BY <1>0, <3>1, HandGoto DEF Pcs
    <3>3. QED BY <3>1, <3>2 DEF Admits
  <2>3. QED BY <2>1, <2>2
<1>4. ASSUME NEW d \in Direct, resume_task(d) PROVE Admits
  <2>1. d \notin Subs
    BY IntentAssumption
  <2>2. QED BY <1>4, <2>1 DEF resume_task, Link, Admits, queueVars, envVars
<1>5. ASSUME NEW a \in Actors, NEW b \in BOOLEAN,
             finish_run(a, b) \/ end_task(a, b) \/ stop_failed(a, b) \/ settle_error(a)
      PROVE  UNCHANGED activeRequest \/ activeRequest' = None
  BY <1>5 DEF finish_run, end_task, stop_failed, settle_error, Settle
<1>6. ASSUME \/ settle_failed_classification \/ settle_auxiliary
             \/ (\E b \in BOOLEAN : publish_auxiliary(b) \/ finish_shell(b))
             \/ recover_interrupted
      PROVE  UNCHANGED activeRequest \/ activeRequest' = None
  BY <1>6 DEF settle_failed_classification, settle_auxiliary, publish_auxiliary,
     finish_shell, recover_interrupted
<1>7. CASE ClientStep
  BY <1>7 DEF ClientStep, submit, edit_submission, move_submission, cancel_submission,
     cancel_request, execute_request, cancel, shutdown_if_idle, others_acquire, crash,
     turnVars
<1>8. CASE WorkerStep
  BY <1>2, <1>3, <1>6, <1>8 DEF WorkerStep, enable_wake, claim, park, dispatch,
     classify_ordinary, classify_ordinary_call, route, load_shell, prepare_shell,
     shell_uncaptured, finish, turnVars
<1>9. ASSUME NEW a \in Actors, RunStep(a)
      PROVE  UNCHANGED activeRequest \/ activeRequest' = None \/ Admits
  BY <1>1, <1>5, <1>9 DEF RunStep, try_acquire, enter_active, admission_refused,
     accept_followups, complete, turn_fails, release, turnVars
<1>10. CASE (\E s \in Subs : wake_queue(s)) \/ others_release \/ RestartStep \/ UNCHANGED vars
  BY <1>6, <1>10 DEF wake_queue, others_release, RestartStep, recover_submissions,
     start_queued, vars, turnVars
<1>11. QED
  BY <1>4, <1>7, <1>8, <1>9, <1>10 DEF Next, HostStep

\* Whatever is shown of the active request while it stays the active one.
LEMMA KeptStep ==
    ASSUME ReportInv, ActiveInv, [Next]_vars, Up, UNCHANGED activeRequest,
           NEW s \in Subs, activeRequest = s
    PROVE  Kept(s)'
<1>0. /\ QueueType /\ InHand /\ GaveBack /\ Kept(s) /\ s # None
  BY SentinelAssumption DEF ReportInv, TurnInv, Hand, ActiveInv, ActiveKept, Requests
<1>a. s \in ops
  BY <1>0 DEF ActiveInv, ActiveAdmitted
<1>1. CASE UNCHANGED status
  BY <1>0, <1>1 DEF Kept
<1>2. ASSUME NEW q \in Subs, NEW i \in Inputs, NEW steer \in BOOLEAN, submit(q, i, steer)
      PROVE  Kept(s)'
  BY <1>0, <1>2 DEF submit, queueVars, QueueType, Kept
<1>3. ASSUME NEW S \in SUBSET Subs, SubmissionChanged(S, "cancelled"),
             \A q \in S : status[q] = "queued" \/ q \notin ops
      PROVE  Kept(s)'
  BY <1>0, <1>a, <1>3 DEF SubmissionChanged, Kept
<1>4. CASE cancel \/ \E q \in Subs : cancel_submission(q)
  <2>1. CASE cancel
    BY <1>3, <2>1 DEF cancel, Queued
  <2>2. ASSUME NEW q \in Subs, cancel_submission(q) PROVE Kept(s)'
    BY <1>3, <2>2 DEF cancel_submission
  <2>3. QED BY <1>4, <2>1, <2>2
<1>5. CASE claim
  BY <1>0, <1>5 DEF claim, SubmissionChanged, queueVars, Kept
<1>6. CASE finish
  <2>1. W.pc = "finish" /\ Working
    BY <1>6 DEF finish, pc, W, Working, Resting
  <2>2. CASE W.req # s
    BY <1>0, <1>6, <2>2 DEF finish, SubmissionChanged, queueVars, Kept, W
  <2>3. CASE W.req = s
    <3>1. W.result # "ok" /\ (W.result = "busy" => Intent[s] = "ordinary")
      BY <1>0, <2>1, <2>3 DEF GaveBack
    <3>2. QED BY <1>0, <1>6, <2>3, <3>1 DEF finish, SubmissionChanged, queueVars, Kept, W
  <2>4. QED BY <2>2, <2>3
<1>7. ~recover_submissions
  BY DEF recover_submissions, Up
<1>8. QED
  BY <1>1, <1>2, <1>4, <1>5, <1>6, <1>7, QueueMoves DEF edit_submission, move_submission,
     queueVars

\* What a step of the worker makes of the submission in its hands.
GoesOn ==
    /\ Working /\ W'.req = W.req /\ (Unstarted' => Unstarted)
    /\ \/ W'.result = W.result /\ (W.pc \in {"done", "finish"} => W'.pc = "finish")
       \/ W'.result = "error"
       \/ W'.result = "busy" /\ Unstarted
       \/ W'.result = "ok" /\ W'.pc = "done" /\ activeRequest' = None

LEMMA QueueGoesOn ==
    ASSUME ReportInv, WorkerStep, W'.pc \notin Resting, ~claim PROVE GoesOn
<1>0. TurnInv
  BY DEF ReportInv
<1>1. CASE enable_wake \/ park \/ finish
  <2>1. PICK p \in {"check", "loop", "park"} : Goto("worker", p) \/ Rest(p)
    BY <1>1 DEF enable_wake, park, finish
  <2>2. CASE Goto("worker", p)
    BY <1>0, <2>2, HandGoto DEF Pcs, Resting
  <2>3. CASE Rest(p)
    BY <1>0, <2>3, RestMoves DEF TurnInv, Records, Resting, W
  <2>4. QED BY <2>1, <2>2, <2>3
<1>2. CASE dispatch \/ route \/ load_shell
  <2>1. W.pc \in {"claimed", "routed", "entered"}
    BY <1>2 DEF dispatch, route, load_shell, pc, W
  <2>2. W'.req = W.req /\ W'.result = W.result
    BY <1>0, <1>2 DEF dispatch, route, load_shell, TurnInv, Records, Actors, W, Runs
  <2>3. QED BY <2>1, <2>2 DEF GoesOn, Working, Resting, Unstarted
<1>3. CASE \/ prepare_shell \/ continue_submission \/ begin_auxiliary \/ begin_shell
           \/ settle_failed_classification
  <2>1. /\ W.pc \in {"loaded", "entered", "prepared", "unclassified"}
        /\ \E p \in {"prepared", "running", "finish"} : Goto("worker", p)
    BY <1>3 DEF prepare_shell, continue_submission, begin_auxiliary, begin_shell,
       settle_failed_classification, pc, W
  <2>2. W'.req = W.req /\ W'.result = W.result
    BY <1>0, <2>1, HandGoto DEF Pcs
  <2>3. QED BY <2>1, <2>2 DEF GoesOn, Working, Resting, Unstarted
<1>4. CASE \/ classify_ordinary \/ begin_classification
           \/ \E k \in {"none", "information", "action"} : classify_ordinary_call(k)
  <2>1. /\ W.pc \in {"classify", "begin", "classifying"}
        /\ \/ \E p \in {"begin", "classifying", "routed"} : Goto("worker", p)
           \/ \E r \in {"busy", "error"} : Result("worker", "unclassified", r)
    BY <1>4 DEF classify_ordinary, begin_classification, classify_ordinary_call, pc, W
  <2>2. W'.req = W.req /\ W'.result \in {W.result, "busy", "error"}
    BY <1>0, <2>1, HandGoto, HandResult DEF Pcs
  <2>3. QED BY <2>1, <2>2 DEF GoesOn, Working, Resting, Unstarted
<1>5. ASSUME NEW b \in BOOLEAN,
             publish_auxiliary(b) \/ finish_shell(b) \/ settle_auxiliary \/ shell_uncaptured
      PROVE  GoesOn
  <2>1. /\ W.pc \in {"running", "published"}
        /\ \/ Goto("worker", "published")
           \/ Result("worker", "done", "error")
           \/ Result("worker", "done", "ok") /\ activeRequest' = None
    BY <1>5 DEF publish_auxiliary, finish_shell, settle_auxiliary, shell_uncaptured, pc, W
  <2>2. /\ W'.req = W.req /\ W'.pc \in {"published", "done"}
        /\ \/ W'.result \in {W.result, "error"}
           \/ W'.result = "ok" /\ W'.pc = "done" /\ activeRequest' = None
    BY <1>0, <2>1, HandGoto, HandResult DEF Pcs
  <2>3. QED BY <2>1, <2>2 DEF GoesOn, Working, Resting, Unstarted
<1>6. QED BY <1>1, <1>2, <1>3, <1>4, <1>5 DEF WorkerStep

LEMMA RunGoesOn ==
    ASSUME ReportInv, RunStep("worker"), ~UNCHANGED run PROVE GoesOn
<1>0. TurnInv /\ InHand
  BY DEF ReportInv, Hand
<1>1. CASE try_acquire("worker") \/ enter_active("worker")
  <2>1. /\ W.pc \in {"enter", "permitted"}
        /\ \/ \E p \in {"permitted", "entered"} : Goto("worker", p)
           \/ \E r \in {"busy", "error"} : Result("worker", "finish", r)
    BY <1>1 DEF try_acquire, enter_active, Refuse, pc, W
  <2>2. W'.req = W.req /\ W'.result \in {W.result, "busy", "error"}
    BY <1>0, <2>1, HandGoto, HandResult DEF Pcs
  <2>3. QED BY <2>1, <2>2 DEF GoesOn, Working, Resting, Unstarted
<1>2. CASE start_record("worker") \/ complete("worker")
  <2>1. /\ W.pc \in {"entered", "running"}
        /\ \E p \in {"running", "completed"} : Goto("worker", p)
    BY <1>2 DEF start_record, complete, Turn, pc, W
  <2>2. W'.req = W.req /\ W'.result = W.result /\ W'.pc \in {"running", "completed"}
    BY <1>0, <2>1, HandGoto DEF Pcs
  <2>3. QED BY <2>1, <2>2 DEF GoesOn, Working, Resting, Unstarted
<1>3. CASE admission_refused("worker")
  <2>1. W.pc \in {"entered", "prepared"} /\ link[W.req] = None
    BY <1>0, <1>3 DEF admission_refused, pc, W, InHand, Working, Resting, Unstarted, Fresh
  <2>2. \E p \in {"done", "failing"} : Result("worker", p, "error")
    BY <1>3, <2>1 DEF admission_refused, W
  <2>3. W'.req = W.req /\ W'.result = "error" /\ W'.pc \in {"done", "failing"}
    BY <1>0, <2>2, HandResult DEF Pcs
  <2>4. QED BY <2>1, <2>3 DEF GoesOn, Working, Resting, Unstarted
<1>4. ASSUME NEW b \in BOOLEAN,
             \/ finish_run("worker", b) \/ end_task("worker", b) \/ stop_failed("worker", b)
             \/ turn_fails("worker")
      PROVE  GoesOn
  <2>1. /\ W.pc \in {"running", "completed", "stopping"}
        /\ \/ Result("worker", "done", "ok") /\ activeRequest' = None
           \/ Result("worker", "failing", "error") \/ Goto("worker", "done")
    BY <1>4 DEF finish_run, end_task, stop_failed, turn_fails, Turn, Settle, pc, W
  <2>2. /\ W'.req = W.req /\ W'.pc \in {"failing", "done"}
        /\ \/ W'.result \in {W.result, "error"}
           \/ W'.result = "ok" /\ W'.pc = "done" /\ activeRequest' = None
    BY <1>0, <2>1, HandGoto, HandResult DEF Pcs
  <2>3. QED BY <2>1, <2>2 DEF GoesOn, Working, Resting, Unstarted
<1>5. CASE settle_error("worker")
  <2>1. W.pc = "failing"
    BY <1>5 DEF settle_error, pc, W
  <2>2. W'.req = W.req /\ W'.result = W.result /\ W'.pc \in {"done", "stopping"}
    BY <1>0, <1>5, SettleMoves DEF TurnInv, Records, Actors, Moved, W
  <2>3. QED BY <2>1, <2>2 DEF GoesOn, Working, Resting, Unstarted
<1>6. CASE release("worker")
  <2>1. W.pc = "done" /\ Goto("worker", "finish")
    BY <1>6 DEF release, pc, W
  <2>2. W'.req = W.req /\ W'.result = W.result /\ W'.pc = "finish"
    BY <1>0, <2>1, HandGoto DEF Pcs
  <2>3. QED BY <2>1, <2>2 DEF GoesOn, Working, Resting, Unstarted
<1>7. ~accept_followups("worker")
  BY DEF accept_followups, hostVars
<1>8. QED BY <1>1, <1>2, <1>3, <1>4, <1>5, <1>6, <1>7 DEF RunStep

\* Whose record a step moves.
LEMMA WorkerMoves ==
    ASSUME ReportInv, [Next]_vars, W'.pc \notin Resting, ~claim PROVE W' = W \/ GoesOn
<1>0. TurnInv /\ "worker" \in Actors /\ Direct \subseteq Actors /\ "worker" \notin Direct
  BY IntentAssumption DEF ReportInv, Actors
<1>1. CASE ClientStep
  <2>1. ASSUME NEW d \in Direct, execute_request(d) PROVE W' = W
    BY <1>0, <2>1, ExecuteActs DEF Acts, W
  <2>2. ~crash
    BY DEF crash, W, Idle, Resting, Actors
  <2>3. QED
    BY <1>1, <2>1, <2>2 DEF ClientStep, submit, edit_submission, move_submission,
       cancel_submission, cancel_request, cancel, shutdown_if_idle, others_acquire,
       hostVars, W
<1>2. CASE WorkerStep
  BY <1>2, QueueGoesOn
<1>3. CASE RunStep("worker")
  BY <1>3, RunGoesOn DEF W
<1>4. ASSUME NEW d \in Direct, RunStep(d) \/ resume_task(d) PROVE W' = W
  <2>1. CASE accept_followups(d)
    BY <2>1 DEF accept_followups, hostVars, W
  <2>2. CASE ~accept_followups(d)
    <3>1. Acts(d)
      BY <1>0, <1>4, <2>2, ExecutionActs, ResumeActs
    <3>2. QED BY <1>0, <3>1 DEF Acts, W
  <2>3. QED BY <2>1, <2>2
<1>5. CASE (\E s \in Subs : wake_queue(s)) \/ start_queued
  <2>1. CASE Goto("worker", "loop")
    BY <1>0, <2>1, HandGoto DEF Pcs, Resting
  <2>2. QED BY <1>5, <2>1 DEF wake_queue, start_queued, W
<1>6. CASE others_release \/ recover_interrupted \/ recover_submissions \/ UNCHANGED vars
  BY <1>6 DEF others_release, recover_interrupted, recover_submissions, vars, hostVars, W
<1>7. QED
  BY <1>1, <1>2, <1>3, <1>4, <1>5, <1>6 DEF Next, HostStep, RestartStep, Actors

LEMMA GaveBackStep == ReportInv /\ ActiveInv /\ [Next]_vars => GaveBack'
<1> SUFFICES ASSUME ReportInv, ActiveInv, [Next]_vars, Working' PROVE GaveBack'
  BY DEF GaveBack
<1>0. TurnInv /\ GaveBack /\ ReportInv'
  BY ReportStep DEF ReportInv, ActiveInv
<1>1. W'.req \in Subs /\ W'.req # None
  <2>1. "worker" \in Actors /\ TurnInv'
    BY <1>0 DEF Actors, ReportInv
  <2>2. W'.req \in Subs
    BY <2>1 DEF Working, W, TurnInv, Records, Record, WorkerRecord
  <2>3. QED BY <2>2, SentinelAssumption DEF Requests
<1>2. /\ W'.result = "busy" => W'.pc \in {"unclassified", "finish"}
      /\ W'.pc = "classifying" => Intent[W'.req] = "ordinary"
  BY <1>0 DEF ReportInv, Hand, InHand, WorkerKind
<1>3. CASE claim
  <2>1. PICK q \in next_submission :
           run' = [run EXCEPT !["worker"] =
                        [Idle EXCEPT !.pc = "claimed", !.req = q,
                                     !.kind = Intent[q], !.input = input[q]]]
    <3>1. CASE Goto("worker", "park")
      BY <1>0, <3>1, HandGoto DEF Pcs, Resting, Working
    <3>2. CASE run' = [run EXCEPT !["worker"] = Idle]
      BY <1>0, <3>2, ResetMoves DEF TurnInv, Records, Actors, W, Idle, Resting, Working
    <3>3. QED BY <1>3, <3>1, <3>2 DEF claim
  <2>2. W'.pc = "claimed" /\ W'.req = q /\ W'.result = "none"
    BY <1>0, <2>1 DEF TurnInv, Records, Actors, W, Idle
  <2>3. q \in Subs /\ status[q] = "queued" /\ Up /\ UNCHANGED activeRequest
    BY <1>3 DEF next_submission, Queued, claim, turnVars
  <2>4. Intent[q] # "ordinary" => activeRequest # q
    BY <2>3 DEF ActiveInv, ActiveKept, Kept
  <2>5. QED BY <2>2, <2>3, <2>4 DEF GaveBack
<1>4. CASE ~claim
  <2>1. W' = W \/ GoesOn
    BY <1>4, WorkerMoves DEF Working
  <2>2. Working /\ W'.req = W.req
    BY <2>1 DEF GoesOn, Working
  <2>3. ASSUME W'.result = "ok"
        PROVE  W'.pc \in {"done", "finish"} /\ activeRequest' # W'.req
    <3>1. CASE W'.pc = "done" /\ activeRequest' = None
      BY <1>1, <3>1
    <3>2. CASE W.result = "ok" /\ (W' = W \/ W'.pc = "finish")
      <4>1. W.pc \in {"done", "finish"} /\ activeRequest # W.req
        BY <1>0, <2>2, <3>2 DEF GaveBack
      <4>2. W'.pc \in {"done", "finish"}
        BY <3>2, <4>1
      <4>3. QED BY <1>1, <2>2, <4>1, <4>2, ActiveMoves DEF Admits
    <3>3. QED
      BY <1>0, <2>1, <2>2, <2>3, <3>1, <3>2 DEF GoesOn, GaveBack
  <2>4. ASSUME Unstarted' \/ W'.result = "busy", Intent[W'.req] # "ordinary"
        PROVE  activeRequest' # W'.req
    <3>1. Unstarted \/ W.result = "busy"
      BY <2>1, <2>4 DEF GoesOn, Unstarted
    <3>2. activeRequest # W.req
      BY <1>0, <2>2, <2>4, <3>1 DEF GaveBack
    <3>3. W'.pc \notin {"classifying", "running"}
      BY <1>2, <2>4 DEF Unstarted
    <3>4. QED BY <1>1, <2>2, <3>2, <3>3, ActiveMoves DEF Admits
  <2>5. QED BY <2>3, <2>4 DEF GaveBack
<1>5. QED BY <1>3, <1>4

\* A host that is down only restarts.
LEMMA OnlyRestart ==
    ASSUME [Next]_vars, ~Up PROVE RestartStep \/ crash \/ UNCHANGED vars
BY DEF Next, ClientStep, HostStep, WorkerStep, RunStep, submit, edit_submission,
   move_submission, cancel_submission, cancel_request, execute_request, cancel,
   shutdown_if_idle, others_acquire, enable_wake, claim, park, dispatch,
   classify_ordinary, begin_classification, classify_ordinary_call,
   settle_failed_classification, route, continue_submission, begin_auxiliary, load_shell,
   prepare_shell, begin_shell, publish_auxiliary, finish_shell, settle_auxiliary,
   shell_uncaptured, finish, try_acquire, enter_active, start_record, admission_refused,
   accept_followups, complete, finish_run, end_task, settle_error, stop_failed,
   turn_fails, release, resume_task, wake_queue, others_release

LEMMA ActiveStep == ReportInv /\ ActiveInv /\ [Next]_vars => ActiveInv'
<1> SUFFICES ASSUME ReportInv, ActiveInv, [Next]_vars PROVE ActiveInv'
  OBVIOUS
<1>0. ActiveKept /\ ActiveDown /\ ActiveAdmitted /\ None \notin Subs
  BY SentinelAssumption DEF ActiveInv, Requests
<1>1. ActiveAdmitted'
  <2>1. ops \subseteq ops'
    BY DEF Next, ClientStep, HostStep, WorkerStep, RunStep, RestartStep, vars, submit,
       edit_submission, move_submission, cancel_submission, cancel_request, execute_request,
       cancel, shutdown_if_idle, others_acquire, crash, enable_wake, claim, park, dispatch,
       classify_ordinary, begin_classification, classify_ordinary_call,
       settle_failed_classification, route, continue_submission, begin_auxiliary, load_shell,
       prepare_shell, begin_shell, publish_auxiliary, finish_shell, settle_auxiliary,
       shell_uncaptured, finish, try_acquire, enter_active, start_record, admission_refused,
       accept_followups, complete, finish_run, end_task, settle_error, stop_failed,
       turn_fails, release, resume_task, wake_queue, others_release, recover_interrupted,
       recover_submissions, start_queued, Link, turnVars
  <2>2. QED BY <1>0, <2>1, ActiveMoves DEF ActiveAdmitted, Admits
<1>2. ActiveDown'
  <2>1. CASE host' \in {"requeue", "start"} /\ Up
    BY <2>1 DEF Next, ClientStep, HostStep, WorkerStep, RunStep, RestartStep, vars, submit,
       edit_submission, move_submission, cancel_submission, cancel_request, execute_request,
       cancel, shutdown_if_idle, others_acquire, crash, enable_wake, claim, park, dispatch,
       classify_ordinary, begin_classification, classify_ordinary_call,
       settle_failed_classification, route, continue_submission, begin_auxiliary, load_shell,
       prepare_shell, begin_shell, publish_auxiliary, finish_shell, settle_auxiliary,
       shell_uncaptured, finish, try_acquire, enter_active, start_record, admission_refused,
       accept_followups, complete, finish_run, end_task, settle_error, stop_failed,
       turn_fails, release, resume_task, wake_queue, others_release, recover_interrupted,
       recover_submissions, start_queued, Up, envVars, hostVars
  <2>2. CASE ~Up
    <3>1. CASE RestartStep \/ crash \/ UNCHANGED vars
      BY <1>0, <3>1 DEF RestartStep, recover_interrupted, recover_submissions, start_queued,
         crash, vars, hostVars, envVars, turnVars, ActiveDown
    <3>2. QED BY <2>2, <3>1, OnlyRestart
  <2>3. QED BY <2>1, <2>2 DEF ActiveDown
<1>3. ActiveKept'
  <2> SUFFICES ASSUME Up', NEW s \in Subs, activeRequest' = s PROVE Kept(s)'
    BY DEF ActiveKept
  <2>1. CASE Admits
    BY <2>1 DEF Admits, Kept
  <2>2. CASE UNCHANGED activeRequest
    <3>1. CASE Up
      BY <2>2, <3>1, KeptStep
    <3>2. CASE ~Up
      <4>1. start_queued
        BY <3>2, OnlyRestart DEF RestartStep, recover_interrupted, recover_submissions,
           crash, vars, hostVars, envVars, Up
      <4>2. QED BY <1>0, <2>2, <4>1 DEF start_queued, ActiveDown
    <3>3. QED BY <3>1, <3>2
  <2>3. QED BY <1>0, <2>1, <2>2, ActiveMoves
<1>4. QED BY <1>1, <1>2, <1>3, GaveBackStep DEF ActiveInv

LEMMA ActiveInit == Init => ActiveInv
<1> SUFFICES ASSUME Init PROVE ActiveInv
  OBVIOUS
<1>1. W.pc = "off" /\ activeRequest = None /\ None \notin Subs
  BY SentinelAssumption DEF Init, W, Idle, Actors, Requests
<1>2. QED BY <1>1 DEF ActiveInv, ActiveKept, ActiveDown, ActiveAdmitted, GaveBack, Working,
      Resting

LEMMA ActiveInvariant == Spec => []ActiveInv
BY ActiveInit, ActiveStep, ReportInvariant, PTL DEF Spec

\* What the queue reports is true: a turn runs with the text its submission
\* shows, a cancelled submission never took effect, a finished one did and gave
\* the session back, a turn that an error left behind is shown as failed, and a
\* complete task covers every follow-up registered with it, however edits,
\* cancellations, busy refusals and restarts race with the queue worker.
THEOREM QueueReportsTrue == Spec => []ReportsTrue
<1>1. ReportInv /\ ActiveInv => ReportsTrue
  <2>1. ActiveInv => AbandonedReported
    BY DEF ActiveInv, ActiveKept, Kept, AbandonedReported, Pending
  <2>2. QED BY <2>1 DEF ReportInv, Data, Reported, ReportsTrue
<1>2. QED BY <1>1, ReportInvariant, ActiveInvariant, PTL

-----------------------------------------------------------------------------
(* Nothing is replayed. *)
Once(r) == activeRequest' = r /\ activeRequest # r => r \notin ops

\* A request that names a task is admitted with it, so it has none if it was
\* never admitted; an ordinary one keeps the turn its classification opened.
LEMMA StartsOnce ==
    ASSUME ReportInv, NEW a \in Actors, run[a].pc = "entered", link[run[a].req] = None,
           run[a].kind \in {"new", "continue"}, activeRequest # run[a].req
    PROVE  run[a].req \notin ops
<1>0. TurnInv /\ Admitted /\ WorkerKind /\ KeepsTurn
  BY DEF ReportInv, Data, Hand
<1>1. run[a].req \in Requests /\ run[a].pc \notin Resting
  BY <1>0, ActorRequest DEF Resting
<1>2. CASE a # "worker"
  <2>1. run[a].req \in Direct
    BY <1>0, <1>1, <1>2, ActorRequest
  <2>2. QED BY <1>0, <1>1, <2>1, IntentAssumption DEF Admitted
<1>3. CASE a = "worker"
  <2>1. W.pc = "entered" /\ Working /\ W = run[a]
    BY <1>1, <1>3 DEF W, Working
  <2>2. Intent[W.req] # "ordinary"
    BY <1>0, <2>1 DEF KeepsTurn, Classified
  <2>3. Intent[W.req] \in {"new", "continue"}
    BY <1>0, <2>1, <2>2 DEF WorkerKind, Executing
  <2>4. QED BY <1>0, <1>1, <2>1, <2>3 DEF Admitted
<1>4. QED BY <1>2, <1>3

LEMMA OnceStep == ReportInv /\ [Next]_vars => \A r \in Requests : Once(r)
<1> SUFFICES ASSUME ReportInv, [Next]_vars, NEW r \in Requests, activeRequest' = r,
                    activeRequest # r
             PROVE  r \notin ops
  BY DEF Once
<1>n. r # None
  BY SentinelAssumption
<1>0. "worker" \in Actors
  BY DEF Actors
<1>1. ASSUME NEW a \in Actors, start_record(a) PROVE r \notin ops
  <2>1. run[a].pc = "entered" /\ run[a].kind = "new" /\ link[run[a].req] = None
        /\ r = run[a].req
    BY <1>1 DEF start_record, Link, pc
  <2>2. QED BY <2>1, StartsOnce
<1>2. CASE continue_submission
  <2>1. run["worker"].pc = "entered" /\ run["worker"].kind = "continue"
        /\ link[run["worker"].req] = None /\ r = run["worker"].req
    BY <1>2 DEF continue_submission, Link, pc
  <2>2. QED BY <1>0, <2>1, StartsOnce
<1>3. ASSUME NEW d \in Direct, resume_task(d) PROVE r \notin ops
  BY <1>3 DEF resume_task, Link
<1>4. CASE begin_classification \/ begin_auxiliary \/ begin_shell
  BY <1>4 DEF begin_classification, begin_auxiliary, begin_shell, ShellAdmissible, Unadmitted
<1>5. ASSUME NEW a \in Actors, NEW b \in BOOLEAN,
             finish_run(a, b) \/ end_task(a, b) \/ stop_failed(a, b) \/ settle_error(a)
      PROVE  FALSE
  BY <1>n, <1>5 DEF finish_run, end_task, stop_failed, settle_error, Settle
<1>6. ASSUME \/ settle_failed_classification \/ settle_auxiliary
             \/ (\E b \in BOOLEAN : publish_auxiliary(b) \/ finish_shell(b))
             \/ recover_interrupted
      PROVE  FALSE
  BY <1>n, <1>6 DEF settle_failed_classification, settle_auxiliary, publish_auxiliary,
     finish_shell, recover_interrupted
<1>7. ASSUME ClientStep PROVE FALSE
  BY <1>7 DEF ClientStep, submit, edit_submission, move_submission, cancel_submission,
     cancel_request, execute_request, cancel, shutdown_if_idle, others_acquire, crash,
     turnVars
<1>8. CASE WorkerStep
  BY <1>2, <1>4, <1>6, <1>8 DEF WorkerStep, enable_wake, claim, park, dispatch,
     classify_ordinary, classify_ordinary_call, route, load_shell, prepare_shell, shell_uncaptured,
     finish, turnVars
<1>9. ASSUME NEW a \in Actors, RunStep(a) PROVE r \notin ops
  BY <1>1, <1>5, <1>9 DEF RunStep, try_acquire, enter_active, admission_refused,
     accept_followups, complete, turn_fails, release, turnVars
<1>10. CASE (\E s \in Subs : wake_queue(s)) \/ others_release \/ RestartStep \/ UNCHANGED vars
  BY <1>6, <1>10 DEF wake_queue, others_release, RestartStep, recover_submissions,
     start_queued, vars, turnVars
<1>11. QED
  BY <1>3, <1>7, <1>8, <1>9, <1>10 DEF Next, HostStep

\* A request becomes the session's turn at most once over its life, restarts
\* and requeues included, and after shutdown_if_idle said yes nothing is
\* admitted, requeued or started.
THEOREM NothingReplayed == Spec => RequestsOnce
<1>1. ReportInv /\ [Next]_vars =>
        [\A r \in Requests : activeRequest' = r /\ activeRequest # r => r \notin ops]_vars
  BY OnceStep DEF Once
<1>2. ReportInv /\ [Next]_vars =>
        [~accepting /\ ~accepting' =>
           /\ ops' = ops /\ Pending' = {}
           /\ \A t \in TaskIds : tasks'[t] = tasks[t] \/ tasks'[t] = "cancelling"]_vars
  BY ShutdownStep DEF Unadmitting, ReportInv, Quiescent
<1>3. QED
  BY <1>1, <1>2, ReportInvariant, PTL DEF Spec, RequestsOnce, AtMostOnce, ShutdownQuiescent

-----------------------------------------------------------------------------
(* The order of the queue.  Retain keeps the entries of a set in their       *)
(* order: the rank of a position among those kept is a bijection, so nothing *)
(* is lost and nothing comes twice.                                          *)

LEMMA RetainFacts ==
    ASSUME NEW q \in Seq(Subs), IsInjective(q), NEW S \in SUBSET Subs
    PROVE  /\ Retain(q, S) \in Seq(Subs) /\ ToSet(Retain(q, S)) = ToSet(q) \cap S
           /\ IsInjective(Retain(q, S))
<1> DEFINE K == {n \in DOMAIN q : q[n] \in S}
           Below(n) == {m \in K : m <= n}
           c == Cardinality(K)
           at(k) == CHOOSE n \in K : Cardinality(Below(n)) = k
<1>1. /\ Len(q) \in Nat /\ DOMAIN q = 1..Len(q) /\ \A n \in DOMAIN q : q[n] \in Subs
      /\ \A a, b \in DOMAIN q : q[a] = q[b] => a = b
  BY DEF IsInjective
<1>2. K \subseteq 1..Len(q) /\ IsFiniteSet(K) /\ c \in Nat
  <2>1. IsFiniteSet(1..Len(q))
    BY <1>1, FS_Interval
  <2>2. K \subseteq 1..Len(q)
    BY <1>1
  <2> HIDE DEF K
  <2> QED BY <2>1, <2>2, FS_Subset, FS_CardinalityType
<1>3. \A n \in K : n \in Nat
  BY <1>1, <1>2
<1>4. Retain(q, S) = [k \in 1..c |-> q[at(k)]]
  BY DEF Retain
<1>5. \A n \in K : q[n] \in S /\ n \in DOMAIN q
  OBVIOUS
<1>6. \A n \in DOMAIN q : q[n] \in S => n \in K
  OBVIOUS
<1> HIDE DEF K
<1>7. \A n \in K : /\ Below(n) \subseteq K /\ n \in Below(n) /\ IsFiniteSet(Below(n))
                   /\ Cardinality(Below(n)) \in 1..c
  <2> TAKE n \in K
  <2>1. Below(n) \subseteq K /\ n \in Below(n)
    BY <1>3
  <2> HIDE DEF Below
  <2>2. /\ IsFiniteSet(Below(n)) /\ Cardinality(Below(n)) <= c /\ Cardinality(Below(n)) \in Nat
    BY <1>2, <2>1, FS_Subset, FS_CardinalityType
  <2>3. Cardinality(Below(n)) # 0
    BY <2>1, <2>2, FS_EmptySet
  <2> QED BY <1>2, <2>1, <2>2, <2>3
<1>8. \A a, b \in K : a < b => Cardinality(Below(a)) < Cardinality(Below(b))
  <2> SUFFICES ASSUME NEW a \in K, NEW b \in K, a < b
               PROVE  Cardinality(Below(a)) < Cardinality(Below(b))
    OBVIOUS
  <2>1. Below(a) \subseteq Below(b) /\ b \notin Below(a)
    BY <1>3
  <2>2. b \in Below(b) /\ IsFiniteSet(Below(b)) /\ Cardinality(Below(b)) \in 1..c /\ Cardinality(Below(a)) \in 1..c
    BY <1>7
  <2> HIDE DEF Below
  <2>3. Cardinality(Below(a)) <= Cardinality(Below(b))
    BY <2>1, <2>2, FS_Subset
  <2>4. Cardinality(Below(a)) # Cardinality(Below(b))
    BY <2>1, <2>2, FS_Subset
  <2> QED BY <1>2, <2>2, <2>3, <2>4
<1>9. \A a, b \in K : Cardinality(Below(a)) = Cardinality(Below(b)) => a = b
  <2> SUFFICES ASSUME NEW a \in K, NEW b \in K, Cardinality(Below(a)) = Cardinality(Below(b)) PROVE a = b
    OBVIOUS
  <2>1. a \in Nat /\ b \in Nat /\ Cardinality(Below(a)) \in 1..c
    BY <1>3, <1>7
  <2>2. \A x \in Nat : ~(x < x)
    OBVIOUS
  <2>3. Cardinality(Below(a)) \in Nat
    BY <1>2, <2>1
  <2>4. ~(a < b) /\ ~(b < a)
    BY <1>8, <2>2, <2>3, Zenon
  <2> QED BY <2>1, <2>4
<1>10. \A k \in 1..c : \E n \in K : Cardinality(Below(n)) = k
  <2> DEFINE f == [n \in K |-> Cardinality(Below(n))]
  <2>1. f \in Injection(K, 1..c)
    <3>1. f \in [K -> 1..c]
      BY <1>7
    <3>2. IsInjective(f)
      BY <1>9 DEF IsInjective
    <3> QED BY <3>1, <3>2 DEF Injection
  <2>2. IsFiniteSet(1..c) /\ Cardinality(1..c) = c
    <3>1. 1 \in Int /\ c \in Int
      BY <1>2
    <3>2. /\ IsFiniteSet(1..c) /\ Cardinality(1..c) = IF 1 > c THEN 0 ELSE c - 1 + 1
      BY <3>1, FS_Interval, Zenon
    <3> HIDE DEF c
    <3> QED BY <1>2, <3>2
  <2>3. f \in Surjection(K, 1..c)
    BY <2>1, <2>2, FS_Injection, Zenon
  <2>4. \A k \in 1..c : \E n \in K : f[n] = k
    BY <2>3 DEF Surjection
  <2> QED BY <2>4
<1>11. \A k \in 1..c : at(k) \in K /\ Cardinality(Below(at(k))) = k
  BY <1>10
<1>12. \A n \in K : at(Cardinality(Below(n))) = n
  BY <1>7, <1>9, <1>11
<1> HIDE DEF c, at, Below
<1> DEFINE R == [k \in 1..c |-> q[at(k)]]
<1>13. R \in Seq(Subs) /\ DOMAIN R = 1..c
  <2>1. R \in [1..c -> Subs]
    BY <1>1, <1>5, <1>11
  <2> HIDE DEF R
  <2> QED BY <1>2, <2>1
<1>14. ToSet(R) = ToSet(q) \cap S
  <2>1. ToSet(R) \subseteq ToSet(q) \cap S
    BY <1>5, <1>11, <1>13 DEF ToSet
  <2>2. ASSUME NEW n \in DOMAIN q, q[n] \in S PROVE q[n] \in ToSet(R)
    <3>1. n \in K /\ Cardinality(Below(n)) \in 1..c
      BY <1>6, <1>7, <2>2
    <3>2. R[Cardinality(Below(n))] = q[n]
      BY <1>12, <3>1
    <3> QED BY <1>13, <3>1, <3>2 DEF ToSet
  <2> QED BY <2>1, <2>2 DEF ToSet
<1>15. IsInjective(R)
  <2> SUFFICES ASSUME NEW a \in 1..c, NEW b \in 1..c, R[a] = R[b] PROVE a = b
    BY <1>13 DEF IsInjective
  <2>1. at(a) = at(b)
    BY <1>1, <1>5, <1>11
  <2> QED BY <1>11, <2>1
<1> HIDE DEF R
<1>16. Retain(q, S) = R
  BY <1>4 DEF R
<1> QED BY <1>13, <1>14, <1>15, <1>16

\* queue_order of SessionState is exactly the pending submissions.
OrderInv == order \in Seq(Subs) /\ QueueConsistent

LEMMA OrderStays == ASSUME OrderInv, UNCHANGED <<order, status>> PROVE OrderInv'
BY DEF OrderInv, QueueConsistent, Pending, ToSet, IsInjective

\* A submission that is settled leaves the order, one that is claimed or put
\* back keeps its place.
LEMMA ChangedOrder ==
    ASSUME OrderInv, NEW S \in SUBSET Pending, NEW st \in Statuses \ {"none"}, SubmissionChanged(S, st)
    PROVE  OrderInv'
<1>1. /\ order \in Seq(Subs) /\ IsInjective(order) /\ ToSet(order) = Pending /\ Pending \subseteq Subs
  BY DEF OrderInv, QueueConsistent, Pending
<1>2. CASE st \in {"queued", "running"}
  <2>1. order' = order /\ Pending' = Pending
    BY <1>2 DEF SubmissionChanged, Pending
  <2> QED BY <1>1, <2>1 DEF OrderInv, QueueConsistent, ToSet, IsInjective
<1>3. CASE st \notin {"queued", "running"}
  <2>1. order' = Retain(order, Subs \ S) /\ Pending' = Pending \cap (Subs \ S)
    BY <1>3 DEF SubmissionChanged, Pending
  <2>2. /\ order' \in Seq(Subs) /\ ToSet(order') = ToSet(order) \cap (Subs \ S) /\ IsInjective(order')
    <3>1. Subs \ S \in SUBSET Subs
      OBVIOUS
    <3> QED BY <1>1, <2>1, <3>1, RetainFacts
  <2> QED BY <1>1, <2>1, <2>2 DEF OrderInv, QueueConsistent
<1> QED BY <1>2, <1>3

\* A place for a submission that has none.
LEMMA InsertOrder ==
    ASSUME NEW q \in Seq(Subs), IsInjective(q), NEW s \in Subs, s \notin ToSet(q),
           NEW i \in 1..(Len(q) + 1)
    PROVE  /\ InsertAt(q, i, s) \in Seq(Subs) /\ IsInjective(InsertAt(q, i, s))
           /\ ToSet(InsertAt(q, i, s)) = ToSet(q) \cup {s}
<1> DEFINE r == InsertAt(q, i, s)
           n == Len(q)
<1>1. n \in Nat /\ DOMAIN q = 1..n /\ \A k \in 1..n : q[k] \in Subs /\ q[k] # s
  BY DEF ToSet
<1>2. /\ r \in Seq(Subs) /\ Len(r) = n + 1
      /\ \A k \in 1..(n + 1) : r[k] = IF k < i THEN q[k] ELSE IF k = i THEN s ELSE q[k - 1]
  <2> DEFINE A == SubSeq(q, 1, i - 1)
             B == SubSeq(q, i, n)
  <2>0. i \in Nat /\ i \in 1..(n + 1)
    OBVIOUS
  <2>1. A \in Seq(Subs) /\ Len(A) = i - 1 /\ \A k \in 1..(i - 1) : A[k] = q[k]
    BY <1>1, <2>0
  <2>2. B \in Seq(Subs) /\ Len(B) = n - i + 1 /\ \A k \in 1..(n - i + 1) : B[k] = q[i + k - 1]
    BY <1>1, <2>0
  <2>3. r = A \o <<s>> \o B
    BY DEF InsertAt
  <2> HIDE DEF A, B, r, n
  <2>4. /\ A \o <<s>> \in Seq(Subs) /\ Len(A \o <<s>>) = i
        /\ (A \o <<s>>)[i] = s /\ \A k \in 1..(i - 1) : (A \o <<s>>)[k] = q[k]
    BY <1>1, <2>0, <2>1
  <2>5. /\ r \in Seq(Subs) /\ Len(r) = n + 1
        /\ \A k \in 1..i : r[k] = (A \o <<s>>)[k]
        /\ \A k \in (i + 1)..(n + 1) : r[k] = B[k - i]
    BY <1>1, <2>0, <2>2, <2>3, <2>4
  <2>6. ASSUME NEW k \in (i + 1)..(n + 1) PROVE r[k] = q[k - 1]
    <3>1. k - i \in 1..(n - i + 1) /\ i + (k - i) - 1 = k - 1
      BY <1>1, <2>0
    <3> QED BY <2>2, <2>5, <3>1
  <2>7. ASSUME NEW k \in 1..(n + 1)
        PROVE  r[k] = IF k < i THEN q[k] ELSE IF k = i THEN s ELSE q[k - 1]
    <3>1. CASE k < i
      <4>1. k \in 1..(i - 1) /\ k \in 1..i
        BY <2>0, <3>1
      <4> QED BY <2>4, <2>5, <3>1, <4>1
    <3>2. CASE k = i
      BY <2>0, <2>4, <2>5, <3>2
    <3>3. CASE k > i
      <4>1. k \in (i + 1)..(n + 1)
        BY <1>1, <2>0, <3>3
      <4> QED BY <2>0, <2>6, <3>3, <4>1
    <3> QED BY <2>0, <3>1, <3>2, <3>3
  <2> QED BY <2>5, <2>7
<1>3. DOMAIN r = 1..(n + 1) /\ \A a, b \in 1..n : q[a] = q[b] => a = b
  BY <1>1, <1>2 DEF IsInjective
<1> HIDE DEF r, n
<1>4. \A k \in 1..(n + 1) :
        \/ k = i /\ r[k] = s
        \/ \E m \in 1..n : r[k] = q[m] /\ (IF k < i THEN m = k ELSE m = k - 1 /\ k # i)
  BY <1>1, <1>2
<1>5. \A m \in 1..n : \E k \in 1..(n + 1) : r[k] = q[m]
  <2> TAKE m \in 1..n
  <2>1. CASE m < i
    BY <1>1, <1>2, <2>1
  <2>2. CASE ~(m < i)
    <3>1. m + 1 \in 1..(n + 1) /\ ~(m + 1 < i) /\ m + 1 # i /\ (m + 1) - 1 = m
      BY <1>1, <2>2
    <3> QED BY <1>2, <3>1
  <2> QED BY <2>1, <2>2
<1>6. IsInjective(r)
  <2> SUFFICES ASSUME NEW a \in 1..(n + 1), NEW b \in 1..(n + 1), r[a] = r[b] PROVE a = b
    BY <1>3 DEF IsInjective
  <2>1. CASE a = i \/ b = i
    BY <1>1, <1>2, <1>4, <2>1
  <2>2. CASE a # i /\ b # i
    <3>1. PICK x \in 1..n : r[a] = q[x] /\ (IF a < i THEN x = a ELSE x = a - 1)
      BY <1>4, <2>2
    <3>2. PICK y \in 1..n : r[b] = q[y] /\ (IF b < i THEN y = b ELSE y = b - 1)
      BY <1>4, <2>2
    <3>3. x = y
      BY <1>3, <3>1, <3>2
    <3> QED BY <1>1, <2>2, <3>1, <3>2, <3>3
  <2> QED BY <2>1, <2>2
<1>7. ToSet(r) = ToSet(q) \cup {s}
  <2>1. ToSet(r) \subseteq ToSet(q) \cup {s}
    BY <1>1, <1>3, <1>4 DEF ToSet
  <2>2. ToSet(q) \subseteq ToSet(r)
    BY <1>1, <1>3, <1>5 DEF ToSet
  <2>3. s \in ToSet(r)
    <3>1. i \in 1..(n + 1) /\ r[i] = s
      BY <1>1, <1>2 DEF n
    <3> QED BY <1>3, <3>1 DEF ToSet
  <2> QED BY <2>1, <2>2, <2>3
<1> QED BY <1>2, <1>6, <1>7 DEF r

\* The end and the front of the queue are places, too.
LEMMA EndsOrder ==
    ASSUME NEW q \in Seq(Subs), IsInjective(q), NEW s \in Subs, s \notin ToSet(q)
    PROVE  /\ Append(q, s) \in Seq(Subs) /\ IsInjective(Append(q, s))
           /\ ToSet(Append(q, s)) = ToSet(q) \cup {s}
           /\ <<s>> \o q \in Seq(Subs) /\ IsInjective(<<s>> \o q)
           /\ ToSet(<<s>> \o q) = ToSet(q) \cup {s}
<1>1. /\ Len(q) \in Nat /\ DOMAIN q = 1..Len(q)
      /\ \A k \in 1..Len(q) : q[k] \in Subs /\ q[k] # s
      /\ \A a, b \in 1..Len(q) : q[a] = q[b] => a = b
  BY DEF ToSet, IsInjective
<1>2. /\ Append(q, s) \in Seq(Subs) /\ IsInjective(Append(q, s))
      /\ ToSet(Append(q, s)) = ToSet(q) \cup {s}
  <2> DEFINE r == Append(q, s)
  <2>1. /\ r \in Seq(Subs) /\ DOMAIN r = 1..(Len(q) + 1) /\ r[Len(q) + 1] = s
        /\ \A k \in 1..Len(q) : r[k] = q[k]
    BY <1>1
  <2> HIDE DEF r
  <2>2. \A k \in DOMAIN r : k \in 1..Len(q) \/ k = Len(q) + 1
    BY <1>1, <2>1
  <2>3. \A k \in 1..Len(q) : k \in DOMAIN r
    BY <1>1, <2>1
  <2>4. Len(q) + 1 \in DOMAIN r
    BY <1>1, <2>1
  <2>5. IsInjective(r)
    BY <1>1, <2>1, <2>2 DEF IsInjective
  <2>6. ToSet(r) = ToSet(q) \cup {s}
    BY <1>1, <2>1, <2>2, <2>3, <2>4 DEF ToSet
  <2> QED BY <2>1, <2>5, <2>6 DEF r
<1>3. /\ <<s>> \o q \in Seq(Subs) /\ IsInjective(<<s>> \o q)
      /\ ToSet(<<s>> \o q) = ToSet(q) \cup {s}
  <2> DEFINE r == <<s>> \o q
  <2>1. /\ r \in Seq(Subs) /\ DOMAIN r = 1..(Len(q) + 1) /\ r[1] = s
        /\ \A k \in 2..(Len(q) + 1) : r[k] = q[k - 1]
    BY <1>1
  <2> HIDE DEF r
  <2>2. \A k \in DOMAIN r : k = 1 \/ (k \in 2..(Len(q) + 1) /\ k - 1 \in 1..Len(q))
    BY <1>1, <2>1
  <2>3. \A k \in 1..Len(q) : k + 1 \in DOMAIN r /\ r[k + 1] = q[k]
    <3> TAKE k \in 1..Len(q)
    <3>1. k + 1 \in 2..(Len(q) + 1) /\ (k + 1) - 1 = k /\ k + 1 \in 1..(Len(q) + 1)
      BY <1>1
    <3> QED BY <2>1, <3>1
  <2>4. 1 \in DOMAIN r
    BY <1>1, <2>1
  <2>5. IsInjective(r)
    <3> SUFFICES ASSUME NEW a \in DOMAIN r, NEW b \in DOMAIN r, r[a] = r[b] PROVE a = b
      BY DEF IsInjective
    <3>1. CASE a = 1 \/ b = 1
      BY <1>1, <2>1, <2>2, <3>1
    <3>2. CASE a # 1 /\ b # 1
      <4>1. /\ a \in 2..(Len(q) + 1) /\ a - 1 \in 1..Len(q) /\ r[a] = q[a - 1]
            /\ b \in 2..(Len(q) + 1) /\ b - 1 \in 1..Len(q) /\ r[b] = q[b - 1]
        BY <2>1, <2>2, <3>2
      <4>2. a - 1 = b - 1
        BY <1>1, <4>1
      <4> QED BY <4>1, <4>2
    <3> QED BY <3>1, <3>2
  <2>6. ToSet(r) = ToSet(q) \cup {s}
    <3>1. ToSet(r) \subseteq ToSet(q) \cup {s}
      BY <1>1, <2>1, <2>2 DEF ToSet
    <3>2. ToSet(q) \cup {s} \subseteq ToSet(r)
      BY <1>1, <2>1, <2>3, <2>4 DEF ToSet
    <3> QED BY <3>1, <3>2
  <2> QED BY <2>1, <2>5, <2>6 DEF r
<1> QED BY <1>2, <1>3

\* A pending submission is taken out and put in another place.
LEMMA WithoutOrder ==
    ASSUME OrderInv, NEW s \in Pending
    PROVE  LET rest == Retain(order, Subs \ {s})
           IN  /\ rest \in Seq(Subs) /\ IsInjective(rest) /\ ToSet(rest) = Pending \ {s}
               /\ s \notin ToSet(rest) /\ s \in Subs
<1>1. Subs \ {s} \in SUBSET Subs /\ s \in Subs /\ Pending \subseteq Subs
  BY DEF Pending
<1>2. order \in Seq(Subs) /\ IsInjective(order) /\ ToSet(order) = Pending
  BY DEF OrderInv, QueueConsistent
<1> DEFINE rest == Retain(order, Subs \ {s})
<1>3. rest \in Seq(Subs) /\ IsInjective(rest) /\ ToSet(rest) = Pending \cap (Subs \ {s})
  BY <1>1, <1>2, RetainFacts
<1> HIDE DEF rest
<1>4. rest \in Seq(Subs) /\ IsInjective(rest) /\ ToSet(rest) = Pending \ {s} /\ s \notin ToSet(rest)
  BY <1>1, <1>3
<1> QED BY <1>1, <1>4 DEF rest

LEMMA SubmitOrder ==
    ASSUME OrderInv, QueueType, NEW s \in Subs, NEW i \in Inputs, NEW steer \in BOOLEAN, submit(s, i, steer)
    PROVE  OrderInv'
<1>1. CASE UNCHANGED queueVars
  BY <1>1, OrderStays DEF queueVars
<1>2. CASE /\ status[s] = "none" /\ status' = [status EXCEPT ![s] = "queued"]
           /\ order' = Append(order, s)
  <2>1. order \in Seq(Subs) /\ IsInjective(order) /\ ToSet(order) = Pending /\ s \notin Pending
    BY <1>2 DEF OrderInv, QueueConsistent, Pending
  <2>2. /\ order' \in Seq(Subs) /\ IsInjective(order') /\ ToSet(order') = Pending \cup {s}
    BY <1>2, <2>1, EndsOrder
  <2>3. Pending' = Pending \cup {s}
    BY <1>2 DEF QueueType, Pending
  <2> QED BY <2>2, <2>3 DEF OrderInv, QueueConsistent
<1> QED BY <1>1, <1>2 DEF submit

LEMMA EditOrder ==
    ASSUME OrderInv, NEW s \in Subs, NEW i \in Inputs \cup {None}, edit_submission(s, i)
    PROVE  OrderInv'
<1>1. /\ status[s] = "queued" /\ status' = status
      /\ order' = IF i = None THEN Promote(s) ELSE order
  BY DEF edit_submission, Editable
<1>2. CASE i # None
  BY <1>1, <1>2, OrderStays
<1>3. CASE i = None
  <2> DEFINE rest == Retain(order, Subs \ {s})
  <2>1. s \in Pending
    BY <1>1 DEF Pending
  <2>2. /\ rest \in Seq(Subs) /\ IsInjective(rest) /\ ToSet(rest) = Pending \ {s}
        /\ s \notin ToSet(rest) /\ s \in Subs
    BY <2>1, WithoutOrder
  <2>3. order' = <<s>> \o rest
    BY <1>1, <1>3 DEF Promote
  <2> HIDE DEF rest
  <2>4. order' \in Seq(Subs) /\ IsInjective(order') /\ ToSet(order') = ToSet(rest) \cup {s}
    BY <2>2, <2>3, EndsOrder
  <2>5. ToSet(order') = Pending /\ Pending' = Pending
    BY <1>1, <2>1, <2>2, <2>4 DEF Pending
  <2> QED BY <2>4, <2>5 DEF OrderInv, QueueConsistent
<1> QED BY <1>2, <1>3

LEMMA MoveOrder ==
    ASSUME OrderInv, NEW s \in Subs, NEW b \in Subs \cup {None}, move_submission(s, b)
    PROVE  OrderInv'
<1> DEFINE rest == Retain(order, Subs \ {s})
           n == CHOOSE n \in DOMAIN rest : rest[n] = b
<1>1. /\ status[s] = "queued" /\ status' = status /\ b # s /\ (b # None => status[b] = "queued")
      /\ order' = IF b = None THEN Append(rest, s) ELSE InsertAt(rest, n, s)
  BY DEF move_submission
<1>2. s \in Pending
  BY <1>1 DEF Pending
<1>3. /\ rest \in Seq(Subs) /\ IsInjective(rest) /\ ToSet(rest) = Pending \ {s}
      /\ s \notin ToSet(rest) /\ s \in Subs
  BY <1>2, WithoutOrder
<1> HIDE DEF rest
<1>4. order' \in Seq(Subs) /\ IsInjective(order') /\ ToSet(order') = ToSet(rest) \cup {s}
  <2>1. CASE b = None
    BY <1>1, <1>3, <2>1, EndsOrder
  <2>2. CASE b # None
    <3>1. b \in ToSet(rest)
      BY <1>1, <1>3, <2>2 DEF Pending
    <3>2. \E m \in DOMAIN rest : rest[m] = b
      BY <3>1 DEF ToSet
    <3>3. n \in DOMAIN rest
      BY <3>2
    <3> HIDE DEF n
    <3>4. n \in 1..(Len(rest) + 1)
      BY <1>3, <3>3
    <3> QED BY <1>1, <1>3, <2>2, <3>4, InsertOrder
  <2> QED BY <2>1, <2>2
<1>5. ToSet(order') = Pending /\ Pending' = Pending
  BY <1>1, <1>2, <1>3, <1>4 DEF Pending
<1> QED BY <1>4, <1>5 DEF OrderInv, QueueConsistent

LEMMA RecoverOrder == ASSUME OrderInv, QueueType, recover_submissions PROVE OrderInv'
<1> DEFINE S == {s \in Subs : status'[s] \in {"queued", "running"}}
<1>1. order' = Retain(order, S) /\ S \in SUBSET Subs /\ Pending' = S
  BY DEF recover_submissions, Pending
<1>2. S \subseteq Pending
  BY DEF recover_submissions, Pending, Recovered, QueueType
<1>3. order \in Seq(Subs) /\ IsInjective(order) /\ ToSet(order) = Pending
  BY DEF OrderInv, QueueConsistent
<1> HIDE DEF S
<1>4. order' \in Seq(Subs) /\ IsInjective(order') /\ ToSet(order') = Pending \cap S
  BY <1>1, <1>3, RetainFacts
<1>5. ToSet(order') = Pending'
  BY <1>1, <1>2, <1>4
<1> QED BY <1>4, <1>5 DEF OrderInv, QueueConsistent

\* The worker claims what is queued and records the end of what is running.
LEMMA FinishOrder == ASSUME ReportInv, OrderInv, claim \/ finish PROVE OrderInv'
<1>1. CASE claim
  <2>1. CASE UNCHANGED queueVars
    BY <2>1, OrderStays DEF queueVars
  <2>2. CASE \E s \in next_submission : SubmissionChanged({s}, "running")
    <3>1. PICK s \in next_submission : SubmissionChanged({s}, "running")
      BY <2>2
    <3>2. {s} \in SUBSET Pending
      BY <3>1 DEF next_submission, Queued, Pending
    <3> QED BY <3>1, <3>2, ChangedOrder DEF Statuses
  <2> QED BY <1>1, <2>1, <2>2 DEF claim
<1>2. CASE finish
  <2>1. CASE UNCHANGED queueVars
    BY <2>1, OrderStays DEF queueVars
  <2>2. CASE /\ status[W.req] # "cancelled"
             /\ \E st \in {"queued", "finished", "failed"} : SubmissionChanged({W.req}, st)
    <3>1. W.req \in Subs /\ Working
      <4>1. W.pc = "finish" /\ "worker" \in Actors
        BY <1>2 DEF finish, pc, W, Actors
      <4> QED BY <4>1 DEF Working, Resting, W, ReportInv, TurnInv, Records, Record, WorkerRecord
    <3>2. status[W.req] = "running"
      BY <2>2, <3>1 DEF ReportInv, Hand, InHand
    <3>3. {W.req} \in SUBSET Pending
      BY <3>1, <3>2 DEF Pending
    <3> QED BY <2>2, <3>3, ChangedOrder DEF Statuses
  <2> QED BY <1>2, <2>1, <2>2 DEF finish, W
<1> QED BY <1>1, <1>2

LEMMA CancelOrder ==
    ASSUME OrderInv, cancel \/ \E s \in Subs : cancel_submission(s)
    PROVE  OrderInv'
<1>1. CASE cancel
  <2>1. Queued \in SUBSET Pending
    BY DEF Queued, Pending
  <2> QED BY <1>1, <2>1, ChangedOrder DEF cancel, Statuses
<1>2. ASSUME NEW s \in Subs, cancel_submission(s) PROVE OrderInv'
  <2>1. {s} \in SUBSET Pending
    BY <1>2 DEF cancel_submission, Pending
  <2> QED BY <1>2, <2>1, ChangedOrder DEF cancel_submission, Statuses
<1> QED BY <1>1, <1>2

LEMMA OrderStep == ReportInv /\ OrderInv /\ [Next]_vars => OrderInv'
<1> SUFFICES ASSUME ReportInv, OrderInv, [Next]_vars PROVE OrderInv'
  OBVIOUS
<1>0. QueueType
  BY DEF ReportInv, TurnInv
<1>1. ASSUME NEW s \in Subs, NEW i \in Inputs, NEW steer \in BOOLEAN, submit(s, i, steer) PROVE OrderInv'
  BY <1>0, <1>1, SubmitOrder
<1>2. ASSUME NEW s \in Subs, NEW i \in Inputs \cup {None}, edit_submission(s, i) PROVE OrderInv'
  BY <1>2, EditOrder
<1>3. ASSUME NEW s \in Subs, NEW b \in Subs \cup {None}, move_submission(s, b) PROVE OrderInv'
  BY <1>3, MoveOrder
<1>4. CASE claim \/ finish
  BY <1>4, FinishOrder
<1>5. CASE cancel \/ \E s \in Subs : cancel_submission(s)
  BY <1>5, CancelOrder
<1>6. CASE recover_submissions
  BY <1>0, <1>6, RecoverOrder
<1>7. CASE UNCHANGED queueVars
  BY <1>7, OrderStays DEF queueVars
<1> QED BY <1>1, <1>2, <1>3, <1>4, <1>5, <1>6, <1>7, QueueMoves

LEMMA OrderInvariant == Spec => []OrderInv
<1>1. Init => OrderInv
  BY DEF Init, OrderInv, QueueConsistent, Pending, ToSet, IsInjective
<1> QED BY <1>1, OrderStep, ReportInvariant, PTL DEF Spec

\* queue_order of the session is the pending submissions, once each, whatever
\* is submitted, promoted, moved, cancelled, put back or recovered, for any
\* number of submissions and restarts.
THEOREM QueueOrdered == Spec => []QueueConsistent
<1>1. OrderInv => QueueConsistent
  BY DEF OrderInv
<1> QED BY <1>1, OrderInvariant, PTL

\* Every variable of the session and of its host has its type.
THEOREM SessionTypeCorrect == Spec => []TypeOK
<1>1. /\ QueueType /\ TurnType /\ TaskType /\ RunType /\ HostType /\ PermitType /\ OrderInv
      => TypeOK
  BY DEF TypeOK, OrderInv
<1> QED BY <1>1, SessionTypes, OrderInvariant, PTL
=============================================================================
