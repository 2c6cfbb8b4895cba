-------------------------- MODULE SubmissionQueue --------------------------
(***************************************************************************)
(* One session of the host: the durable submission queue, the queue worker *)
(* that serves it, the requests executed directly over IPC, and restarts   *)
(* (harness/src/store/submissions.rs, controller/submissions.rs, the       *)
(* session half of store.rs, store/manual.rs, store/auxiliary.rs and       *)
(* Host::execute_task_request / execute_shell / execute_auxiliary).        *)
(*                                                                         *)
(* A store call is one SQLite transaction under the store's lock: one      *)
(* step.  Every await between two lock acquisitions is a boundary between  *)
(* steps, so clients, the worker, direct requests and crashes interleave   *)
(* there.  What a turn does inside the task is module Task; here a task is *)
(* its outcome.  Cancelling a token only makes a turn end sooner, and a    *)
(* turn may end at any time in this model, so tokens carry no flag.        *)
(* queue_stop is never cancelled outside tests and is left out.            *)
(***************************************************************************)
EXTENDS Naturals, Sequences, FiniteSets, SequencesExt

CONSTANTS
    Subs,           \* submission ids
    Direct,         \* ids of requests executed without the queue
    Intent,         \* WorkIntent of a submission, TaskRequest of a direct id
    TaskIds,
    Inputs,         \* digests of prepared inputs
    None,
    Capacity,       \* pending submissions a session admits (16 in the code)
    Permits,        \* concurrent runs of the host (4 in the code)
    Circumstances,  \* what may happen outside the session's own queue
    MaxCrashes

Requests == Subs \cup Direct
Actors == {"worker"} \cup Direct
\* Other sessions hold permits; a task is left with unresolved jobs or
\* attempts; the last call of an answer passes its allowance; a command leaves
\* a tree the snapshot refuses.
Contended == "contended" \in Circumstances
Unreconciled == "unreconciled" \in Circumstances
Overspent == "overspent" \in Circumstances
Oversized == "oversized" \in Circumstances

SubIntents == {"new", "ordinary", "continue", "shell", "auxiliary"}

ASSUME IntentAssumption ==
    /\ Subs \cap Direct = {} /\ "worker" \notin Direct
    /\ Intent \in [Requests -> SubIntents \cup {"resume"}]
    /\ \A s \in Subs : Intent[s] \in SubIntents
    /\ \A d \in Direct : Intent[d] \in {"new", "resume"}
ASSUME BoundsAssumption ==
    /\ Capacity \in Nat /\ Permits \in Nat \ {0} /\ MaxCrashes \in Nat
ASSUME SentinelAssumption ==
    None \notin Requests \cup TaskIds \cup Inputs \cup Actors

VARIABLES
    \* durable: SessionState and the outcomes of its tasks
    status,         \* SubmissionStatus; "none": not accepted yet
    input, initial, \* Submission.input and .initial_input
    target,         \* the task a Continue names
    order,          \* queue_order
    ops,            \* requests whose id is a recorded operation
    activeRequest,
    classified,     \* the observed classification of an ordinary request
    results,        \* submissions with a published report
    current,        \* current_task
    link,           \* tasks_by_request
    tasks,          \* "absent" "open" "cancelling" "complete" "stopped"
    directive,      \* follow-up text registered with the task
    entered,        \* follow-ups that are part of the accepted contract
    pendingTask, pendingShell,
    \* volatile: Host
    run,            \* what the queue worker and each direct request is doing
    active,         \* owner of the session's entry in Host::active
    permits, others,    \* free permits; permits held by other sessions
    notified,       \* the worker's enabled queue_wake future has fired
    wakes,          \* handlers that are about to call wake_queue
    stale,          \* the scope of the task moved since the run read it
    accepting, host,
    crashes,
    used            \* history: the input a request was admitted with

queueVars == <<status, input, initial, target, order>>
turnVars == <<ops, activeRequest, classified, results, link, used>>
taskVars == <<current, tasks, directive, entered, pendingTask, pendingShell>>
ownVars == <<active, permits, notified, stale>>
envVars == <<others, wakes, accepting, host, crashes>>
hostVars == <<run, ownVars, envVars>>
vars == <<queueVars, turnVars, taskVars, hostVars>>

Idle == [pc |-> "off", req |-> None, kind |-> "none", input |-> None,
         seen |-> None, was |-> "none", result |-> "none"]

Init ==
    /\ status = [s \in Subs |-> "none"]
    /\ input = [s \in Subs |-> None] /\ initial = [s \in Subs |-> None]
    /\ target = [s \in Subs |-> None] /\ order = <<>>
    /\ ops = {} /\ activeRequest = None /\ results = {}
    /\ classified = [s \in Subs |-> "none"]
    /\ link = [r \in Requests |-> None] /\ used = [s \in Subs |-> None]
    /\ current = None /\ tasks = [t \in TaskIds |-> "absent"]
    /\ directive = [s \in Subs |-> None] /\ entered = {}
    /\ pendingTask = FALSE /\ pendingShell = FALSE
    /\ run = [a \in Actors |-> Idle] /\ active = None
    /\ permits = Permits /\ others = 0
    /\ notified = FALSE /\ wakes = {} /\ stale = FALSE
    /\ accepting = TRUE /\ host = "up" /\ crashes = 0

Up == host = "up"
Pending == {s \in Subs : status[s] \in {"queued", "running"}}
Queued == {s \in Subs : status[s] = "queued"}
OpenTask(t) == tasks[t] \in {"open", "cancelling"}

\* TaskEvent::DirectiveReceived / DirectiveReplaced on the current task: the
\* task has no outcome any more and whoever read its scope is out of date.
Redirect(s, i) ==
    /\ directive' = [directive EXCEPT ![s] = i]
    /\ tasks' = [tasks EXCEPT ![current] =
                    IF @ = "cancelling" THEN @ ELSE "open"]
    /\ stale' = TRUE

-----------------------------------------------------------------------------
(* Clients *)

\* Host::submit.  A repeated id with the same input only wakes the queue.
submit(s, i, steer) ==
    /\ Up /\ accepting
    /\ \/ /\ status[s] # "none" /\ initial[s] = i /\ ~steer
          /\ UNCHANGED <<queueVars, taskVars, stale>>
       \/ /\ status[s] = "none"
          /\ Cardinality(Pending) < Capacity
          /\ Intent[s] = "continue" => current # None
          /\ status' = [status EXCEPT ![s] = "queued"]
          /\ input' = [input EXCEPT ![s] = i]
          /\ initial' = [initial EXCEPT ![s] = i]
          /\ target' = [target EXCEPT ![s] =
                            IF Intent[s] = "continue" THEN current ELSE None]
          /\ order' = Append(order, s)
          /\ IF steer
             THEN Intent[s] = "continue" /\ Redirect(s, i)
             ELSE UNCHANGED <<directive, tasks, stale>>
          /\ UNCHANGED <<current, entered, pendingTask, pendingShell>>
    /\ wakes' = wakes \cup {s}
    /\ UNCHANGED <<turnVars, run, active, permits, others, notified,
                   accepting, host, crashes>>

\* Mutant: a claimed input may still change.
Editable_bug(s) == status[s] \in {"queued", "running"}

\* Only a queued input may change.
Editable(s) == status[s] = "queued"

\* Vec::retain: the entries of q that are in S, in their order.
Retain(q, S) ==
    LET kept == {n \in DOMAIN q : q[n] \in S}
    IN  [k \in 1..Cardinality(kept) |->
            q[CHOOSE n \in kept : Cardinality({m \in kept : m <= n}) = k]]

\* SessionCommand::QueueEdited with no input promotes the submission.
Promote(s) == <<s>> \o Retain(order, Subs \ {s})

\* Host::edit_submission; i = None steers the submission as it is.
edit_submission(s, i) ==
    LET replacement == IF i = None THEN input[s] ELSE i
    IN  /\ Up /\ accepting
        /\ Editable(s)
        /\ Intent[s] = "continue" => current = target[s] /\ s \notin entered
        /\ IF Intent[s] = "continue" /\ (directive[s] # None \/ i = None)
           THEN Redirect(s, replacement)
           ELSE UNCHANGED <<directive, tasks, stale>>
        /\ input' = [input EXCEPT ![s] = replacement]
        /\ order' = IF i = None THEN Promote(s) ELSE order
        /\ wakes' = wakes \cup {s}
        /\ UNCHANGED <<status, initial, target, turnVars, current, entered,
                       pendingTask, pendingShell, run, active, permits, others,
                       notified, accepting, host, crashes>>

\* Store::move_submission; before = None moves to the end.
move_submission(s, before) ==
    LET rest == Retain(order, Subs \ {s})
    IN  /\ Up /\ status[s] = "queued"
        /\ before # s /\ (before # None => status[before] = "queued")
        /\ order' = IF before = None THEN Append(rest, s)
                    ELSE InsertAt(rest, CHOOSE n \in DOMAIN rest : rest[n] = before, s)
        /\ UNCHANGED <<status, input, initial, target, turnVars, taskVars, hostVars>>

\* Mutant: a settled submission stays in the order.
SubmissionChanged_bug(S, st) ==
    /\ status' = [s \in Subs |-> IF s \in S THEN st ELSE status[s]]
    /\ UNCHANGED <<order, input, initial, target>>

\* SessionCommand::SubmissionChanged: a settled submission leaves the queue.
SubmissionChanged(S, st) ==
    /\ status' = [s \in Subs |-> IF s \in S THEN st ELSE status[s]]
    /\ order' = IF st \in {"queued", "running"} THEN order
                ELSE Retain(order, Subs \ S)
    /\ UNCHANGED <<input, initial, target>>

\* Host::cancel_submission before admission; once the request is the active
\* one it asks for cancel_request instead.
cancel_submission(s) ==
    /\ Up
    /\ status[s] = "queued" \/ (status[s] = "running" /\ s \notin ops)
    /\ SubmissionChanged({s}, "cancelled")
    /\ UNCHANGED <<turnVars, taskVars, hostVars>>

\* Store::request_cancellation on a task that has no outcome.
RequestCancellation(t) ==
    tasks' = [tasks EXCEPT ![t] = IF @ = "open" THEN "cancelling" ELSE @]

cancel_request(r) ==
    /\ Up /\ activeRequest = r
    /\ link[r] # None /\ Intent[r] # "shell"
    /\ RequestCancellation(link[r])
    /\ UNCHANGED <<queueVars, turnVars, current, directive, entered,
                   pendingTask, pendingShell, hostVars>>

\* Host::cancel: everything queued, and the current task.
cancel ==
    /\ Up
    /\ SubmissionChanged(Queued, "cancelled")
    /\ IF current # None THEN RequestCancellation(current) ELSE UNCHANGED tasks
    /\ UNCHANGED <<turnVars, current, directive, entered, pendingTask,
                   pendingShell, hostVars>>

shutdown_if_idle ==
    /\ Up /\ active = None /\ others = 0 /\ Pending = {}
    /\ accepting' = FALSE
    /\ UNCHANGED <<queueVars, turnVars, taskVars, run, active, permits, others,
                   notified, wakes, stale, host, crashes>>

\* The other sessions of the host take and give back the shared permits.
others_acquire ==
    /\ Up /\ Contended /\ permits > 0
    /\ permits' = permits - 1 /\ others' = others + 1
    /\ UNCHANGED <<queueVars, turnVars, taskVars, run, active, notified, wakes,
                   stale, accepting, host, crashes>>
others_release ==
    /\ Up /\ others > 0
    /\ permits' = permits + 1 /\ others' = others - 1 /\ notified' = TRUE
    /\ UNCHANGED <<queueVars, turnVars, taskVars, run, active, wakes, stale,
                   accepting, host, crashes>>

-----------------------------------------------------------------------------
(* The queue worker *)

pc(a) == run[a].pc
Goto(a, p) == run' = [run EXCEPT ![a].pc = p]
Result(a, p, r) == run' = [run EXCEPT ![a].pc = p, ![a].result = r]

\* The worker is done with its submission.
Rest(p) == run' = [run EXCEPT !["worker"] = [Idle EXCEPT !.pc = p]]

\* Host::wake_queue: at most one worker per session.
wake_queue(s) ==
    /\ Up /\ s \in wakes
    /\ wakes' = wakes \ {s}
    /\ IF pc("worker") = "off" THEN Goto("worker", "loop") ELSE UNCHANGED run
    /\ notified' = TRUE
    /\ UNCHANGED <<queueVars, turnVars, taskVars, active, permits, stale,
                   others, accepting, host, crashes>>

\* run_queue: the future is enabled before the queue is looked at.
enable_wake ==
    /\ Up /\ pc("worker") = "loop"
    /\ Goto("worker", "check") /\ notified' = FALSE
    /\ UNCHANGED <<queueVars, turnVars, taskVars, active, permits, stale, envVars>>

\* The first queued submission in the queue's order, if there is one.
next_submission ==
    {s \in Queued : \E n \in DOMAIN order :
                      order[n] = s /\ \A m \in 1..(n - 1) : order[m] \notin Queued}

\* run_queue: with the workers, active and store locks held, wait for the
\* session to be free, leave, or claim the first queued submission.
claim ==
    /\ Up /\ pc("worker") = "check"
    /\ \/ /\ active # None
          /\ Goto("worker", "park") /\ UNCHANGED queueVars
       \/ /\ active = None /\ next_submission = {}
          /\ run' = [run EXCEPT !["worker"] = Idle] /\ UNCHANGED queueVars
       \/ /\ active = None
          /\ \E s \in next_submission :
                 /\ SubmissionChanged({s}, "running")
                 /\ run' = [run EXCEPT !["worker"] =
                        [Idle EXCEPT !.pc = "claimed", !.req = s,
                                     !.kind = Intent[s], !.input = input[s]]]
    /\ UNCHANGED <<turnVars, taskVars, ownVars, envVars>>

park ==
    /\ Up /\ pc("worker") = "park" /\ notified
    /\ Goto("worker", "loop")
    /\ UNCHANGED <<queueVars, turnVars, taskVars, ownVars, envVars>>

\* run_queue: only an ordinary input is classified first; the session is read
\* before the classification.
dispatch ==
    /\ Up /\ pc("worker") = "claimed"
    /\ run' = [run EXCEPT !["worker"].pc =
                    IF run["worker"].kind = "ordinary" THEN "classify" ELSE "enter",
                !["worker"].seen = current]
    /\ UNCHANGED <<queueVars, turnVars, taskVars, ownVars, envVars>>

\* Host::classify_ordinary registers its token; it takes no permit.
classify_ordinary ==
    /\ Up /\ pc("worker") = "classify"
    /\ IF active # None
       THEN Result("worker", "unclassified", "busy") /\ UNCHANGED active
       ELSE Goto("worker", "begin") /\ active' = "worker"
    /\ UNCHANGED <<queueVars, turnVars, taskVars, permits, notified, stale, envVars>>

\* Mutant: a request that was admitted once is admitted again.
Unadmitted_bug(s) == status[s] = "running" /\ activeRequest = None

\* Not cancelled, nothing active, never admitted before.
Unadmitted(s) == status[s] = "running" /\ activeRequest = None /\ s \notin ops

begin_classification ==
    LET s == run["worker"].req
    IN  /\ Up /\ pc("worker") = "begin"
        /\ \/ /\ Unadmitted(s)
              /\ ops' = ops \cup {s} /\ activeRequest' = s
              /\ Goto("worker", "classifying") /\ UNCHANGED active
           \/ /\ ~Unadmitted(s)
              /\ Result("worker", "unclassified", "error") /\ active' = None
              /\ UNCHANGED <<ops, activeRequest>>
        /\ UNCHANGED <<queueVars, classified, results, link, used, taskVars,
                       permits, notified, stale, envVars>>

\* The provider names a kind, or the classification fails closed.
classify_ordinary_call(k) ==
    /\ Up /\ pc("worker") = "classifying"
    /\ active' = None
    /\ IF k = "none"
       THEN Result("worker", "unclassified", "error") /\ UNCHANGED classified
       ELSE /\ Goto("worker", "routed")
            /\ classified' = [classified EXCEPT ![run["worker"].req] = k]
    /\ UNCHANGED <<queueVars, ops, activeRequest, results, link, used, taskVars,
                   permits, notified, stale, envVars>>

\* The failed turn is settled if it ever became the active one.
settle_failed_classification ==
    /\ Up /\ pc("worker") = "unclassified"
    /\ activeRequest' = IF activeRequest = run["worker"].req THEN None ELSE activeRequest
    /\ Goto("worker", "finish")
    /\ UNCHANGED <<queueVars, ops, classified, results, link, used, taskVars,
                   ownVars, envVars>>

\* Only the task seen before the classification decides between a
\* continuation and a new task.
route ==
    LET k == classified[run["worker"].req]
        seen == run["worker"].seen
    IN  /\ Up /\ pc("worker") = "routed"
        /\ run' = [run EXCEPT !["worker"].pc = "enter",
                !["worker"].kind =
                    IF k = "information" THEN "answer"
                    ELSE IF seen # None /\ tasks[seen] # "complete"
                    THEN "continue" ELSE "new"]
        /\ UNCHANGED <<queueVars, turnVars, taskVars, ownVars, envVars>>

-----------------------------------------------------------------------------
(* One execution, by the worker or by a direct request: execute_task_request,
   execute_shell, execute_auxiliary. *)

\* An IPC handler starts (or repeats) a direct request.
execute_request(d) ==
    /\ Up /\ pc(d) = "off"
    /\ run' = [run EXCEPT ![d] = [Idle EXCEPT !.pc = "enter", !.req = d,
                                              !.kind = Intent[d]]]
    /\ UNCHANGED <<queueVars, turnVars, taskVars, ownVars, envVars>>

\* A direct caller gets the error; the worker records it.
Refuse(a, r) == IF a = "worker" THEN Result(a, "finish", r)
                ELSE run' = [run EXCEPT ![a] = Idle]

\* Mutant: the limit on concurrent runs is not checked.
try_acquire_bug(a) ==
    /\ Up /\ pc(a) = "enter"
    /\ Goto(a, "permitted") /\ permits' = permits - 1
    /\ UNCHANGED <<queueVars, turnVars, taskVars, active, notified, stale, envVars>>

try_acquire(a) ==
    /\ Up /\ pc(a) = "enter"
    /\ IF permits = 0 THEN Refuse(a, "busy") /\ UNCHANGED permits
       ELSE Goto(a, "permitted") /\ permits' = permits - 1
    /\ UNCHANGED <<queueVars, turnVars, taskVars, active, notified, stale, envVars>>

\* Mutant: the session's entry is overwritten.
SessionFree_bug == TRUE

SessionFree == active = None

enter_active(a) ==
    /\ Up /\ pc(a) = "permitted"
    /\ \/ /\ ~accepting
          /\ Refuse(a, "error") /\ permits' = permits + 1 /\ UNCHANGED active
       \/ /\ accepting /\ ~SessionFree
          /\ Refuse(a, "busy") /\ permits' = permits + 1 /\ UNCHANGED active
       \/ /\ accepting /\ SessionFree
          /\ Goto(a, "entered") /\ active' = a /\ UNCHANGED permits
    /\ UNCHANGED <<queueVars, turnVars, taskVars, notified, stale, envVars>>

\* An Input and a TaskLinked command in one transaction with the task's event.
Link(r, t, i) ==
    /\ ops' = ops \cup {r} /\ activeRequest' = r
    /\ link' = [link EXCEPT ![r] = t]
    /\ current' = t /\ tasks' = [tasks EXCEPT ![t] = "open"]
    /\ pendingTask' = TRUE /\ stale' = FALSE
    /\ used' = IF r \in Subs THEN [used EXCEPT ![r] = i] ELSE used

\* start_record: an ordinary request may already be the active one.
Startable(r) ==
    /\ activeRequest = None
       \/ (activeRequest = r /\ r \in Subs /\ Intent[r] = "ordinary")
    /\ ~pendingShell
    /\ r \in Subs => status[r] = "running" /\ run["worker"].input = input[r]

start_record(a) ==
    LET r == run[a].req
    IN  /\ Up /\ pc(a) = "entered" /\ run[a].kind = "new"
        /\ link[r] = None /\ Startable(r)
        /\ \E t \in TaskIds : tasks[t] = "absent" /\ Link(r, t, run[a].input)
        /\ Goto(a, "running")
        /\ UNCHANGED <<queueVars, classified, results, directive, entered,
                       pendingShell, active, permits, notified, envVars>>

\* The task a continuation is for.
Continued(s) == IF Intent[s] = "continue" THEN target[s] ELSE current

Continuable(s) ==
    /\ Continued(s) # None /\ current = Continued(s)
    /\ ~pendingShell /\ status[s] = "running"
    /\ activeRequest \in {None, s}

\* continue_submission_record
continue_submission ==
    LET s == run["worker"].req
    IN  /\ Up /\ pc("worker") = "entered" /\ run["worker"].kind = "continue"
        /\ link[s] = None /\ Continuable(s)
        /\ directive' = [directive EXCEPT ![s] = IF @ = None THEN input[s] ELSE @]
        /\ Link(s, Continued(s), input[s])
        /\ Goto("worker", "running")
        /\ UNCHANGED <<queueVars, classified, results, entered, pendingShell,
                       active, permits, notified, envVars>>

resume_task(d) ==
    /\ Up /\ pc(d) = "entered" /\ run[d].kind = "resume"
    /\ link[d] = None /\ activeRequest = None /\ d \notin ops
    /\ \E t \in {link[r] : r \in Requests} \ {None} :
            tasks[t] = "stopped" /\ Link(d, t, None)
    /\ Goto(d, "running")
    /\ UNCHANGED <<queueVars, classified, results, directive, entered,
                   pendingShell, active, permits, notified, envVars>>

\* begin_auxiliary: an answer to an ordinary request keeps the turn its
\* classification opened.
begin_auxiliary ==
    LET s == run["worker"].req
    IN  /\ Up /\ pc("worker") = "entered"
        /\ \/ run["worker"].kind = "auxiliary" /\ Unadmitted(s)
           \/ /\ run["worker"].kind = "answer" /\ status[s] = "running"
              /\ activeRequest = s /\ classified[s] # "none"
        /\ ops' = ops \cup {s} /\ activeRequest' = s
        /\ used' = [used EXCEPT ![s] = input[s]]
        /\ Goto("worker", "running")
        /\ UNCHANGED <<queueVars, classified, results, link, taskVars, ownVars, envVars>>

\* execute_shell reads the command, prepares its workspace and then reads the
\* scope of the task.
load_shell ==
    /\ Up /\ pc("worker") = "entered" /\ run["worker"].kind = "shell"
    /\ run' = [run EXCEPT !["worker"].pc = "loaded",
                          !["worker"].input = input[run["worker"].req]]
    /\ UNCHANGED <<queueVars, turnVars, taskVars, ownVars, envVars>>

prepare_shell ==
    /\ Up /\ pc("worker") = "loaded"
    /\ Goto("worker", "prepared") /\ stale' = FALSE
    /\ UNCHANGED <<queueVars, turnVars, taskVars, active, permits, notified, envVars>>

\* The source is settled and the scope is the one that was read.
ShellAdmissible(s) ==
    /\ Unadmitted(s) /\ ~pendingTask /\ ~pendingShell
    /\ current # None => ~stale

begin_shell ==
    LET s == run["worker"].req
    IN  /\ Up /\ pc("worker") = "prepared" /\ ShellAdmissible(s)
        /\ ops' = ops \cup {s} /\ activeRequest' = s
        /\ link' = [link EXCEPT ![s] = current]
        /\ tasks' = IF current = None THEN tasks
                    ELSE [tasks EXCEPT ![current] = "open"]
        /\ pendingTask' = (current # None) /\ pendingShell' = TRUE
        /\ used' = [used EXCEPT ![s] = run["worker"].input]
        /\ Goto("worker", "running")
        /\ UNCHANGED <<queueVars, classified, results, current, directive,
                       entered, ownVars, envVars>>

\* An admission that is refused or repeated: the store's guards, unresolved
\* jobs and attempts of the task, or a request that is already linked.
admission_refused(a) ==
    LET r == run[a].req
        k == run[a].kind
    IN  /\ Up /\ pc(a) \in {"entered", "prepared"}
        /\ \/ k = "new" /\ (link[r] # None \/ ~Startable(r))
           \/ k = "continue" /\ (~Continuable(r) \/ Unreconciled)
           \/ k = "resume" /\ ~(link[r] = None /\ activeRequest = None /\
                    \E q \in Requests : link[q] # None /\ tasks[link[q]] = "stopped")
           \/ k = "resume" /\ Unreconciled
           \/ k = "auxiliary" /\ ~Unadmitted(r)
           \/ k = "answer" /\ ~(status[r] = "running" /\ activeRequest = r)
           \/ k = "shell" /\ pc(a) = "prepared"
                /\ (~ShellAdmissible(r) \/ (Unreconciled /\ current # None))
        /\ IF k \in {"new", "continue", "resume"}
           THEN IF link[r] # None THEN Result(a, "done", "ok") ELSE Result(a, "failing", "error")
           ELSE Result(a, "done", "error")
        /\ UNCHANGED <<queueVars, turnVars, taskVars, ownVars, envVars>>

-----------------------------------------------------------------------------
(* The turn, its settlement and its release *)

Turn(a) == pc(a) = "running" /\ run[a].kind \in {"new", "continue", "resume"}
FollowUps(t) == {s \in Subs : directive[s] # None /\ t \in {target[s], link[s]}}

\* admit_proposal: the turn still has the scope it started with.
accept_followups(a) ==
    /\ Up /\ Turn(a) /\ ~stale
    /\ ~(FollowUps(link[run[a].req]) \subseteq entered)
    /\ entered' = entered \cup FollowUps(link[run[a].req])
    /\ UNCHANGED <<queueVars, turnVars, current, tasks, directive, pendingTask,
                   pendingShell, hostVars>>

\* Store::complete; the turn is settled by finish_run, later.
complete(a) ==
    LET t == link[run[a].req]
    IN  /\ Up /\ Turn(a) /\ ~stale /\ tasks[t] = "open"
        /\ FollowUps(t) \subseteq entered
        /\ tasks' = [tasks EXCEPT ![t] = "complete"]
        /\ Goto(a, "completed")
        /\ UNCHANGED <<queueVars, turnVars, current, directive, entered,
                       pendingTask, pendingShell, ownVars, envVars>>

\* save_task_workspace and TurnSettled with the task's outcome.
Settle(saved) ==
    /\ activeRequest' = None
    /\ pendingTask' = (pendingTask /\ ~saved)

\* finish_run: refused if a follow-up took the outcome back meanwhile.
finish_run(a, saved) ==
    /\ Up /\ pc(a) = "completed"
    /\ \/ /\ tasks[link[run[a].req]] = "complete"
          /\ Settle(saved) /\ Result(a, "done", "ok")
       \/ /\ tasks[link[run[a].req]] # "complete" /\ saved
          /\ Result(a, "failing", "error") /\ UNCHANGED <<activeRequest, pendingTask>>
    /\ UNCHANGED <<queueVars, ops, classified, results, link, used, current, tasks,
                   directive, entered, pendingShell, ownVars, envVars>>

\* end_task: superseded, cancelled, out of budget, blocked.
end_task(a, saved) ==
    /\ Up /\ Turn(a)
    /\ tasks' = [tasks EXCEPT ![link[run[a].req]] = "stopped"]
    /\ Settle(saved) /\ Result(a, "done", "ok")
    /\ UNCHANGED <<queueVars, ops, classified, results, link, used, current,
                   directive, entered, pendingShell, ownVars, envVars>>

\* run_contract returns an error in the middle of a turn.
turn_fails(a) ==
    /\ Up /\ Turn(a) /\ Result(a, "failing", "error")
    /\ UNCHANGED <<queueVars, turnVars, taskVars, ownVars, envVars>>

\* execute_task_request's error path: the turn ends if it has no task, and is
\* left as it is if the task has an outcome or its tree cannot be captured.
settle_error(a) ==
    LET r == run[a].req
        live == activeRequest = r /\ current # None /\ OpenTask(current)
    IN  /\ Up /\ pc(a) = "failing"
        /\ \/ /\ activeRequest # r \/ (current # None /\ ~OpenTask(current)) \/ (live /\ Oversized)
              /\ Goto(a, "done") /\ UNCHANGED <<activeRequest, pendingTask, stale>>
           \/ /\ activeRequest = r /\ current = None
              /\ Settle(FALSE) /\ Goto(a, "done") /\ UNCHANGED stale
           \/ /\ live /\ stale' = FALSE
              /\ run' = [run EXCEPT ![a].pc = "stopping", ![a].was = tasks[current]]
              /\ UNCHANGED <<activeRequest, pendingTask>>
        /\ UNCHANGED <<queueVars, ops, classified, results, link, used, current, tasks,
                       directive, entered, pendingShell, active, permits, notified, envVars>>

\* Store::stop at the revision that was read with the checkpoint of the
\* workspace: a follow-up or a cancellation that came meanwhile refuses it, and
\* the turn stays active.
stop_failed(a, saved) ==
    /\ Up /\ pc(a) = "stopping"
    /\ \/ /\ stale \/ tasks[current] # run[a].was
          /\ Goto(a, "done") /\ UNCHANGED <<activeRequest, tasks, pendingTask>>
       \/ /\ ~stale /\ tasks[current] = run[a].was
          /\ tasks' = [tasks EXCEPT ![current] = "stopped"]
          /\ IF link[run[a].req] = None
             THEN Goto(a, "done") /\ UNCHANGED <<activeRequest, pendingTask>>
             ELSE Settle(saved) /\ Result(a, "done", "ok")
    /\ UNCHANGED <<queueVars, ops, classified, results, link, used, current,
                   directive, entered, pendingShell, ownVars, envVars>>

\* publish_auxiliary, first commit; a completed answer over its allowance is
\* refused.
publish_auxiliary(refused) ==
    LET s == run["worker"].req
    IN  /\ Up /\ pc("worker") = "running"
        /\ run["worker"].kind \in {"auxiliary", "answer"}
        /\ IF refused
           THEN Overspent /\ Result("worker", "done", "error") /\ UNCHANGED results
           ELSE Goto("worker", "published") /\ results' = results \cup {s}
        /\ UNCHANGED <<queueVars, ops, activeRequest, classified, link, used,
                       taskVars, ownVars, envVars>>

\* Mutant: the turn of a published report is not settled.
settle_auxiliary_bug ==
    /\ Up /\ pc("worker") = "published" /\ Result("worker", "done", "ok")
    /\ UNCHANGED <<queueVars, turnVars, taskVars, ownVars, envVars>>

\* publish_auxiliary, second commit.
settle_auxiliary ==
    /\ Up /\ pc("worker") = "published"
    /\ activeRequest' = None /\ Result("worker", "done", "ok")
    /\ UNCHANGED <<queueVars, ops, classified, results, link, used, taskVars,
                   ownVars, envVars>>

\* finish_shell; an unknown outcome keeps the shell pending, and a follow-up
\* that came meanwhile keeps its source from being adopted.
finish_shell(known) ==
    LET s == run["worker"].req
        adopted == known /\ (current # None => ~stale)
    IN  /\ Up /\ pc("worker") = "running" /\ run["worker"].kind = "shell"
        /\ tasks' = IF current = None THEN tasks
                    ELSE [tasks EXCEPT ![current] = "stopped"]
        /\ results' = results \cup {s} /\ activeRequest' = None
        /\ pendingShell' = ~known /\ pendingTask' = (pendingTask /\ ~adopted)
        /\ Result("worker", "done", IF known THEN "ok" ELSE "error")
        /\ UNCHANGED <<queueVars, ops, classified, link, used, current, directive,
                       entered, ownVars, envVars>>

\* execute_shell: the tree the command left cannot be captured, so nothing is
\* published and the error leaves the turn and the shell as they are.
shell_uncaptured ==
    /\ Up /\ pc("worker") = "running" /\ run["worker"].kind = "shell" /\ Oversized
    /\ Result("worker", "done", "error")
    /\ UNCHANGED <<queueVars, turnVars, taskVars, ownVars, envVars>>

\* The session and the permit are given back before the queue records the end.
release(a) ==
    /\ Up /\ pc(a) = "done"
    /\ active' = None /\ permits' = permits + 1 /\ notified' = TRUE
    /\ IF a = "worker" THEN Goto(a, "finish") ELSE run' = [run EXCEPT ![a] = Idle]
    /\ UNCHANGED <<queueVars, turnVars, taskVars, stale, envVars>>

\* run_queue: record how the claimed submission ended.
finish ==
    LET s == run["worker"].req
        r == run["worker"].result
    IN  /\ Up /\ pc("worker") = "finish"
        /\ IF status[s] = "cancelled"
           THEN Rest("loop") /\ UNCHANGED queueVars
           ELSE IF r = "busy"
           THEN Rest("park") /\ SubmissionChanged({s}, "queued")
           ELSE Rest("loop")
                /\ SubmissionChanged({s}, IF r = "ok" THEN "finished" ELSE "failed")
        /\ UNCHANGED <<turnVars, taskVars, ownVars, envVars>>

-----------------------------------------------------------------------------
(* Restart *)

crash ==
    /\ crashes < MaxCrashes
    /\ crashes' = crashes + 1 /\ host' = "interrupted"
    /\ run' = [a \in Actors |-> Idle] /\ active' = None
    /\ permits' = Permits /\ others' = 0
    /\ notified' = FALSE /\ wakes' = {} /\ stale' = FALSE /\ accepting' = TRUE
    /\ UNCHANGED <<queueVars, turnVars, taskVars>>

\* Open tasks are interrupted and the active request is settled.
recover_interrupted ==
    /\ host = "interrupted" /\ host' = "requeue"
    /\ tasks' = [t \in TaskIds |-> IF OpenTask(t) THEN "stopped" ELSE tasks[t]]
    /\ activeRequest' = None
    /\ UNCHANGED <<queueVars, ops, classified, results, link, used, current,
                   directive, entered, pendingTask, pendingShell, run, ownVars,
                   others, wakes, accepting, crashes>>

\* A running submission whose id is no operation never began.
Recovered(s) == IF s \in ops THEN "interrupted" ELSE "queued"

recover_submissions ==
    /\ host = "requeue" /\ host' = "start"
    /\ status' = [s \in Subs |-> IF status[s] = "running" THEN Recovered(s) ELSE status[s]]
    /\ order' = Retain(order, {s \in Subs : status'[s] \in {"queued", "running"}})
    /\ UNCHANGED <<input, initial, target, turnVars, taskVars, run, ownVars,
                   others, wakes, accepting, crashes>>

\* Mutant: a restarted host waits for the next wake-up.
start_queued_bug ==
    /\ host = "start" /\ host' = "up"
    /\ UNCHANGED <<queueVars, turnVars, taskVars, run, ownVars, others, wakes,
                   accepting, crashes>>

start_queued ==
    /\ host = "start" /\ host' = "up"
    /\ IF Queued # {} THEN Goto("worker", "loop") ELSE UNCHANGED run
    /\ UNCHANGED <<queueVars, turnVars, taskVars, ownVars, others, wakes,
                   accepting, crashes>>

-----------------------------------------------------------------------------
ClientStep ==
    \/ \E s \in Subs, i \in Inputs, steer \in BOOLEAN : submit(s, i, steer)
    \/ \E s \in Subs, i \in Inputs \cup {None} : edit_submission(s, i)
    \/ \E s \in Subs, b \in Subs \cup {None} : move_submission(s, b)
    \/ \E s \in Subs : cancel_submission(s)
    \/ \E r \in Requests : cancel_request(r)
    \/ \E d \in Direct : execute_request(d)
    \/ cancel
    \/ shutdown_if_idle
    \/ others_acquire
    \/ crash

WorkerStep ==
    \/ enable_wake \/ claim \/ park \/ dispatch
    \/ classify_ordinary \/ begin_classification
    \/ \E k \in {"none", "information", "action"} : classify_ordinary_call(k)
    \/ settle_failed_classification \/ route
    \/ continue_submission \/ begin_auxiliary \/ load_shell \/ prepare_shell \/ begin_shell
    \/ \E b \in BOOLEAN : publish_auxiliary(b) \/ finish_shell(b)
    \/ settle_auxiliary \/ shell_uncaptured \/ finish

RunStep(a) ==
    \/ try_acquire(a) \/ enter_active(a) \/ start_record(a)
    \/ admission_refused(a) \/ accept_followups(a) \/ complete(a)
    \/ \E b \in BOOLEAN : finish_run(a, b) \/ end_task(a, b) \/ stop_failed(a, b)
    \/ turn_fails(a) \/ settle_error(a) \/ release(a)

RestartStep == recover_interrupted \/ recover_submissions \/ start_queued

HostStep ==
    \/ WorkerStep
    \/ \E a \in Actors : RunStep(a)
    \/ \E d \in Direct : resume_task(d)
    \/ \E s \in Subs : wake_queue(s)
    \/ others_release
    \/ RestartStep

Next == ClientStep \/ HostStep

\* The tasks of the host's runtime keep running, every turn ends (a provider
\* call has a deadline, a turn has a budget) and a restarted host recovers.
Fairness ==
    /\ WF_vars(WorkerStep \/ RunStep("worker"))
    /\ \A d \in Direct : WF_vars(RunStep(d) \/ resume_task(d))
    /\ \A s \in Subs : WF_vars(wake_queue(s))
    /\ WF_vars(others_release)
    /\ WF_vars(RestartStep)

Spec == Init /\ [][Next]_vars /\ Fairness

-----------------------------------------------------------------------------
(* Properties *)

Statuses == {"none", "queued", "running", "cancelled", "finished", "failed",
             "interrupted"}
Pcs == {"off", "loop", "check", "park", "claimed", "classify", "begin",
        "classifying", "unclassified", "routed", "enter", "permitted", "entered",
        "loaded", "prepared", "running", "completed", "failing", "stopping",
        "published", "done", "finish"}
Runs == [pc : Pcs, req : Requests \cup {None},
         kind : SubIntents \cup {"none", "answer", "resume"},
         input : Inputs \cup {None}, seen : TaskIds \cup {None},
         was : {"none", "open", "cancelling"},
         result : {"none", "ok", "error", "busy"}]

QueueType == /\ status \in [Subs -> Statuses]
             /\ input \in [Subs -> Inputs \cup {None}]
             /\ initial \in [Subs -> Inputs \cup {None}]
             /\ target \in [Subs -> TaskIds \cup {None}]
TurnType == /\ ops \subseteq Requests /\ activeRequest \in Requests \cup {None}
            /\ classified \in [Subs -> {"none", "information", "action"}]
            /\ results \subseteq Subs
            /\ link \in [Requests -> TaskIds \cup {None}]
            /\ used \in [Subs -> Inputs \cup {None}]
TaskType == /\ current \in TaskIds \cup {None}
            /\ tasks \in [TaskIds -> {"absent", "open", "cancelling", "complete",
                                      "stopped"}]
            /\ directive \in [Subs -> Inputs \cup {None}]
            /\ entered \subseteq Subs
            /\ pendingTask \in BOOLEAN /\ pendingShell \in BOOLEAN
RunType == run \in [Actors -> Runs] /\ active \in Actors \cup {None}
HostType == /\ notified \in BOOLEAN /\ wakes \subseteq Subs /\ stale \in BOOLEAN
            /\ accepting \in BOOLEAN
            /\ host \in {"up", "interrupted", "requeue", "start"}
            /\ crashes \in 0..MaxCrashes
PermitType == permits \in 0..Permits /\ others \in 0..Permits

\* Every piece of the session and of the host has its type, and no more permits
\* are free or taken than Host::runs has.
TypeOK == /\ QueueType /\ order \in Seq(Subs) /\ TurnType /\ TaskType
          /\ RunType /\ HostType /\ PermitType

Held == {"permitted", "entered", "loaded", "prepared", "running", "completed",
         "failing", "stopping", "published", "done"}
Holders == {a \in Actors : pc(a) \in Held}

\* No permit of Host::runs is leaked or given back twice, whichever way an
\* execution ends.
PermitsExact == permits + others + Cardinality(Holders) = Permits

\* The queue order is exactly the pending submissions, once each, whatever is
\* submitted, promoted, moved, cancelled, requeued or recovered.
QueueConsistent ==
    /\ ToSet(order) = Pending
    /\ IsInjective(order)

\* A turn that is executing is the session's active request and its actor owns
\* the session: a direct request and the queue never run at the same time.
SingleTurn ==
    \A a \in Actors : pc(a) \in {"running", "completed", "published"} =>
        active = a /\ activeRequest = run[a].req

\* One turn at a time: the session has one owner and one active request, and
\* every run of the host is backed by exactly one permit, on every error path
\* of execute_task_request, execute_auxiliary and execute_shell.
OneTurn == PermitsExact /\ SingleTurn

\* A turn runs with exactly the text its submission now shows, and the task
\* holds the latest text of a steered follow-up, however edits race with the
\* worker's claim.
InputExact ==
    \A s \in Subs : /\ used[s] # None => used[s] = input[s]
                    /\ directive[s] # None => directive[s] = input[s]

\* A submission reported as cancelled never took effect as a turn.
CancelHonoured ==
    \A s \in Subs : status[s] = "cancelled" => link[s] = None /\ used[s] = None

\* A submission reported as finished without an error did run: it has a
\* published report or a task.
FinishedRan ==
    \A s \in Subs : status[s] = "finished" => s \in results \/ link[s] # None

\* A complete task covers every follow-up that was registered with it.
FollowUpsCovered ==
    \A t \in TaskIds : tasks[t] = "complete" => FollowUps(t) \subseteq entered

\* An error may leave the session with a turn that nobody will settle, but not
\* without a trace: the submission of such a turn is shown as failed, or it is
\* an ordinary request that was cancelled while it waited again after its
\* classification.  One that is shown as finished or interrupted gave the
\* session back.
AbandonedReported ==
    \A s \in Subs : Up /\ activeRequest = s /\ s \notin Pending =>
        status[s] = "failed" \/ (status[s] = "cancelled" /\ Intent[s] = "ordinary")

\* What the queue shows is true: a turn uses the text that is shown, a cancelled
\* submission never ran, a finished one did and gave the session back, and a
\* complete task covers every follow-up, however edits, cancellations and
\* restarts race with the worker.
ReportsTrue ==
    /\ InputExact /\ CancelHonoured /\ FinishedRan /\ FollowUpsCovered
    /\ AbandonedReported

\* A request becomes the session's turn at most once over its life, host
\* restarts and requeues included: work is never replayed.
AtMostOnce ==
    [][\A r \in Requests :
        activeRequest' = r /\ activeRequest # r => r \notin ops]_vars

\* After shutdown_if_idle said yes nothing is accepted or admitted, although
\* handlers and the worker may still be between two locks; all a task can still
\* get is the request to cancel it.
ShutdownQuiescent ==
    [][~accepting /\ ~accepting' =>
          /\ ops' = ops /\ Pending' = {}
          /\ \A t \in TaskIds : tasks'[t] = tasks[t] \/ tasks'[t] = "cancelling"]_vars

\* Nothing is replayed after a restart and nothing starts after the shutdown.
RequestsOnce == AtMostOnce /\ ShutdownQuiescent

\* The active request of a running host is a pending submission or a direct
\* request in flight: a session never keeps a turn that nobody will settle.
NoAbandonedTurn ==
    Up /\ activeRequest # None =>
        \/ activeRequest \in Pending
        \/ \E d \in Direct : run[d].req = activeRequest

\* Every accepted submission is eventually settled.
AllSettle == \A s \in Subs : s \in Pending ~> s \notin Pending
=============================================================================
