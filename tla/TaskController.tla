--------------------------- MODULE TaskController ---------------------------
(***************************************************************************)
(* One turn of a task: the provider loop, its tools, verification,         *)
(* delivery and the ways a turn ends (harness/src/controller/              *)
(* task_phases.rs and Host::execute_task_request, dispatch, freeze,        *)
(* verify, try_complete, end_task in controller.rs).                       *)
(*                                                                         *)
(* The store lock is released between the steps below, and the operator, a *)
(* child agent and the deadline commit in between.  The turn keeps the     *)
(* task it loaded: turn.fresh says that no one else has committed since,   *)
(* which is what predicates_match and the revision of a command compare.   *)
(* The aggregate itself is module Task; here it is what the controller     *)
(* asks of it.  Only this turn writes the working tree (children are       *)
(* read-only and a user shell needs the session), so a candidate is frozen *)
(* or absent.  Failures of the disk and of the store are left out.         *)
(***************************************************************************)
EXTENDS Naturals

CONSTANTS
    ModelCalls,         \* limits.model_calls
    UnknownAllowance,   \* unbilled calls whose windows use up limits.tokens
    MaxRetries,         \* MAX_RECOVERABLE_PROVIDER_RETRIES
    MaxProposals,       \* bound on tool calls in one response
    MaxFollowUps,       \* bound on follow-ups
    MaxChildJobs        \* bound on the jobs of the child

ASSUME TaskControllerAssumption ==
    /\ {ModelCalls, UnknownAllowance, MaxProposals} \subseteq Nat \ {0}
    /\ {MaxRetries, MaxFollowUps, MaxChildJobs} \subseteq Nat

VARIABLES
    turn,       \* what run_contract holds
    task,       \* the task and the session's active_request
    child,      \* a child agent of the turn
    followUps   \* follow-ups so far

tcVars == <<turn, task, child, followUps>>

Answers == {"proposals", "empty", "rejected", "undispatched", "failed"}
Ends == {"complete", "blocked", "budget", "cancelled", "failed", "unverified"}
TurnPcs == {"admit", "prepare", "preparing", "head", "context", "reserve", "respond",
            "receipt", "judge", "backoff", "record", "propose", "dispatch", "job",
            "reconcile", "freeze", "freezing", "check", "checking", "deliver",
            "delivering", "published", "finish", "settle", "ending", "checkpoint",
            "saving", "stop", "error", "left"}

Turn == [pc : TurnPcs,
         native : BOOLEAN,      \* native_tools.is_some()
         fresh : BOOLEAN,
         superseded : BOOLEAN,  \* scope_revision has moved since the admission
         discovery : BOOLEAN,   \* the phase read at the head of the loop
         retries : 0..MaxRetries,
         force : BOOLEAN, bitmap : BOOLEAN,
         answer : Answers \cup {"none"}, billed : BOOLEAN,
         todo : 0..MaxProposals, exclusive : BOOLEAN, mutates : BOOLEAN,
         goal : {"none", "verify", "complete", "recheck"},  \* why a tree is frozen
         end : Ends \cup {"none"},  \* the outcome end_task is to record
         failed : BOOLEAN,      \* on the error path of execute_task_request
         token : BOOLEAN, deadline : BOOLEAN]

Task == [active : BOOLEAN, outcome : Ends \cup {"none"},
         contract : {"none", "accepted", "amending"},
         candidate : BOOLEAN, evidence : {"none", "pass", "fail"},
         lease : BOOLEAN, delivered : BOOLEAN,
         job : {"none", "running", "unknown"},
         cancel : {"no", "wanted", "requested"}, elapsed : BOOLEAN,
         calls : 0..ModelCalls,     \* model_reservations
         receipts : 0..ModelCalls, unbilled : 0..ModelCalls]

Child == [state : {"none", "idle", "running", "over"}, cancelled : BOOLEAN,
          jobs : 0..MaxChildJobs]

TcTypeOK ==
    turn \in Turn /\ task \in Task /\ child \in Child /\ followUps \in 0..MaxFollowUps

TcInit ==
    /\ \E n \in BOOLEAN :
        turn = [pc |-> "admit", native |-> n, fresh |-> TRUE, superseded |-> FALSE,
                discovery |-> FALSE, retries |-> 0, force |-> FALSE, bitmap |-> FALSE,
                answer |-> "none", billed |-> TRUE, todo |-> 0, exclusive |-> FALSE,
                mutates |-> FALSE, goal |-> "none", end |-> "none", failed |-> FALSE,
                token |-> FALSE, deadline |-> FALSE]
    /\ \E c \in IF turn.native THEN {"none"} ELSE {"none", "accepted", "amending"} :
        task = [active |-> FALSE, outcome |-> "none", contract |-> c,
                candidate |-> FALSE, evidence |-> "none", lease |-> FALSE,
                delivered |-> FALSE, job |-> "none", cancel |-> "no",
                elapsed |-> FALSE, calls |-> 0, receipts |-> 0, unbilled |-> 0]
    /\ child = [state |-> "none", cancelled |-> FALSE, jobs |-> 0] /\ followUps = 0

At(p) == turn.pc = p
To(p) == [turn EXCEPT !.pc = p]
\* The locals of one pass through the loop go out of scope with it.
Leave(p) == [turn EXCEPT !.pc = p, !.answer = "none", !.billed = TRUE, !.todo = 0,
                !.exclusive = FALSE, !.mutates = FALSE, !.goal = "none",
                !.bitmap = FALSE, !.discovery = FALSE]
Loop == Leave("head")
\* The turn takes the lock and loads the task.
Load(p) == [turn EXCEPT !.pc = p, !.fresh = TRUE]
\* The call of end_task.
Ending(o) == [Leave("ending") EXCEPT !.end = o, !.fresh = TRUE, !.retries = 0,
                !.force = FALSE]
Fail == [Leave("error") EXCEPT !.retries = 0, !.force = FALSE]
\* TaskDeadline::cancellation_outcome
CancellationOutcome == IF turn.deadline THEN "budget" ELSE "cancelled"
TaskOpen == task.outcome = "none"
\* TaskState::invalidate
Invalidated(t) == [t EXCEPT !.evidence = "none", !.delivered = FALSE]
\* Store::admit_job
Admissible == TaskOpen /\ task.cancel # "requested" /\ ~task.elapsed
NoWriter == task.job = "none"

-----------------------------------------------------------------------------
(* Admission and the private workspace *)

\* task_phases::admit.  A repeated request only reads the recorded outcome.
admit ==
    /\ At("admit")
    /\ \/ turn' = To("left") /\ UNCHANGED task
       \/ /\ turn' = Load(IF turn.native THEN "head" ELSE "prepare")
          /\ task' = [task EXCEPT !.active = TRUE]
    /\ UNCHANGED <<child, followUps>>

\* prepare_isolated_workspace derives outside the lock and commits only what
\* was derived from the task as it still is.
prepare_isolated_workspace ==
    /\ \/ At("prepare") /\ turn' = Load("preparing")
       \/ At("preparing") /\ turn' = To(IF turn.fresh THEN "head" ELSE "prepare")
    /\ UNCHANGED <<task, child, followUps>>

-----------------------------------------------------------------------------
(* run_contract: one provider call *)

run_contract ==
    /\ At("head")
    /\ turn' = IF task.unbilled >= UnknownAllowance THEN Ending("budget")
               ELSE IF turn.superseded THEN Ending("blocked")
               ELSE IF turn.token THEN Ending(CancellationOutcome)
               ELSE [Load("context") EXCEPT !.discovery = task.contract # "accepted"]
    /\ UNCHANGED <<task, child, followUps>>

\* The projection, the tools and the input.  A forced native context is used
\* once; preparing the context fails when the turn is cancelled meanwhile.
prepare_turn_tools ==
    /\ At("context")
    /\ \/ \E b \in IF turn.force THEN {FALSE} ELSE BOOLEAN :
            turn' = [To("reserve") EXCEPT !.force = FALSE, !.bitmap = b]
       \/ turn.token /\ turn' = Fail
    /\ UNCHANGED <<task, child, followUps>>

\* Under the lock the scope is compared again, then the call is reserved.
reserve_model_call ==
    /\ At("reserve")
    /\ IF turn.superseded THEN turn' = Ending("blocked") /\ UNCHANGED task
       ELSE IF task.cancel = "requested"
            THEN turn' = Ending("cancelled") /\ UNCHANGED task
       ELSE IF task.calls = ModelCalls \/ task.elapsed
            THEN turn' = Ending("budget") /\ UNCHANGED task
       ELSE /\ turn' = Load("respond")
            /\ task' = [task EXCEPT !.calls = @ + 1]
    /\ UNCHANGED <<child, followUps>>

\* ResponsesClient::respond.  Only a bitmap context is refused undispatched,
\* and then without a charge.
respond ==
    /\ At("respond")
    /\ \E a \in Answers, b \in BOOLEAN :
        /\ a = "undispatched" => turn.bitmap /\ b
        /\ turn' = [To("receipt") EXCEPT !.answer = a, !.billed = b]
    /\ UNCHANGED <<task, child, followUps>>

\* record_model_call: every attempt gets its receipt, billed or not.
record_model_call ==
    /\ At("receipt") /\ turn' = To("judge")
    /\ task' = [task EXCEPT !.receipts = @ + 1,
                            !.unbilled = IF turn.billed THEN @ ELSE @ + 1]
    /\ UNCHANGED <<child, followUps>>

\* What follows from the answer: another context, the end of the turn, a
\* retry, or its use.
judge ==
    /\ At("judge")
    /\ turn' = IF turn.answer = "undispatched" THEN [Loop EXCEPT !.force = TRUE]
               ELSE IF turn.superseded THEN Ending("blocked")
               ELSE IF turn.answer = "rejected" /\ turn.retries < MaxRetries /\ ~turn.token
                    THEN [Load("backoff") EXCEPT !.retries = @ + 1]
               ELSE IF turn.answer \in {"rejected", "failed"}
                    THEN Ending(IF turn.token THEN CancellationOutcome ELSE "failed")
               ELSE IF ~turn.billed THEN Ending("budget")
               ELSE [Load("record") EXCEPT !.retries = 0]
    /\ UNCHANGED <<task, child, followUps>>

\* wait_for_provider_retry: a cancellation ends the wait and the turn.
wait_for_provider_retry ==
    /\ At("backoff")
    /\ \/ turn' = Loop
       \/ turn.token /\ turn' = Ending(CancellationOutcome)
    /\ UNCHANGED <<task, child, followUps>>

\* Usage and response are recorded; usage beyond the limits ends the turn.
record_response ==
    /\ At("record")
    /\ \/ turn' = Ending("budget")
       \/ /\ turn.answer = "proposals"
          /\ \E n \in 1..MaxProposals :
                turn' = [Load("propose") EXCEPT !.todo = n, !.exclusive = n = 1]
       \/ turn.answer = "empty" /\ turn' = [Load("propose") EXCEPT !.todo = 0]
    /\ UNCHANGED <<task, child, followUps>>

\* handle_empty_response: prose finishes a native turn, asks for a contract
\* in discovery and proposes the completion otherwise.
handle_empty_response ==
    /\ At("propose") /\ turn.answer = "empty"
    /\ turn' = IF turn.native THEN Ending("unverified")
               ELSE IF turn.discovery THEN Loop
               ELSE [To("reconcile") EXCEPT !.goal = "complete"]
    /\ UNCHANGED <<task, child, followUps>>

-----------------------------------------------------------------------------
(* execute_proposals *)

Proposing == At("propose") /\ turn.answer = "proposals"
CanPropose == Proposing /\ turn.todo > 0 /\ ~turn.token
Done(t) == [t EXCEPT !.todo = turn.todo - 1]

proposals_done ==
    /\ Proposing /\ (turn.todo = 0 \/ turn.token)
    /\ turn' = Loop /\ UNCHANGED <<task, child, followUps>>

\* A tool that changes nothing here, or a call that is refused: invalid,
\* not admitted in this phase, a control call beside another one.
propose_other ==
    /\ CanPropose /\ turn' = Done(turn) /\ UNCHANGED <<task, child, followUps>>

\* admit_proposal: a contract compiled for the scope of this turn, or refused.
admit_proposal ==
    /\ CanPropose /\ turn.exclusive /\ ~turn.native
    /\ turn.discovery /\ ~turn.superseded /\ TaskOpen
    /\ task' = Invalidated([task EXCEPT !.contract = "accepted"])
    /\ turn' = [Done(turn) EXCEPT !.fresh = TRUE]
    /\ UNCHANGED <<child, followUps>>

propose_completion ==
    /\ CanPropose /\ turn.exclusive /\ (turn.native \/ ~turn.discovery)
    /\ turn' = IF turn.native THEN Ending("unverified")
               ELSE [Done(To("reconcile")) EXCEPT !.goal = "complete"]
    /\ UNCHANGED <<task, child, followUps>>

report_blocker ==
    /\ CanPropose /\ turn.exclusive
    /\ turn' = Ending("blocked") /\ UNCHANGED <<task, child, followUps>>

verify_task ==
    /\ CanPropose /\ ~turn.native /\ ~turn.discovery
    /\ turn' = [Done(To("reconcile")) EXCEPT !.goal = "verify"]
    /\ UNCHANGED <<task, child, followUps>>

\* Subagents::spawn
spawn_agent ==
    /\ CanPropose /\ ~turn.native /\ ~turn.superseded /\ child.state = "none"
    /\ child' = [child EXCEPT !.state = "idle"]
    /\ turn' = Done(turn) /\ UNCHANGED <<task, followUps>>

\* dispatch, before it takes the lock for good.
dispatch ==
    /\ CanPropose /\ ~turn.superseded
    /\ \E m \in BOOLEAN : turn' = [Done(To("dispatch")) EXCEPT !.mutates = m]
    /\ UNCHANGED <<task, child, followUps>>

\* Mutant: the scope compared before the lock was taken is trusted.
Current_bug == TRUE
\* dispatch compares the scope again under the lock that starts the job.
Current == ~turn.superseded

start_execution_job ==
    /\ At("dispatch")
    /\ IF ~Current THEN turn' = To("propose") /\ UNCHANGED task
       ELSE IF ~Admissible THEN turn' = Fail /\ UNCHANGED task
       ELSE /\ turn' = Load("job")
            /\ task' = [IF turn.mutates /\ ~turn.native
                        THEN Invalidated([task EXCEPT !.candidate = FALSE]) ELSE task
                        EXCEPT !.job = "running"]
    /\ UNCHANGED <<child, followUps>>

\* The tool ran; an effect that cannot be established stays unresolved.
settle_execution_job ==
    /\ At("job") /\ turn' = [Load("propose") EXCEPT !.mutates = FALSE]
    /\ \E s \in {"none", "unknown"} : task' = [task EXCEPT !.job = s]
    /\ UNCHANGED <<child, followUps>>

-----------------------------------------------------------------------------
(* reconcile_unresolved, freeze, verify and try_complete *)

\* Unresolved jobs, those of a child too, are fenced on their backend; a
\* cancelled turn and a fence that cannot be established fail.
reconcile_unresolved ==
    /\ At("reconcile")
    /\ IF NoWriter /\ child.state # "running"
       THEN turn' = Load("freeze") /\ UNCHANGED <<task, child>>
       ELSE \/ turn' = Fail /\ UNCHANGED <<task, child>>
            \/ /\ ~turn.token /\ turn' = Load("freeze")
               /\ task' = [task EXCEPT !.job = "none"]
               /\ child' = [child EXCEPT !.state = IF @ = "running" THEN "idle" ELSE @]
    /\ UNCHANGED followUps

\* freeze captures the tree outside the lock and selects it as the candidate
\* if the task is still the one it loaded.
freeze ==
    /\ \/ /\ At("freeze") /\ UNCHANGED task
          /\ turn' = IF turn.token \/ task.contract = "none" THEN Fail
                     ELSE Load("freezing")
       \/ /\ At("freezing")
          /\ IF ~turn.fresh THEN turn' = To("freeze") /\ UNCHANGED task
             ELSE IF task.candidate THEN turn' = To("check") /\ UNCHANGED task
             ELSE IF ~TaskOpen \/ ~NoWriter THEN turn' = Fail /\ UNCHANGED task
             ELSE /\ turn' = To("check")
                  /\ task' = Invalidated([task EXCEPT !.candidate = TRUE])
    /\ UNCHANGED <<child, followUps>>

AfterCheck == IF turn.goal = "verify" THEN "propose" ELSE "deliver"

\* try_complete verifies again only what has no current pass.
verify_missing ==
    /\ At("check") /\ turn.goal = "complete"
    /\ turn' = IF task.evidence = "pass" THEN Load("deliver")
               ELSE [Load("reconcile") EXCEPT !.goal = "recheck"]
    /\ UNCHANGED <<task, child, followUps>>

\* verification::prepare takes the lease, or refuses.
prepare_check ==
    /\ At("check") /\ turn.goal # "complete"
    /\ IF Admissible /\ task.candidate /\ task.contract = "accepted"
       THEN turn' = Load("checking") /\ task' = [task EXCEPT !.lease = TRUE]
       ELSE turn' = Load(AfterCheck) /\ UNCHANGED task
    /\ UNCHANGED <<child, followUps>>

\* verification::finish counts only while the lease is held.
finish_check ==
    /\ At("checking") /\ turn' = Load(AfterCheck)
    /\ \E r \in {"pass", "fail"} :
        task' = [task EXCEPT !.lease = FALSE, !.evidence = IF task.lease THEN r ELSE @]
    /\ UNCHANGED <<child, followUps>>

\* workspace::predicates_match for the delivery loop.
predicates_match == turn.fresh

\* The delivery is staged outside the lock, published under it, compared
\* outside it and recorded under it, each time for an unchanged task.
deliver ==
    /\ \/ /\ At("deliver") /\ UNCHANGED task
          /\ turn' = IF turn.token \/ ~task.candidate THEN Fail ELSE Load("delivering")
       \/ /\ At("delivering") /\ UNCHANGED task
          /\ turn' = To(IF predicates_match THEN "published" ELSE "deliver")
       \/ /\ At("published")
          /\ IF ~predicates_match THEN turn' = To("deliver") /\ UNCHANGED task
             ELSE IF ~TaskOpen \/ ~task.candidate THEN turn' = Fail /\ UNCHANGED task
             ELSE turn' = Load("finish") /\ task' = [task EXCEPT !.delivered = TRUE]
    /\ UNCHANGED <<child, followUps>>

\* Mutant: only the jobs of the turn itself must be settled.
complete_bug ==
    /\ At("finish")
    /\ IF /\ Admissible /\ task.contract = "accepted" /\ task.candidate
          /\ task.evidence = "pass" /\ task.delivered /\ task.unbilled = 0 /\ NoWriter
       THEN turn' = Load("settle") /\ task' = [task EXCEPT !.outcome = "complete"]
       ELSE turn' = [Loop EXCEPT !.fresh = TRUE] /\ UNCHANGED task
    /\ UNCHANGED <<child, followUps>>

\* Store::complete, and what the model hears when evidence is missing.
complete ==
    /\ At("finish")
    /\ IF /\ Admissible /\ task.contract = "accepted" /\ task.candidate
          /\ task.evidence = "pass" /\ task.delivered /\ task.unbilled = 0
          /\ NoWriter /\ child.state # "running"
       THEN turn' = Load("settle") /\ task' = [task EXCEPT !.outcome = "complete"]
       ELSE turn' = [Loop EXCEPT !.fresh = TRUE] /\ UNCHANGED task
    /\ UNCHANGED <<child, followUps>>

-----------------------------------------------------------------------------
(* The end of a turn *)

CancelChildren ==
    child' = [child EXCEPT !.cancelled = child.state \in {"idle", "running"}]

\* finish_run: TurnSettled is refused if a follow-up took the outcome back.
finish_run ==
    /\ At("settle") /\ CancelChildren /\ UNCHANGED followUps
    /\ IF TaskOpen
       THEN turn' = Fail /\ UNCHANGED task
       ELSE turn' = Leave("left") /\ task' = [task EXCEPT !.active = FALSE]

end_task ==
    /\ At("ending") /\ turn' = To("checkpoint") /\ CancelChildren
    /\ UNCHANGED <<task, followUps>>

\* checkpoint_workspace keeps the tree as the candidate, unless a writer may
\* still be at it.
checkpoint_workspace ==
    /\ \/ /\ At("checkpoint") /\ UNCHANGED task
          /\ turn' = Load(IF turn.native \/ ~NoWriter THEN "stop" ELSE "saving")
       \/ /\ At("saving")
          /\ IF ~turn.fresh THEN turn' = To("checkpoint") /\ UNCHANGED task
             ELSE IF task.candidate THEN turn' = To("stop") /\ UNCHANGED task
             ELSE IF ~TaskOpen THEN turn' = Fail /\ UNCHANGED task
             ELSE /\ turn' = To("stop")
                  /\ task' = Invalidated([task EXCEPT !.candidate = TRUE])
    /\ UNCHANGED <<child, followUps>>

\* Store::stop for the revision of the checkpoint, then TurnSettled.  A commit
\* since then is a conflict: an error of the turn, or of its error path.
stop ==
    /\ At("stop")
    /\ IF turn.fresh /\ TaskOpen
       THEN /\ turn' = To("left")
            /\ task' = [task EXCEPT !.outcome = turn.end, !.active = FALSE]
       ELSE turn' = (IF turn.failed THEN To("left") ELSE Fail) /\ UNCHANGED task
    /\ UNCHANGED <<child, followUps>>

\* execute_task_request after an error: a task that has its outcome is left
\* alone, another one is checkpointed and stopped.
execute_task_request ==
    /\ At("error")
    /\ turn' = IF ~TaskOpen \/ turn.failed THEN To("left")
               ELSE [Load("checkpoint") EXCEPT !.failed = TRUE,
                        !.end = IF task.cancel = "requested" THEN "cancelled"
                                ELSE IF ~turn.native /\ task.elapsed THEN "budget"
                                ELSE "failed"]
    /\ UNCHANGED <<task, child, followUps>>

-----------------------------------------------------------------------------
(* The operator, the deadline and the child *)

Elsewhere(t) == turn' = [t EXCEPT !.fresh = FALSE]
InTurn == turn.pc \notin {"admit", "left"}

\* A steering follow-up: the scope moves and the task is open again.
receive_directive ==
    /\ InTurn /\ followUps < MaxFollowUps /\ followUps' = followUps + 1
    /\ Elsewhere([turn EXCEPT !.superseded = TRUE])
    /\ task' = Invalidated([task EXCEPT !.outcome = "none", !.lease = FALSE,
                    !.contract = IF @ = "none" THEN @ ELSE "amending"])
    /\ UNCHANGED child

\* Host::cancel fires the token before it waits for the store.
cancel ==
    /\ InTurn
    /\ \/ /\ task.cancel = "no" /\ turn' = [turn EXCEPT !.token = TRUE]
          /\ task' = [task EXCEPT !.cancel = "wanted"]
       \/ /\ task.cancel = "wanted" /\ TaskOpen
          /\ Elsewhere(turn) /\ task' = [task EXCEPT !.cancel = "requested"]
    /\ UNCHANGED <<child, followUps>>

\* The elapsed limit passes; TaskDeadline fires unless the turn was cancelled.
expire ==
    /\ InTurn /\ ~task.elapsed /\ task' = [task EXCEPT !.elapsed = TRUE]
    /\ turn' = [turn EXCEPT !.deadline = ~turn.token, !.token = TRUE]
    /\ UNCHANGED <<child, followUps>>

\* run_tool_linked: a child starts a read-only job for the scope of its parent
\* while that request is the active one, and settles it whenever it ends.
child_start_job ==
    /\ child.state = "idle" /\ ~child.cancelled /\ child.jobs < MaxChildJobs
    /\ Admissible /\ task.active /\ ~turn.superseded
    /\ child' = [child EXCEPT !.state = "running", !.jobs = @ + 1]
    /\ Elsewhere(turn) /\ UNCHANGED <<task, followUps>>

child_settle_job ==
    /\ child.state = "running" /\ child' = [child EXCEPT !.state = "idle"]
    /\ Elsewhere(turn) /\ UNCHANGED <<task, followUps>>

child_ends ==
    /\ child.state = "idle" /\ child' = [child EXCEPT !.state = "over"]
    /\ UNCHANGED <<turn, task, followUps>>

TurnStep ==
    \/ admit \/ prepare_isolated_workspace \/ run_contract \/ prepare_turn_tools
    \/ reserve_model_call \/ respond \/ record_model_call \/ judge
    \/ wait_for_provider_retry \/ record_response \/ handle_empty_response
    \/ proposals_done \/ propose_other \/ admit_proposal \/ propose_completion
    \/ report_blocker \/ verify_task \/ spawn_agent \/ dispatch
    \/ start_execution_job \/ settle_execution_job
    \/ reconcile_unresolved \/ freeze \/ verify_missing \/ prepare_check
    \/ finish_check \/ deliver \/ complete
    \/ finish_run \/ end_task \/ checkpoint_workspace \/ stop \/ execute_task_request

TcNext ==
    \/ TurnStep
    \/ receive_directive \/ cancel \/ expire
    \/ child_start_job \/ child_settle_job \/ child_ends

TcSpec == TcInit /\ [][TcNext]_tcVars

-----------------------------------------------------------------------------
(* Properties *)

\* A task is completed only over the contract of the scope the turn was
\* admitted for, with a candidate that is verified and delivered, and with no
\* writer and no job of a child left that may still observe the tree.
CompletionCovered ==
    task.outcome = "complete" =>
        /\ ~turn.superseded /\ task.contract = "accepted" /\ task.delivered
        /\ task.evidence = "pass" /\ task.job = "none" /\ child.state # "running"

\* A recorded user follow-up fences the turn: no workspace job and no provider
\* call starts for a scope that has been superseded.
SupersededStartsNothing ==
    [][turn.superseded => /\ ~(task.job # "running" /\ task'.job = "running")
                          /\ task'.calls = task.calls]_tcVars

\* A turn that has been left has a receipt for every call it reserved, also
\* when it was cancelled, retried or superseded in between.
CallsReceipted == At("left") => task.receipts = task.calls

\* A turn that ends by end_task or finish_run has cancelled its children.
SettledCancelsChildren ==
    At("left") /\ ~turn.failed => child.state \in {"none", "over"} \/ child.cancelled

\* "Children outliving their parent turn are cancelled with it: an unwaited
\* subagent never leaks past the task that spawned it."
NoLeakedChild == At("left") => child.state \in {"none", "over"} \/ child.cancelled

\* Every admitted turn is left: retries, follow-ups, lost races for the lock
\* and cancelled waits all come to an end.
TurnEnds == task.active ~> (turn.pc = "left")
=============================================================================
