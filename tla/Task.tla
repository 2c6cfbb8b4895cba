-------------------------------- MODULE Task --------------------------------
(***************************************************************************)
(* The task aggregate of the durable host: TaskState (harness/src/state.rs *)
(* and completion.rs) and every operation of the store that appends to a   *)
(* task's journal (harness/src/store.rs, store/manual.rs and the task half *)
(* of store/submissions.rs).                                               *)
(*                                                                         *)
(* One operation is one SQLite transaction under the store's lock, so one  *)
(* action.  Store::change refuses an operation whose expected revision is  *)
(* not the current one and changes nothing then, so an accepted operation  *)
(* always acts on the state its caller saw: the action reads the current   *)
(* state and the revision itself is left out.  Refused operations leave    *)
(* the state as it is and are the stuttering steps.                        *)
(*                                                                         *)
(* A digest is the value it stands for (a contract, a candidate source).   *)
(* Source, environment and artifact of a candidate are one value: they are *)
(* only ever compared together.  now_ms() against a task's elapsed limit   *)
(* is the Boolean expired; a verifier's late pass is refused and changes   *)
(* nothing.                                                                *)
(***************************************************************************)
EXTENDS Integers, Sequences, FiniteSets, FiniteSetsExt

CONSTANTS
    Requests,       \* user follow-ups (submission ids) that name this task
    JobIds, EffectIds, FindingIds,
    Operations,     \* accounting operation ids (provider attempts, charges)
    Sources,        \* candidate identities
    Checks,         \* acceptance check ids
    Contracts,      \* the contracts a compiler or a user can propose
    Observations,   \* the protected observations a verifier can return
    Receipts,       \* the provider receipts that can be recorded
    Charges,        \* the usage records charge_usage can be given
    InitialLimits,  \* limits authorised with the request
    StopOutcomes,   \* the outcomes callers pass to stop
    None,
    MaxGeneration   \* bound on the generation counter

Limits == [tokens : Nat, calls : Nat, jobs : Nat]

CheckDef == [noNewFailure : BOOLEAN,
             control : {"none", "baseline", "negative"},
             controlSource : Sources \cup {None},
             attempts : Nat]        \* 0: RejectAnyFailure, n: Retry n

Deliveries == {"patch", "source", "package", "deployment", "report"}

\* A validated contract: every check it defines is required by some outcome.
Contract == [checks : UNION {[K -> CheckDef] : K \in SUBSET Checks \ {{}}},
             delivery : Deliveries,
             open : BOOLEAN,        \* product decisions remain open
             limits : Limits]

\* What a protected verifier reports (state.rs Observation); exercised stands
\* for the assertion and discovery counts the check's minimum is compared with.
Observation == [status : {"passed", "failed", "inconclusive", "cancelled"},
                limited : BOOLEAN, unreconciled : BOOLEAN,
                unchanged : BOOLEAN, exercised : BOOLEAN,
                control : {"none", "baseline", "negative"},
                controlSource : Sources \cup {None}]

\* state.rs ModelCallReceipt; tokens is 0 while billing is unknown.
Receipt == [status : {"completed", "failed", "cancelled", "unknown"},
            billed : BOOLEAN, tokens : Nat]

Usage == [calls : Nat, tokens : Nat]

Outcomes == {"complete", "exceptions", "blocked", "budget", "cancelled",
             "failed", "unverified"}

ASSUME OperationsAssumption == IsFiniteSet(Operations)
ASSUME ContractsAssumption == Contracts \subseteq Contract
ASSUME ObservationsAssumption == Observations \subseteq Observation
ASSUME ReceiptsAssumption == /\ Receipts \subseteq Receipt
                             /\ \A r \in Receipts : ~r.billed => r.tokens = 0
ASSUME ChargesAssumption == Charges \subseteq Usage
ASSUME LimitsAssumption == InitialLimits \in Limits
ASSUME StopAssumption == StopOutcomes \subseteq Outcomes \ {"complete"}
ASSUME MaxGenerationAssumption == MaxGeneration \in Nat
ASSUME NoneAssumption ==
    /\ None \notin Contracts \cup Sources \cup Receipts \cup Charges \cup Checks
    /\ None \notin Outcomes

VARIABLES
    generation,     \* evidence generation
    scope,          \* scope_revision
    admittedScope,  \* admitted_scope_revision
    directives,     \* directive_scopes: request -> scope revision, 0: none
    amendmentPending,
    contract, candidate, baseline,
    originCaptured,     \* origin.is_some()
    override,           \* workspace_override
    jobs, leases, evidence,
    effects, findings,
    usage, reserved, receipts, charges,
    delivery, outcome, cancelRequested, certificates,
    expired,        \* the elapsed limit has passed
    shell,          \* the user shell whose request is the active one
    orphans         \* history: jobs that were running when a host died

scopeVars == <<scope, admittedScope, directives, amendmentPending>>
sourceVars == <<candidate, baseline, originCaptured, override>>
workVars == <<jobs, leases, evidence>>
accountVars == <<usage, reserved, receipts, charges>>
endVars == <<outcome, cancelRequested, certificates>>
envVars == <<expired, shell, orphans>>
vars == <<generation, scopeVars, contract, sourceVars, workVars, effects,
          findings, accountVars, delivery, endVars, envVars>>

Identity(c, s, k) == [contract |-> c, source |-> s, check |-> k]

NoJob == [status |-> "absent", generation |-> 0, kind |-> "none",
          mutates |-> FALSE, identity |-> None, receipt |-> FALSE]

Open == outcome = None
Limit == IF contract = None THEN InitialLimits ELSE contract.limits
Frozen == candidate # None /\ candidate.frozen

\* JobStatus::unresolved
Unresolved(j) == jobs[j].status \in {"running", "unknown"}
UnresolvedEffect(e) == effects[e] \in {"intended", "unknown"}

\* A reservation whose receipt says how the attempt ended, and what it cost.
StatusKnown(o) == receipts[o] # None /\ receipts[o].status # "unknown"
Reconciled(o) == StatusKnown(o) /\ receipts[o].billed

admit_job ==
    /\ ~cancelRequested
    /\ ~expired
    /\ Cardinality({j \in JobIds : Unresolved(j)}) < Limit.jobs

WithinBudget ==
    /\ usage.calls < Limit.calls
    /\ usage.tokens < Limit.tokens
    /\ ~expired

check_budget == ~cancelRequested /\ WithinBudget

Init ==
    /\ generation = 1
    /\ scope = 0 /\ admittedScope = 0
    /\ directives = [r \in Requests |-> 0]
    /\ amendmentPending = FALSE
    /\ contract = None /\ candidate = None /\ baseline = None
    /\ originCaptured = FALSE /\ override = None
    /\ jobs = [j \in JobIds |-> NoJob]
    /\ leases = {} /\ evidence = <<>>
    /\ effects = [e \in EffectIds |-> "absent"]
    /\ findings = [f \in FindingIds |-> "absent"]
    /\ usage = [calls |-> 0, tokens |-> 0]
    /\ reserved = {}
    /\ receipts = [o \in Operations |-> None]
    /\ charges = [o \in Operations |-> None]
    /\ delivery = None /\ outcome = None
    /\ cancelRequested = FALSE /\ certificates = <<>>
    /\ expired = FALSE /\ shell = None /\ orphans = {}
-----------------------------------------------------------------------------
(* Operators named ..._bug are mistakes the properties must catch; nothing  *)
(* uses them.                                                              *)
Invalidate_bug(n) == UNCHANGED generation /\ delivery' = None

(* TaskState::invalidate: a new evidence generation, and no delivery yet.  *)
Invalidate(n) ==
    /\ generation + n <= MaxGeneration
    /\ generation' = generation + n
    /\ delivery' = None

NoInvalidate == UNCHANGED <<generation, delivery>>

(***************************************************************************)
(* Contract and scope.                                                     *)
(***************************************************************************)
admit_contract(c) ==
    /\ Open /\ contract = None
    /\ c.limits = InitialLimits
    /\ contract' = c
    /\ Invalidate(1)
    /\ UNCHANGED <<scopeVars, sourceVars, workVars, effects, findings,
                   accountVars, endVars, envVars>>

\* The user path.  It may change the limits, the elapsed one included.
amend_contract(c) ==
    /\ Open /\ contract # None
    /\ contract' = c
    /\ expired' \in BOOLEAN
    /\ Invalidate(1)
    /\ UNCHANGED <<scopeVars, sourceVars, workVars, effects, findings,
                   accountVars, endVars, shell, orphans>>

preserves_obligations(old, new) ==
    /\ new.limits = old.limits
    /\ new.delivery = old.delivery
    /\ DOMAIN old.checks \subseteq DOMAIN new.checks
    /\ \A k \in DOMAIN old.checks : new.checks[k] = old.checks[k]

accept_additive_contract(c) ==
    /\ Open /\ amendmentPending
    /\ IF contract # None THEN preserves_obligations(contract, c)
                          ELSE c.limits = InitialLimits
    /\ contract' = c
    /\ amendmentPending' = FALSE
    /\ admittedScope' = scope
    /\ Invalidate(1)
    /\ UNCHANGED <<scope, directives, sourceVars, workVars, effects, findings,
                   accountVars, endVars, envVars>>

Directive_bug(r) ==
    /\ scope' = scope + 1
    /\ directives' = [directives EXCEPT ![r] = scope + 1]
    /\ leases' = {} /\ outcome' = None
    /\ UNCHANGED amendmentPending

\* DirectiveReceived and DirectiveReplaced: outcome and leases go, whatever the
\* outcome was; a requested cancellation stays.
Directive(r) ==
    /\ scope' = scope + 1
    /\ directives' = [directives EXCEPT ![r] = scope + 1]
    /\ amendmentPending' = TRUE
    /\ leases' = {}
    /\ outcome' = None

\* submit with a Steer schedule, or edit_submission steering a queued one.
receive_directive(r) ==
    /\ directives[r] = 0
    /\ Directive(r)
    /\ Invalidate(1)
    /\ UNCHANGED <<admittedScope, contract, sourceVars, jobs, evidence, effects,
                   findings, accountVars, cancelRequested, certificates, envVars>>

\* edit_submission of a directive the contract does not contain yet.
replace_directive(r) ==
    /\ directives[r] > admittedScope
    /\ Directive(r)
    /\ Invalidate(1)
    /\ UNCHANGED <<admittedScope, contract, sourceVars, jobs, evidence, effects,
                   findings, accountVars, cancelRequested, certificates, envVars>>

NothingUnsettled ==
    /\ \A j \in JobIds : ~Unresolved(j)
    /\ \A e \in EffectIds : ~UnresolvedEffect(e)

\* continue_submission_record: a registered directive is reopened, another one
\* is received first; the budget is checked once the cancellation is cleared.
continue_submission(r) ==
    /\ shell = None
    /\ NothingUnsettled
    /\ \A o \in reserved : StatusKnown(o)
    /\ WithinBudget
    /\ \/ /\ directives[r] = 0
          /\ Directive(r)
          /\ Invalidate(2)
          /\ UNCHANGED admittedScope
       \/ /\ directives[r] # 0
          /\ Invalidate(1)
          /\ outcome' = None
          /\ UNCHANGED <<scopeVars, leases>>
    /\ cancelRequested' = FALSE
    /\ UNCHANGED <<contract, sourceVars, jobs, evidence, effects, findings,
                   accountVars, certificates, envVars>>

Reopened ==
    /\ Invalidate(1)
    /\ outcome' = None
    /\ cancelRequested' = FALSE
    /\ UNCHANGED <<scopeVars, contract, sourceVars, workVars, effects, findings,
                   accountVars, certificates, envVars>>

resume_task ==
    /\ shell = None
    /\ outcome \notin {None, "complete"}
    /\ NothingUnsettled
    /\ \A o \in reserved : Reconciled(o)
    /\ WithinBudget
    /\ Reopened

reopen == ~Open /\ Reopened
(***************************************************************************)
(* Workspace, candidate and baseline.                                      *)
(***************************************************************************)
establish_workspace(s) ==
    /\ Open /\ ~originCaptured /\ baseline = None
    /\ originCaptured' = TRUE
    /\ baseline' = s
    /\ NoInvalidate
    /\ UNCHANGED <<scopeVars, contract, candidate, override, workVars, effects,
                   findings, accountVars, endVars, envVars>>

establish_baseline(s) ==
    /\ Open /\ baseline = None
    /\ baseline' = s
    /\ NoInvalidate
    /\ UNCHANGED <<scopeVars, contract, candidate, originCaptured, override,
                   workVars, effects, findings, accountVars, endVars, envVars>>

NoActiveWriters_bug == \A j \in JobIds : jobs[j].mutates => jobs[j].status # "running"

NoActiveWriters == \A j \in JobIds : jobs[j].mutates => ~Unresolved(j)

select_candidate(s, frozen) ==
    /\ Open
    /\ NoActiveWriters
    /\ candidate' = [source |-> s, frozen |-> frozen]
    /\ Invalidate(1)
    /\ UNCHANGED <<scopeVars, contract, baseline, originCaptured, override,
                   workVars, effects, findings, accountVars, endVars, envVars>>

invalidate_candidate ==
    /\ Open
    /\ candidate' = None
    /\ Invalidate(1)
    /\ UNCHANGED <<scopeVars, contract, baseline, originCaptured, override,
                   workVars, effects, findings, accountVars, endVars, envVars>>

workspace_restored ==
    /\ Open /\ override # None
    /\ \A j \in JobIds : ~Unresolved(j)
    /\ override' = None
    /\ NoInvalidate
    /\ UNCHANGED <<scopeVars, contract, candidate, baseline, originCaptured,
                   workVars, effects, findings, accountVars, endVars, envVars>>

(***************************************************************************)
(* Jobs.  A check holds a lease; leases are rows keyed by job, deleted with *)
(* the settlement of the job, with a directive and with a recovery, but not *)
(* with a new generation: finish_check compares generations instead.       *)
(***************************************************************************)
Job(kind, mutates, id, g) ==
    [status |-> "running", generation |-> g, kind |-> kind,
     mutates |-> mutates, identity |-> id, receipt |-> FALSE]

ReleaseLease(j) == leases' = leases \ {j}

begin_check(j, k) ==
    /\ Open /\ ~amendmentPending
    /\ admit_job
    /\ Frozen
    /\ contract # None /\ k \in DOMAIN contract.checks
    /\ jobs[j].status = "absent"
    /\ jobs' = [jobs EXCEPT ![j] =
                  Job("check", FALSE, Identity(contract, candidate.source, k), generation)]
    /\ leases' = leases \cup {j}
    /\ NoInvalidate
    /\ UNCHANGED <<scopeVars, contract, sourceVars, evidence, effects, findings,
                   accountVars, endVars, envVars>>

ObservedStatus_bug(o) == IF o.unreconciled THEN "unknown" ELSE o.status

ObservedStatus(o) == IF o.unreconciled THEN "unknown"
                     ELSE IF o.status = "passed" THEN "succeeded" ELSE "failed"

LeaseHeld_bug_terminal(j) ==
    j \in leases /\ jobs[j].status = "running" /\ jobs[j].generation = generation
LeaseHeld_bug_generation(j) == Open /\ j \in leases /\ jobs[j].status = "running"
LeaseHeld_bug_row(j) ==
    Open /\ jobs[j].kind = "check" /\ jobs[j].generation = generation

\* The lease a verifier must still hold when its observation arrives.
LeaseHeld(j) ==
    /\ Open
    /\ j \in leases
    /\ jobs[j].status = "running"
    /\ jobs[j].generation = generation

finish_check(j, o) ==
    /\ LeaseHeld(j)
    /\ jobs' = [jobs EXCEPT ![j].status = ObservedStatus(o)]
    /\ ReleaseLease(j)
    /\ evidence' = Append(evidence, [job |-> j, generation |-> generation,
                                     identity |-> jobs[j].identity, result |-> o])
    /\ NoInvalidate
    /\ UNCHANGED <<scopeVars, contract, sourceVars, effects, findings,
                   accountVars, endVars, envVars>>

\* start_job_record without an invocation.
start_job(j, mutates) ==
    /\ Open
    /\ admit_job
    /\ mutates => /\ ~amendmentPending
                  /\ contract # None /\ ~contract.open
                  /\ ~Frozen
    /\ jobs[j].status = "absent"
    /\ jobs' = [jobs EXCEPT ![j] = Job("plain", mutates, None, generation)]
    /\ NoInvalidate
    /\ UNCHANGED <<scopeVars, contract, sourceVars, leases, evidence, effects,
                   findings, accountVars, endVars, envVars>>

\* start_job_record for an invocation: the caller's request is the session's
\* active one, so no user shell is.
start_execution_job(j, mutates) ==
    /\ Open
    /\ admit_job
    /\ shell = None
    /\ mutates => ~Frozen
    /\ jobs[j].status = "absent"
    /\ jobs' = [jobs EXCEPT ![j] = Job("execution", mutates, None, generation)]
    /\ NoInvalidate
    /\ UNCHANGED <<scopeVars, contract, sourceVars, leases, evidence, effects,
                   findings, accountVars, endVars, envVars>>

\* settle_job_record, whatever the task's outcome.  An invocation's settlement
\* carries a receipt; only finish_check makes a check succeed.
settle_job(j, status, receipt) ==
    /\ Unresolved(j)
    /\ jobs[j].kind \in {"execution", "shell"} => receipt
    /\ status = "succeeded" => jobs[j].kind # "check"
    /\ jobs' = [jobs EXCEPT ![j].status = status, ![j].receipt = receipt]
    /\ ReleaseLease(j)
    /\ NoInvalidate
    /\ UNCHANGED <<scopeVars, contract, sourceVars, evidence, effects, findings,
                   accountVars, endVars, envVars>>

fence_job_bug(j) ==
    /\ jobs[j].status # "absent"
    /\ jobs' = [jobs EXCEPT ![j].status = "fenced", ![j].receipt = TRUE]
    /\ ReleaseLease(j)
    /\ NoInvalidate
    /\ UNCHANGED <<scopeVars, contract, sourceVars, evidence, effects, findings,
                   accountVars, endVars, envVars>>

fence_job(j) ==
    /\ Unresolved(j)
    /\ jobs' = [jobs EXCEPT ![j].status = "fenced", ![j].receipt = TRUE]
    /\ ReleaseLease(j)
    /\ NoInvalidate
    /\ UNCHANGED <<scopeVars, contract, sourceVars, evidence, effects, findings,
                   accountVars, endVars, envVars>>
(***************************************************************************)
(* External effects and findings.                                          *)
(***************************************************************************)
EffectStatus == {"intended", "unknown", "succeeded", "failed", "reconciled"}

record_effect(e, status) ==
    /\ IF effects[e] = "absent" THEN status = "intended" /\ Open
                               ELSE UnresolvedEffect(e)
    /\ effects' = [effects EXCEPT ![e] = status]
    /\ NoInvalidate
    /\ UNCHANGED <<scopeVars, contract, sourceVars, workVars, findings,
                   accountVars, endVars, envVars>>

\* "blocking": blocking and unresolved; "cleared": advisory or resolved.
record_finding(f, status) ==
    /\ Open
    /\ findings' = [findings EXCEPT ![f] = status]
    /\ NoInvalidate
    /\ UNCHANGED <<scopeVars, contract, sourceVars, workVars, effects,
                   accountVars, endVars, envVars>>

(***************************************************************************)
(* Accounting.  A reservation precedes the provider call; its receipt can  *)
(* come at any time, after the task settled too.                           *)
(***************************************************************************)
reserve_model_call(o) ==
    /\ o \notin reserved /\ charges[o] = None
    /\ Open
    /\ check_budget
    /\ reserved' = reserved \cup {o}
    /\ usage' = [usage EXCEPT !.calls = @ + 1]
    /\ NoInvalidate
    /\ UNCHANGED <<scopeVars, contract, sourceVars, workVars, effects, findings,
                   receipts, charges, endVars, envVars>>

LateAccounting_bug(over) ==
    /\ NoInvalidate /\ UNCHANGED outcome
    /\ UNCHANGED <<scopeVars, contract, sourceVars, workVars, effects, findings,
                   reserved, cancelRequested, certificates, envVars>>

\* The rule of ModelCallRecorded and UsageCharged: late accounting that breaks
\* the budget of a completed task takes the completion back.
LateAccounting(over) ==
    /\ IF outcome = "complete" /\ over
       THEN Invalidate(1) /\ outcome' = "budget"
       ELSE NoInvalidate /\ UNCHANGED outcome
    /\ UNCHANGED <<scopeVars, contract, sourceVars, workVars, effects, findings,
                   reserved, cancelRequested, certificates, envVars>>

Refines_bug(previous, r) ==
    previous.status # "unknown" => r.status = previous.status

\* A receipt fills in what an earlier one left unknown and rewrites nothing.
Refines(previous, r) ==
    /\ previous.billed => r.billed /\ r.tokens = previous.tokens
    /\ previous.status # "unknown" => r.status = previous.status
    /\ ~(previous.billed /\ previous.status # "unknown")

record_model_call(o, r) ==
    /\ o \in reserved
    /\ receipts[o] # None => receipts[o] # r /\ Refines(receipts[o], r)
    /\ LET previous == IF receipts[o] = None THEN 0 ELSE receipts[o].tokens
           added == IF r.tokens > previous THEN r.tokens - previous ELSE 0
       IN  usage' = [usage EXCEPT !.tokens = @ + added]
    /\ receipts' = [receipts EXCEPT ![o] = r]
    /\ LateAccounting(usage'.tokens > Limit.tokens)
    /\ UNCHANGED charges

charge_usage(o, u) ==
    /\ o \notin reserved /\ charges[o] = None
    /\ charges' = [charges EXCEPT ![o] = u]
    /\ usage' = [calls |-> usage.calls + u.calls, tokens |-> usage.tokens + u.tokens]
    /\ LateAccounting(usage'.calls > Limit.calls \/ usage'.tokens > Limit.tokens)
    /\ UNCHANGED receipts

(***************************************************************************)
(* The user shell (store/manual.rs): a job that writes the source outside  *)
(* the agent's control, with an effect for the adoption of its result.     *)
(***************************************************************************)
begin_shell(j, e) ==
    /\ shell = None
    /\ NothingUnsettled
    /\ jobs[j].status = "absent" /\ effects[e] = "absent"
    /\ Invalidate(1)
    /\ scope' = scope + 1
    /\ outcome' = None
    /\ cancelRequested' = FALSE
    /\ jobs' = [jobs EXCEPT ![j] = Job("shell", TRUE, None, generation + 1)]
    /\ effects' = [effects EXCEPT ![e] = "intended"]
    /\ shell' = [job |-> j, effect |-> e, scope |-> scope + 1]
    /\ UNCHANGED <<admittedScope, directives, amendmentPending, contract,
                   sourceVars, leases, evidence, findings, accountVars,
                   certificates, expired, orphans>>

\* The result is adopted only when its source is known and no user input came
\* in between.  The candidate changes without a new generation.
finish_shell(status, after) ==
    /\ shell # None
    /\ jobs[shell.job].status = "running"
    /\ jobs' = [jobs EXCEPT ![shell.job].status = status,
                            ![shell.job].receipt = TRUE]
    /\ LET adopted == status # "unknown" /\ after # None /\ shell.scope = scope
       IN  /\ candidate' = IF adopted THEN [source |-> after, frozen |-> TRUE]
                                     ELSE candidate
           /\ override' = IF adopted THEN after ELSE override
           /\ effects' = [effects EXCEPT ![shell.effect] =
                            IF status = "unknown" THEN "unknown"
                            ELSE IF adopted THEN "succeeded" ELSE "failed"]
    /\ outcome' = "blocked"
    /\ shell' = None
    /\ NoInvalidate
    /\ UNCHANGED <<scopeVars, contract, baseline, originCaptured, leases,
                   evidence, findings, accountVars, cancelRequested,
                   certificates, expired, orphans>>
(***************************************************************************)
(* Completion.  completion::evaluate issues a certificate only when every  *)
(* obligation is discharged; complete records it.                          *)
(***************************************************************************)
Attempts(id) == {i \in DOMAIN evidence : evidence[i].identity = id}

IsLast(i, id) == i \in Attempts(id) /\ \A n \in Attempts(id) : n <= i

\* An observation satisfies the acceptance policy of check definition d.
Satisfies(o, d) ==
    /\ ~o.limited /\ ~o.unreconciled
    /\ \/ o.status = "passed"
       \/ d.noNewFailure /\ o.status = "failed" /\ o.unchanged
    /\ o.exercised
    /\ d.control # "none" =>
          /\ o.control = d.control
          /\ o.controlSource # None
          /\ o.controlSource = IF d.control = "baseline" THEN baseline
                                                         ELSE d.controlSource

RetryPolicy(i, id, d) ==
    IF d.attempts = 0
    THEN \A n \in Attempts(id) \ {i} : evidence[n].result.status # "failed"
    ELSE Cardinality(Attempts(id)) <= d.attempts

Accepted_bug(i, k) ==
    /\ i \in Attempts(Identity(contract, candidate.source, k))
    /\ evidence[i].generation = generation
    /\ Satisfies(evidence[i].result, contract.checks[k])

\* Evidence i is the accepted attempt at check k.
Accepted(i, k) ==
    LET id == Identity(contract, candidate.source, k)
        d == contract.checks[k]
    IN  /\ IsLast(i, id)
        /\ evidence[i].generation = generation
        /\ Satisfies(evidence[i].result, d)
        /\ RetryPolicy(i, id, d)

\* What evaluate asks of everything but the evidence and the delivery.
Discharged ==
    /\ ~cancelRequested /\ ~amendmentPending /\ ~contract.open
    /\ \A f \in FindingIds : findings[f] # "blocking"
    /\ NothingUnsettled
    /\ \A j \in JobIds : jobs[j].status = "fenced" => jobs[j].receipt
    /\ \A o \in reserved : Reconciled(o)
    /\ usage.tokens <= contract.limits.tokens
    /\ usage.calls <= contract.limits.calls

evaluate ==
    /\ contract # None /\ Open
    /\ Discharged
    /\ ~expired
    /\ Frozen
    /\ \A k \in DOMAIN contract.checks : \E i \in DOMAIN evidence : Accepted(i, k)
    /\ delivery = [source |-> candidate.source, kind |-> contract.delivery]

Certificate ==
    [contract |-> contract, source |-> candidate.source, generation |-> generation,
     evidence |-> [k \in DOMAIN contract.checks |->
                     evidence[CHOOSE i \in DOMAIN evidence : Accepted(i, k)].job]]

complete ==
    /\ evaluate
    /\ certificates' = Append(certificates, Certificate)
    /\ outcome' = "complete"
    /\ NoInvalidate
    /\ UNCHANGED <<scopeVars, contract, sourceVars, workVars, effects, findings,
                   accountVars, cancelRequested, envVars>>

record_delivery ==
    /\ Open /\ Frozen /\ contract # None
    /\ delivery' = [source |-> candidate.source, kind |-> contract.delivery]
    /\ UNCHANGED <<generation, scopeVars, contract, sourceVars, workVars, effects,
                   findings, accountVars, endVars, envVars>>

stop(end) ==
    /\ Open
    /\ outcome' = end
    /\ NoInvalidate
    /\ UNCHANGED <<scopeVars, contract, sourceVars, workVars, effects, findings,
                   accountVars, cancelRequested, certificates, envVars>>

request_cancellation ==
    /\ Open /\ ~cancelRequested
    /\ cancelRequested' = TRUE
    /\ NoInvalidate
    /\ UNCHANGED <<scopeVars, contract, sourceVars, workVars, effects, findings,
                   accountVars, outcome, certificates, envVars>>

\* A completed task whose certified artifacts cannot be read any more.
audit_evidence ==
    /\ outcome = "complete"
    /\ outcome' = "blocked"
    /\ Invalidate(1)
    /\ UNCHANGED <<scopeVars, contract, sourceVars, workVars, effects, findings,
                   accountVars, cancelRequested, certificates, envVars>>

(***************************************************************************)
(* A host dies and the next one opens the store: recover_interrupted closes *)
(* every open task, and leaves a settled one exactly as it was.            *)
(***************************************************************************)
recover_interrupted ==
    /\ shell' = None
    /\ orphans' = orphans \cup {j \in JobIds : jobs[j].status = "running"}
    /\ IF Open
       THEN /\ Invalidate(1)
            /\ outcome' = IF cancelRequested THEN "cancelled" ELSE "blocked"
            /\ jobs' = [j \in JobIds |-> IF jobs[j].status = "running"
                                         THEN [jobs[j] EXCEPT !.status = "unknown"]
                                         ELSE jobs[j]]
            /\ effects' = [e \in EffectIds |-> IF effects[e] = "intended"
                                               THEN "unknown" ELSE effects[e]]
            /\ leases' = {}
       ELSE NoInvalidate /\ UNCHANGED <<outcome, jobs, effects, leases>>
    /\ UNCHANGED <<scopeVars, contract, sourceVars, evidence, findings,
                   accountVars, cancelRequested, certificates, expired>>

\* The clock passes the task's elapsed limit.
elapse ==
    /\ ~expired
    /\ expired' = TRUE
    /\ NoInvalidate
    /\ UNCHANGED <<scopeVars, contract, sourceVars, workVars, effects, findings,
                   accountVars, endVars, shell, orphans>>

SettledStatus == {"succeeded", "failed", "cancelled", "unknown"}

ContractStep == \E c \in Contracts : admit_contract(c) \/ amend_contract(c)
                                     \/ accept_additive_contract(c)
DirectiveStep == \E r \in Requests : receive_directive(r) \/ replace_directive(r)
                                     \/ continue_submission(r)
SourceStep == \/ \E s \in Sources : \/ establish_workspace(s) \/ establish_baseline(s)
                                   \/ \E f \in BOOLEAN : select_candidate(s, f)
              \/ invalidate_candidate \/ workspace_restored
JobStep == \E j \in JobIds :
    \/ \E k \in Checks : begin_check(j, k)
    \/ \E o \in Observations : finish_check(j, o)
    \/ \E m \in BOOLEAN : start_job(j, m) \/ start_execution_job(j, m)
    \/ \E s \in SettledStatus, r \in BOOLEAN : settle_job(j, s, r)
    \/ fence_job(j)
    \/ \E e \in EffectIds : begin_shell(j, e)
ShellStep == \E s \in SettledStatus, a \in Sources \cup {None} : finish_shell(s, a)
RecordStep == \/ \E e \in EffectIds, s \in EffectStatus : record_effect(e, s)
              \/ \E f \in FindingIds, s \in {"blocking", "cleared"} :
                    record_finding(f, s)
AccountStep == \E o \in Operations : \/ reserve_model_call(o)
                                    \/ \E r \in Receipts : record_model_call(o, r)
                                    \/ \E u \in Charges : charge_usage(o, u)
EndStep == \/ record_delivery \/ complete \/ request_cancellation \/ audit_evidence
           \/ resume_task \/ reopen \/ recover_interrupted \/ elapse
           \/ \E end \in StopOutcomes : stop(end)

Next == \/ ContractStep \/ DirectiveStep \/ SourceStep \/ JobStep \/ ShellStep
        \/ RecordStep \/ AccountStep \/ EndStep

Spec == Init /\ [][Next]_vars
-----------------------------------------------------------------------------
(* Properties.                                                             *)

Identities == [contract : Contracts, source : Sources, check : Checks]
JobStatus == {"absent", "running", "succeeded", "failed", "cancelled", "unknown",
              "fenced"}
JobRecord == [status : JobStatus, generation : Nat,
              kind : {"none", "check", "plain", "execution", "shell"},
              mutates : BOOLEAN, identity : Identities \cup {None},
              receipt : BOOLEAN]
EvidenceRecord == [job : JobIds, generation : Nat, identity : Identities,
                   result : Observations]
CertificateRecord == [contract : Contracts, source : Sources, generation : Nat,
                      evidence : UNION {[K -> JobIds] : K \in SUBSET Checks}]

GenerationType == /\ generation \in Nat
                  /\ delivery \in [source : Sources, kind : Deliveries] \cup {None}
ScopeType == /\ scope \in Nat /\ admittedScope \in Nat
             /\ directives \in [Requests -> Nat]
             /\ amendmentPending \in BOOLEAN
ContractType == contract \in Contracts \cup {None}
SourceType == /\ candidate \in [source : Sources, frozen : BOOLEAN] \cup {None}
              /\ baseline \in Sources \cup {None}
              /\ originCaptured \in BOOLEAN
              /\ override \in Sources \cup {None}
WorkType == /\ jobs \in [JobIds -> JobRecord]
            /\ leases \subseteq JobIds
            /\ evidence \in Seq(EvidenceRecord)
RecordType == /\ effects \in [EffectIds -> EffectStatus \cup {"absent"}]
              /\ findings \in [FindingIds -> {"absent", "blocking", "cleared"}]
AccountType == /\ usage \in Usage
               /\ reserved \subseteq Operations
               /\ receipts \in [Operations -> Receipts \cup {None}]
               /\ charges \in [Operations -> Charges \cup {None}]
EndType == /\ outcome \in Outcomes \cup {None}
           /\ cancelRequested \in BOOLEAN
           /\ certificates \in Seq(CertificateRecord)
EnvType == /\ expired \in BOOLEAN
           /\ shell \in [job : JobIds, effect : EffectIds, scope : Nat] \cup {None}
           /\ orphans \subseteq JobIds

\* The type invariant of TaskState and of the leases table.
TypeOK == /\ GenerationType /\ ScopeType /\ ContractType /\ SourceType /\ WorkType
          /\ RecordType /\ AccountType /\ EndType /\ EnvType

\* A completed task is covered by its last certificate: the certificate is of
\* the current generation, contract and frozen candidate, that candidate was
\* delivered, and for every check of the contract the certified job's evidence
\* is the last attempt at it and satisfies its policy.  No later event
\* (steering, shell, late accounting, audit, recovery) leaves "complete"
\* standing without them (completion::evaluate, TaskState::apply).
CertificateSound ==
    outcome = "complete" =>
      /\ certificates # <<>>
      /\ contract # None /\ Frozen
      /\ LET cert == certificates[Len(certificates)]
         IN  /\ cert.generation = generation
             /\ cert.contract = contract
             /\ cert.source = candidate.source
             /\ DOMAIN cert.evidence = DOMAIN contract.checks
             /\ \A k \in DOMAIN contract.checks : \E i \in DOMAIN evidence :
                   /\ evidence[i].job = cert.evidence[k]
                   /\ evidence[i].generation = generation
                   /\ IsLast(i, Identity(contract, candidate.source, k))
                   /\ Satisfies(evidence[i].result, contract.checks[k])
                   /\ RetryPolicy(i, evidence[i].identity, contract.checks[k])
      /\ delivery = [source |-> candidate.source, kind |-> contract.delivery]

\* While a task says "complete" nothing of it is open: no running or unknown
\* job, no unreconciled effect or provider attempt, no blocking finding, no
\* pending amendment, no cancellation, and the spend, late charges included, is
\* within its contract (completion::evaluate, the terminal checks of
\* Store::change, the late-accounting rule of TaskState::apply).
CompleteIsSettled ==
    outcome = "complete" => contract # None /\ Discharged

\* An amendment is pending exactly while some user directive is newer than the
\* scope the accepted contract was compiled for: no interleaving of steering,
\* editing, shells and contract admission loses a follow-up or waits for none.
AmendmentExact ==
    amendmentPending <=> \E r \in Requests : directives[r] > admittedScope

\* Within a generation, while the task is open, all evidence is about the
\* current contract and candidate: whoever changes either starts a generation
\* or (the user shell) closes the task.
EvidenceCurrent ==
    Open => \A i \in DOMAIN evidence :
              evidence[i].generation = generation =>
                /\ contract = evidence[i].identity.contract
                /\ candidate # None
                /\ candidate.source = evidence[i].identity.source

\* A lease row exists only for a running check: every settlement, fence,
\* directive and recovery drops the rows of the jobs it takes out of "running".
LeasesSound ==
    \A j \in leases : /\ jobs[j].status = "running"
                      /\ jobs[j].kind = "check"
                      /\ jobs[j].identity \in Identities

\* A job reports at most one observation, and none while it still runs.
EvidenceOnce ==
    \A i \in DOMAIN evidence :
      /\ jobs[evidence[i].job].status \notin {"absent", "running"}
      /\ \A n \in DOMAIN evidence : evidence[n].job = evidence[i].job => n = i

\* Verifiers report once: leases belong to running checks and every job has at
\* most one observation, whatever settlements, fences, directives, reopenings
\* and restarts come in between (begin_check, finish_check, settle_job_record).
ObservedOnce == LeasesSound /\ EvidenceOnce

\* No agent execution that writes the workspace is unresolved while the
\* candidate is frozen: what is verified and delivered has no active writer of
\* the host's (select_candidate, start_job_record, begin_shell).
WriterExclusion ==
    Frozen => \A j \in JobIds :
                jobs[j].kind = "execution" /\ jobs[j].mutates => ~Unresolved(j)

\* A settled task that stays settled keeps its contract, candidate, evidence,
\* certificates, findings and scope; only accounting, reconciliation, an audit
\* and the result of a user shell still move it (Store::change).
TerminalFrozen ==
    [][ outcome # None /\ outcome' # None /\ shell = None =>
          UNCHANGED <<contract, candidate, baseline, evidence, certificates,
                      findings, scope, admittedScope, directives, reserved>> ]_vars

\* History is never rewritten: evidence and certificates are only appended to,
\* a settled job keeps its status, a settled effect its own (but for the shell
\* that owns it), a known cost or end of a provider attempt stays, and spend
\* never shrinks (settle_job_record, fence_job, record_effect,
\* record_model_call, account_usage).
IsPrefixOf(s, t) == Len(s) <= Len(t) /\ \A i \in 1..Len(s) : t[i] = s[i]

HistoryKept ==
    [][ /\ IsPrefixOf(evidence, evidence') /\ IsPrefixOf(certificates, certificates')
        /\ \A j \in JobIds : jobs[j].status # "absent" /\ ~Unresolved(j)
                                => jobs'[j] = jobs[j]
        /\ \A e \in EffectIds : effects[e] # "absent" /\ ~UnresolvedEffect(e)
              => effects'[e] = effects[e] \/ (shell # None /\ shell.effect = e)
        /\ \A o \in Operations :
              /\ charges[o] # None => charges'[o] = charges[o]
              /\ receipts[o] # None =>
                    /\ receipts[o].billed => /\ receipts'[o].billed
                                             /\ receipts'[o].tokens = receipts[o].tokens
                    /\ StatusKnown(o) => receipts'[o].status = receipts[o].status
        /\ usage'.tokens >= usage.tokens /\ usage'.calls >= usage.calls ]_vars

\* The task's usage is exactly what its receipts and charges say: every
\* reservation is one call, every known cost and every charge is counted once,
\* however late, repeated or partial the provider's reports are
\* (account_usage, record_model_call, TaskState::apply).
Total(f) == MapThenSumSet(LAMBDA o : f[o], Operations)
BilledTokens ==
    [o \in Operations |-> (IF receipts[o] = None THEN 0 ELSE receipts[o].tokens)
                         + (IF charges[o] = None THEN 0 ELSE charges[o].tokens)]
BilledCalls == [o \in Operations |-> IF charges[o] = None THEN 0 ELSE charges[o].calls]

UsageExact ==
    /\ usage.tokens = Total(BilledTokens)
    /\ usage.calls = Cardinality(reserved) + Total(BilledCalls)

\* No observation crosses a restart: a check that was running when a host died
\* never becomes evidence, whether recovery closed its task or found it already
\* settled and a user reopened it later (recover_interrupted, finish_check).
NoOrphanEvidence ==
    [][ \A i \in DOMAIN evidence' \ DOMAIN evidence :
          evidence'[i].job \notin orphans ]_vars
=============================================================================
