# Orvek: a TLA+ model of the durable host and of what surrounds it

Orvek runs coding tasks for a user. A detached *host* owns durable sessions and tasks in
one SQLite journal, drives a model provider and sandboxed executions, accepts work over a
local socket, and says that a task is *complete* only with a certificate over current
evidence. What is hard to get right is not any single operation but what happens between
them: follow-ups that arrive while a turn publishes, verifiers that report after the
candidate moved, a bill that comes after completion, a crash between two commits, a
wake-up that is lost, a turn whose error path forgets to settle it. This directory models
those parts and the clients, services and tools around them, checks them with TLC on
small instances and proves the central ones with TLAPS for every instance.

Paths below are relative to `src/crates/harness/src/` unless they start with `src/`.

## Inventory

| Part | State | Operations | What is hard | What makes it correct |
|---|---|---|---|---|
| Task aggregate (`state.rs`, `store.rs`, `store/manual.rs`), certificate (`completion.rs`) | `TaskState`: generation, scope, contract, candidate, jobs, evidence, effects, findings, usage, outcome; the `leases` table | about thirty store operations, each one transaction; `evaluate` | late reports, steering during admission, late billing, restarts | completion only over current evidence, nothing open behind it, exact accounting |
| Submission queue (`store/submissions.rs`, `controller/submissions.rs`), turns and host admission (`controller.rs`, `controller/manual.rs`) | submissions, order, statuses; `active_request`, `Host::active`, permits, `accepting` | submit, steer, edit, move, promote, cancel, claim, requeue, finish, recover; classify, start, continue, resume, shell, publish, settle, shut down | edits racing with the claim, requeue on Busy, two entrances to one session, error paths after a turn was opened | one turn at a time, each request at most once and with its shown text, no permit leaked; a turn that is left to nobody is not reported as done |
| Task phases (`controller/task_phases.rs`) | position of a turn, its loaded task | context, reserve, call, receipt, retry, propose, freeze, check, deliver, complete, stop | a scope that moves while a phase runs, cancellation, deadlines | what is published is what was checked; every call has its receipt |
| Event intake (`event_intake.rs`, `store/event_intake.rs`, `controller/event_intake.rs`) | sources, cursors, event rows | register, deliver, cancel, disable, the once-a-second loop | several commits per event, crashes between them, clock jumps | at most one admission, none after withdrawal, no occurrence lost |
| Completion notifications (`controller/notification.rs`) | deliveries in `SessionState` | arm, claim, run, finish, recover | a crash between claim and process | at most one process per request, after its turn |
| Subagents (`controller/subagents.rs`) | registry of children, inboxes, journal | spawn, message, steer, wait, interrupt, recover | parent cancelled, registry full, restart | children end with their parent, the registry is what the journal replays |
| Answers (`controller/auxiliary.rs`), contracts and checks (`contract*.rs`, `verification.rs`), context (`context.rs`) | receipts, verdicts, windows | answer, classify, admit, amend, verify, assemble | limits, partial answers, exchanges cut in two | exact accounts, no obligation lost, whole exchanges |
| Journal (`session.rs`, `store.rs`), traces, imports, review capture | records, checkpoints, cursors | append, replay, fork, export, import, capture | retries, forks, a tree that moves | every cursor replays the same session |
| Sandbox and delivery (`runtime/`, `workspace.rs`, `src/crates/executor`), capabilities, interpreter, monitor | trees, containers, processes, cells, episodes | prepare, run, export, exchange, publish; read, edit, run; start, checkpoint; sample, repair | the owner's edits, crashes in the exchange, results for lost cells | nothing of the owner overwritten unseen; state kept or reported lost |
| Inference (`inference/`) | attempts, streams, credentials | respond, retry, decode, refresh, login | a rotated refresh token whose answer is lost; two attempts in one answer | no token presented twice, nothing billed sent again |
| Operator protocol (`ipc.rs`) and the terminal client (`src/bin/orvek/src/tui`) | watchers, projections, panes, drafts, dialogs, rows | watch, reconnect, submit, acknowledge, edit, scroll | lagging channels, answers for a pane that moved on | the journal is seen once and in order, no draft or prompt lost |
| Memory (`src/crates/memory`), settings, updater, local review server and page | records, versions, files, sessions | put, expire, sync, export; load, persist; install; ask, refresh | ids reused, lost answers, concurrent writers, stale pages | identities once, only whole releases, one version shown |
| Command line, scripts | none | parse, print, build | nothing of their own | not modelled |

The store has one lock and every operation is one transaction, so an operation is one
step; everything else interleaves at the awaits between them. The order of locks is
queue workers, active table, store; the intake lock is outside all of them.

## Modules

*Core of the host.*

**`Task`** is the task aggregate. Its variables are the fields of `TaskState` that any
rule reads, the `leases` table, and two history variables. One action per store
operation, under the operation's name. A stale expected revision is a refused call and
therefore a stuttering step, so `revision` is left out; `phase` is a label no rule reads.
Digests are the values they stand for. `elapse` lets the deadline pass at any time;
`recover_interrupted` is the restart.

**`SubmissionQueue`** is one session of the host: clients, the queue worker, requests
executed directly over IPC, other sessions competing for permits, shutdown, and a crash
with its staged recovery. Each actor has a position in the code of `run_queue`,
`execute_task_request`, `execute_auxiliary` and `execute_shell`, split at their awaits: a shell
reads its submission (`load_shell`) before it takes the scope of the task (`prepare_shell`), and
the error path of a turn reads the task (`settle_error`), waits for the checkpoint of the
workspace and stops the task at the revision it read (`stop_failed`), which a steer or a
cancellation in between refuses: the turn then stays active.
A task is reduced to its outcome here. `Circumstances` names what may happen outside the
session: contended permits, a task left with unresolved work, an answer that overspends,
a tree that cannot be captured.

**`TaskController`** is one turn of a task from admission to its end. `turn.fresh` says
that nobody else has committed since the turn loaded the task, which is what
`predicates_match` and the expected revision compare; the operator, the deadline and a
child agent commit in between. `finish_run` fails when a follow-up took the outcome back
before the turn is settled.

**`EventDelivery`** is the promise of `docs/event-intake.md` for one logical event:
unknown, received, admitted, done or dropped, and withdrawn or not. **`EventIntake`** is
the code: the holder of the `event_intake` lock works through copies of event rows, one
commit at a time, while the queue, operators, shutdown and crashes interleave. The queue
is its environment, with the moves a submission can make in `SubmissionQueue` (`QueueMoves`):
claimed work may also be put back or cancelled before it begins.
`EventIntake` implements `EventDelivery` under the mapping `Phase`, `WithdrawnEvents`.

**`CompletionHook`** is the notifications of one session: a hook armed with a request,
claimed durably before its process is spawned, delivered by the turn that ended or by the
recovery of a restarted host. A steered follow-up takes the outcome of the task back; when it is
then cancelled in the queue (`hook_cancel`) or refused (`hook_refuse`), or when the turn is
abandoned by an error (`hook_abandon`), nothing returns the outcome before the next turn or
restart: an earlier delivery is `LeftBehind` until then. **`Subagents`** is the registry of
children with its journal; a child holds the registry while it takes its inbox into the
conversation, one commit per message (`read_inbox`), and a crash may come between two of them.
**`Watch`** is the watch stream from the journal to a reconnecting view, and the queue view
that is loaded in parts.

*Around the core*, each an own state machine with the environment it meets:

| Module | Part |
|---|---|
| `Auxiliary`, `Acceptance`, `Context` | answers and classification; contracts and verdicts; the window of a provider call |
| `Journal`, `TraceReplay`, `LegacyImport`, `ReviewCapture` | the session journal and its forks; forensic bundles; imports; captures of a moving repository |
| `Sandbox`, `Delivery`, `Capabilities`, `Interpreter`, `Monitor`, `Sloppiness` | one isolated job; patch and reproduction; native tools; interpreter cells; behaviour monitor; diff heuristics |
| `Provider`, `Installer`, `Settings` | one provider call, and the credentials that several processes share; releases; settings |
| `MemoryStore` | the local store of memories, and the memory of a team behind the remote client and server |
| `HostConnection`, `Terminal`, `Screen`, `Panes`, `Composer`, `MemoryPanel`, `TranscriptModel` | the connection to a host; input and its acknowledgement; dialogs and keys of a pane; panes and sessions; the draft; the memory browser; the rows of the transcript and their viewport |
| `ReviewServer` | the review session and its page |

**`MCTask`, `MCSubmissionQueue`, `MCEventIntake`** give the constants of the core values.
**`MCProgress`, `MCServices`, `MCWorkbench`** check many independent components in one run:
`part` chooses the component a behaviour is about and the others stand still.
**`TaskProofs`, `SubmissionQueueProofs`, `EventIntakeProofs`, `TurnProofs`, `ProgressProofs`,
`ReviewProofs`, `ServicesProofs`** and the end of `CompletionHook` hold the theorems. Definitions whose names end in `_bug` are
plausible mistakes in the definition they are named after; replacing it by one must break
the property it is listed with, which shows that the property says something.

In the map of `PROJECT.json` the lines of a small helper function are listed with the
definition that uses it.

## Runs

| Run | Instance | Properties |
|---|---|---|
| `task_evidence` | two jobs, two candidates, two contracts (any failure rejects, one retry), one follow-up, five generations; or one check with two accounting operations, partial and final receipts, charges and two limits | `TypeOK`, `CertificateSound`, `ObservedOnce`, `CompleteIsSettled`, `UsageExact`, `TerminalFrozen`, `NoOrphanEvidence` |
| `task_controls` | agent executions, an effect, a user shell and checks on two candidates; or one job, effect, finding and a baseline control with every other operation | `AmendmentExact`, `EvidenceCurrent`, `WriterExclusion`, `HistoryKept` |
| `queue_turns` | an ordinary input, a new task, a direct request, one permit other sessions take too, one crash | `TypeOK`, `OneTurn`, `QueueConsistent`, `RequestsOnce` |
| `queue_followups` | a follow-up with two texts, a direct request and a resume, or one text and a user shell; unresolved work, refused captures, two permits, one crash | `ReportsTrue` |
| `queue_settles` | an ordinary input and an auxiliary request whose answer may pass its allowance, one crash, no contention | `AbandonedReported`, `AllSettle` |
| `intake` | two deliveries of a webhook, a schedule under a jumping clock, a queue of one, a foreign submission, one crash that may lose the authority | `TypeOK`, `SettledIsFinal`, `SchedulesExact`, `ForeignUntouched`, `DeliveredAtMostOnce` (the refinement), `EventSettles` |
| `progress` | `CompletionHook` (two requests, two crashes), `TaskController`, `Subagents` (two children, one running, two messages, two crashes), `Watch` and its queue view | `HookSound`, `AgentsSound`, `ViewsSound`, `TurnsFenced`, `EverythingEnds` |
| `services` | nineteen components: connection, terminal, transcript, provider, credentials, installer, memory, review, acceptance, answers, monitor, heuristics, interpreter, tools, journal | `ClientSound`, `ProviderSound`, `MemorySound`, `ReviewSound`, `JudgementSound`, `ToolsSound`, `ServicesSteps` |
| `workbench` | screen, panes, composer, settings; sandbox, delivery, traces, imports, captures, context | `ScreenSound`, `FilesSound`, `HistorySound`, `WorkbenchSteps` |
| `queue_abandoned`, `child_leak`, `review_dialog` | the smallest instance of each finding below | one property each, violated |

For three components the property states what the code leaves open as well. `MemoryStore`: a
snapshot of the service (`sync_snapshot`) voids no key, and may bring back a version number a
session has read before; `NothingOverwrittenUnseen` and `ReadRecordsStay` are therefore about
keys read since the last one (`overtaken` names the other sessions). An import keeps the use
count and the probation of the archive, so a record whose probation is over is inserted and
pruned again by every import; `ImportIdempotent` is about what can still be read.
`ReviewServer`: the page asks a question also while it renews its session, since
`startQuestion` looks only at `agentOperation`; when the new session is installed over such a
question (`ui.overlapped`), a late poll of it may end whatever operation the page has by then,
and `QuestionFollowed` excepts it. `by` tells an operation the page started from one it took
over from the server. `HostConnection`: the inspection of artifacts reads the tree of
`workspace_override` where the task has one.

The properties of `progress`, `services` and `workbench` are conjunctions, per component,
of properties stated and explained in the component's own module.

**Bounds.** Two jobs are enough for a report to be late with respect to another; two
candidates and contracts for evidence to be about the wrong one; generations are bounded
so that a task can be completed, reopened and completed again. State constraints divide
very large state spaces by question: `EvidenceRun`, `BillingRun`, `WriterRun` and
`ReconcileRun` of `MCTask` each cut off the job kinds, statuses and interruptions that
their properties do not turn on, `FollowUpRun` of `MCSubmissionQueue` keeps a direct
resume and a second text apart from a user shell, `TurnsRun` lets other sessions take
permits before the direct request and the restart. The theorems below hold without the
constraints and for every value of the bounds. One session suffices for the queue because
sessions share only permits, which `others_take` and `others_release` represent.
`Capacity` is 2 in place of 16 and `Permits` 1 or 2 in place of 4: both are reached. The
number of task ids is at least the number of requests that can create a task, since ids
are fresh in the code. For schedules, time 3 with first due time 0 and period 2 gives
two occurrences, catch-up over both at once, and a next due time that does not fit.
In the grouped runs every counter named `Max...` is a bound on what users, other processes
or faults do, one or two where one such event between any two steps is the question, and
limits of the code (attempts, rows, pages, windows) are small enough to be reached. Three cases
are outside the instance of the run that states the property and left to the theorem about it:
receipts and charges in `HistoryKept` (`task_controls` has none; `HistoryIsKept`), a full intake
in `SchedulesExact` (one key never fills it; `SchedulesKept`), and combinations of a foreign
submission with schedules (`ForeignLeftAlone`). In `queue_settles` the worker never parks and is
never refused a permit, so that `AllSettle` says nothing of a wake-up lost under contention.

**Deadlock** is not checked: a settled task, an idle host and a bounded instance may rest.

**Fairness.** Weak fairness of the queue worker, of each direct request, of `wake_queue`
and of the restart: they are tasks of the runtime with no lock they could wait for for
ever, and a turn is bounded by deadlines and budgets. Other sessions give permits back
for the same reason. For the intake the loop has strong fairness, since tokio's mutex is
first-come first-served: a loop that asks again and again is served again and again even
if clients hold the lock in between. Weak fairness of the lock holder and of the queue's
claims. Strong fairness of the queue's end of work: a claim that finds no permit is put back and
made again, and is not refused for ever, because every run of another session is bounded by its
deadlines and wakes the queue when it gives its permit back. In `progress`, weak fairness of the turn, of each child, of the
recovery of a restarted host, of the server and the viewer of a watch and of the reload of
the queue view. No fairness is assumed of clients, crashes, lost connections or shutdown.

## Findings

1. `queue_abandoned`. `NoAbandonedTurn` says that the active request of a running host is a
   pending submission or a direct request in flight. The comment in
   `controller/submissions.rs` on a failed classification says why: otherwise the session
   "rejects every later submission until the host restarts". It fails when a classified input finds no
   permit, is requeued as Busy and then cancelled while queued: its turn stays open. With
   other circumstances it fails in the same way when an ordinary action is routed to the
   continuation of a stopped task with unresolved work, when the last call of an answer
   passes its token allowance, when the tree a shell leaves cannot be captured, and when the
   stop of a failed turn is refused because the task moved during the checkpoint. What does hold,
   and is proved, is `AbandonedReported`: such a turn is shown as failed or, if it was put back,
   as cancelled, never as finished or interrupted.
2. `child_leak`. The error path of `execute_task_request` settles the turn without
   `cancel_for_request`: children spawned by it go on, which `end_task`'s comment rules out.
3. `review_dialog`. The confirmation for downloading the review page is opened while the
   review already blocks the pane, so no key reaches the dialog.

## Theorems

All of them are about every choice of the constants that satisfies the named assumptions
of the module (well-formed contracts, receipts and charges; natural-number bounds; a
period above zero and a first occurrence that fits the clock; disjoint id spaces). None of
the invariants is inductive as the runs state it; the strengthenings are described below.

*Task* (`TaskProofs`):

- `TypeCorrect`: `TypeOK` and `LeasesSound`. They are inductive only together and with
  `ShellSound` (the active shell's job is a shell job): the evidence `finish_check` appends
  takes its identity from the leased job.
- `FollowUpsKept`: `AmendmentExact`. The strengthening (`ScopeInv`) says that neither the
  admitted scope nor any directive is ahead of the scope revision.
- `CompletionSound` and `CompletionSettled`: `CertificateSound` and `CompleteIsSettled`,
  which are inductive together with the type invariant: `complete` establishes both, and
  every other operation either keeps everything they speak of or takes the outcome away.
- `VerifiersReportOnce`, `EvidenceIsCurrent`, `NothingCrossesARestart`: `ObservedOnce`,
  `EvidenceCurrent` and the action property `NoOrphanEvidence` from one invariant,
  `EvidenceInv`: no job or observation is of a later generation, a check of the current one
  is about the current contract and candidate, and an orphan of a restart that still has its
  lease has lost its generation by the time the task is open.
- `WritersExcluded`: `WriterExclusion`, from `WriterInv`: while a user shell is open no agent
  execution is unresolved, since the end of a shell may freeze a candidate too.
- `SettledStaysPut` and `HistoryIsKept`: the action properties `TerminalFrozen` and
  `HistoryKept`, one step per store operation.
- `UsageIsExact`: `UsageExact`, the ledger is the sum of the charges on record, whatever the
  order and the number of partial and final receipts. The sum over the set of operations
  is a fold; the lemmas about it (one more member, one member changed) are proved from the
  definition by induction on the cardinality (`SmallestNumber`, `NumberInduction`,
  `SetInduction`: a set of numbers or of sets is the parameter where the library's
  theorems have an operator). The proof needs `OperationsAssumption`: finitely many
  operations, as in any journal.

*Submission queue* (`SubmissionQueueProofs`):

- `SessionTypeCorrect`, `OneTurnAtATime`: `TypeOK` and `OneTurn`
  (`PermitsExact` and `SingleTurn`). `TurnInv` says who acts for the session: the record of
  every actor fits its position, an actor between `enter_active` and its release is the one
  in `Host::active`, a host that is down has nobody, and the holders of permits are a finite
  set whose size the counter tracks.
- `QueueReportsTrue`: `ReportsTrue`. `ReportInv` adds what the worker has in hand (its kind
  of request, the claimed text, the turn it keeps), that a host which stopped accepting has
  nothing pending, that a request which has run was admitted, and that a follow-up counts
  for a task only after it was registered there. `AbandonedReported` needs `ActiveInv` besides:
  the submission of the active request is in the hands of the worker, failed, or an ordinary one
  that was put back (`ActiveKept`); a run with the result of a success has given the session back,
  and so has one that is refused before it begins (`GaveBack`).
- `QueueOrdered`: `QueueConsistent`, the order holds every pending submission exactly once
  and nothing else. The lemma `RetainFacts` says what remains of an order from which a
  submission is removed; `Retain` is written as the subsequence of the positions kept, since
  the prover cannot expand the recursion in `SelectSeq`.
- `NothingReplayed`: the action property `RequestsOnce`. The proof of its second half
  corrected the property: `Host::cancel` does not look at `accepting`, so a cancellation can
  still be recorded on an open task after `shutdown_if_idle` agreed; nothing else changes.

*One turn of a task* (`TurnProofs`), from the invariant `TurnKeeps`:

- `CompletionIsCovered`: `CompletionCovered`. Rests on `OutcomeLast` (a task with an outcome
  leaves its turn only the way out) and `ScopeFence` (a superseded turn never has an
  accepted contract again).
- `EveryCallReceipted`: `CallsReceipted`, from `Ledger` (only a call in flight has no receipt).
- `ChildrenEndWithTurn`: `SettledCancelsChildren`, from `ChildrenStopped`. The hypothesis that
  the turn did not fail is needed: without it the property is finding 2.
- `FollowUpFences`: the action property `SupersededStartsNothing`.

*Subagents* (`TurnProofs`):

- `ChildrenSound`: every conjunct of `AgentsSound` that is about the registry. `AgentInv` says
  per child that its journal can be replayed (its messages are numbered without a gap and are
  consumed in order), that its row in the registry is that replay, and when its loop may be
  up; and that the sequences of all children are distinct and below the registry's counter.

*Watch stream* (`ProgressProofs`):

- `WatchSound` and `ReconnectionCurrent`: the view has every record once and in order, what was
  confirmed stays, and a view that is connected again shows what was committed before the
  loss. `WatchInv` relates the four copies of the stream: the journal frames on the socket go
  on without a gap from the cursor of the terminal to the cursor of the server (`Stream`),
  the view is at that cursor (`AtCursor`), a response shown as finished is among the records
  applied (`Shown`), and a connection made after a loss announced at least what was committed
  by then (`Promised`).
- `QueueViewSound`: the view of the queue that is loaded in parts never shows a mixture of two
  revisions.

*Composition* (`ProgressProofs`): a step of a grouped specification is a step of one component
and leaves the others alone (`EachComponent`), so the invariants of the components carry over:

- `AgentsAlwaysSound`, `ViewsAlwaysSound`, `TurnsAlwaysFenced`: the properties `AgentsSound`,
  `ViewsSound` and `TurnsFenced` of the run `progress` as they stand there.

*Provider, credentials and releases* (`ServicesProofs`), in the composition of `services`:

- `ProviderAlwaysSound`: `ProviderSound` as the run states it, from one invariant per
  component. `CallInv`: between attempts nothing was generated or decoded, since only a
  rejection that precedes generation leads to another attempt (`Quiet`); a clean status on the
  last attempt, or no dispatched attempt, means that nothing was generated (`AttemptsTell`);
  known usage is what was generated (`Measured`). `CredInv`: logins are numbered as they are
  made and the file is never of one older than the last made through Orvek (`FileInv`); an
  instance that refreshes holds the lock (`HeldInv`); a token that was presented is held only
  with `refresh_uncertain` set and comes back into the file only while it is held (`SentInv`);
  the token a refresh is answered with is nobody's yet (`AnswerInv`). `InstallInv`: a process
  that loads or quarantines the review page holds the lock and finds no whole page
  (`UpdaterOk`).
- `ServiceStepsSound`: the steps of `ServicesSteps` that are about the components with
  theorems: a refresh token is presented once and only when its access token ended
  (`PresentedOnce`, `RefreshNeeded`), files that are whole stay (`ValidStays`), and a review is
  decided once, about a page of the current session (`DecisionAboutCurrent`).

*Reviews* (`ReviewProofs`, composed in `ServicesProofs`):

- `ReviewAlwaysSound`: `ReviewSound` as the run states it, from an invariant for the server and
  one for the page. `ReviewInv`: a handler of the current generation works on the current
  version, and what it collected between two equal readings of the workspace is of that
  version, since a version never comes back (`HandlerOk`); an agent operation is of its
  generation and the thread it answers is waiting for it (`JobOk`, `ThreadOk`, `OverviewOk`);
  there is one operation (`Lonely`). It is needed because every handler reads the session,
  waits, and writes to what may be another session by then. `BrowserInv`: a question under way
  has its timer, a poll or its own request (`Supported`), and exactly one of them, of the session
  shown, unless the session was installed over a question (`CleanOk`); one request renews the
  session (`RenewalOk`); a range or overview that is awaited has its request (`AwaitedOk`); a poll
  that was refused is of an older generation than the server's (`CallOk`), so that a page which
  gives a question up without an answer shows an old session (`PageOk`).

*Completion notifications* (end of `CompletionHook`):

- `NotifiedOnce`: `HookSound`. `HookInv` says who holds an open attempt: a claimed or running
  delivery is interrupted on disk, has one holder, and was not started before its holder
  spawns it; a request being armed is neither linked nor claimed.

*Event intake* (`EventIntakeProofs`):

- `IntakeTypeCorrect`, `SettledForGood`, and `IntakeDelivers`: `EventIntake` implements
  `EventDelivery`. The inductive invariant `IInv` states what the lock holder may rely on
  between its commits: copies on its list are the rows as stored (`TodoFresh`), the copy in
  hand is not listed again (`InHand`), the row is not settled once the holder is past its
  early return (`StillOpen`), the copy written back has the stored cancellation
  (`CancelAgrees`), and per position what the queue can still be (`AtCancel`,
  `AtWithdraw`, `AtAdmit`, `AtSave`, `AtConflict`). It is needed because the holder writes
  a whole copy back: a stale one could undo a settlement or a cancellation. Each action is
  then shown to be one abstract step or none. At most one admission does not depend on
  fairness, so the abstract specification has none.
- `ForeignLeftAlone`: the action property `ForeignUntouched`, from `IInv`.
- `SchedulesKept`: `SchedulesExact`. `ScheduleInv` adds that a cursor is on the grid of due
  times and ahead of every event of its schedule, and that one event is outstanding at most;
  the arithmetic of the grid is in the lemmas `MultiplesApart`, `Multiples`, `GridAdvances`.

**Only model-checked.** Liveness (`AllSettle`, `EventSettles`, `EverythingEnds`) is out of
the proof system's reach. `NoAbandonedTurn` is false (finding 1). Of `services` the provider call, the
credentials, the installer and the review have theorems, the other components and `workbench`
have none: they are many and independent, so that each is an invariant and a proof of its own.

## What is left out

- Of the modelled parts: error texts, diagnostics and previews; the replay of an edit or
  move operation id, which changes nothing; `queue_stop`, cancelled only in tests; the
  handler that ends a worker when the store itself fails; a store error that ends the
  intake loop. The order in which the intake loop visits events and sources is any order.
- `Task`, `SubmissionQueue` and `TaskController` are composed by abstraction, not by
  instantiation: the queue's `Redirect`, `tasks` and `entered`, and the controller's `task`,
  are what each sees of the aggregate.
- The component notes of `PROJECT.json` say per part what is abstracted: wire formats,
  object encodings, drawing, prompts, rankings and the SQL.

Behaviours met while modelling that no document speaks of, so that no property is stated:

- Queue and turns: a shell whose tree cannot be captured keeps its turn until a restart, and
  a crash in the middle of a shell leaves the session waiting for a reconciliation; a
  request refused after it took a permit gives it back without waking the queue; `run_queue`
  loads the session before the classifier answers (`controller/submissions.rs:338`), so the
  task continued may no longer be the session's current one; two revision conflicts in a
  row in `stop` leave a turn to the next start.
- Answers and context: an answer that overspends is not settled; after a transition no byte
  omission is tried again before `ContextError::Limit`.
- Terminal: overlapping queue edits, a session reset or a handoff during one, and an
  acknowledgement while browsing the history each lose the draft that was put aside; the
  draft editor and `!` commands drop attached reviews; Enter in a reflection replaces a
  pending submission; a rejected shell submission stays counted as in flight.
- Files: a native write is not atomic; an edit of the settings between reading and renaming
  is lost, and a failing save of the theme ends the event loop; two updaters may leave the
  older release; undoing a failed exchange of trees may itself fail.
- Services: the page of a review discards feedback written during a refresh; an old host may
  unlink the socket of its replacement; the memory browser drops a failed deletion when a
  late load answers; a character literal holding a quote opens a string in the comment
  stripper; the poisoned flag of a refresh token is kept per process.

## Plan

Done: the task aggregate with its certificate, the session queue, one turn of a task, the
event intake with its refinement, notifications, subagents, the watch stream, and the
clients, services and tools of the table above; theorems about every invariant and action
property of the core and of `progress`, and about provider calls, credentials, releases and
reviews.

Next, in this order:

1. `MemoryStore`: `NothingOverwrittenUnseen` and `IdentityOnce` for any number of sessions, and
   at most one effect of a remote put.
2. `Settings`: the action properties of its files.
