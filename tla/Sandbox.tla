------------------------------ MODULE Sandbox -------------------------------
(***************************************************************************)
(* One command in a container: DockerExecutor::run_with_policy and the     *)
(* fence of its container (harness runtime.rs), the staged workspace and   *)
(* its publication (runtime/workspace.rs), the receiver of the export      *)
(* (runtime/transport.rs) and the supervisor inside the container          *)
(* (executor supervisor.rs).  The owner of the workspace may edit it at    *)
(* any time; the process may die between any two steps.                    *)
(***************************************************************************)
EXTENDS Naturals, FiniteSets

CONSTANTS
    Jobs, Paths,
    ReadOnly,        \* the jobs that only read the workspace
    RetainedGuests,  \* limits.retained_guests
    MaxOwnerEdits,        \* bound on edits of the owner
    MaxSandboxFaults        \* bound on failing Docker calls and system calls

ASSUME SandboxAssumption ==
    ReadOnly \subseteq Jobs /\ {RetainedGuests, MaxOwnerEdits, MaxSandboxFaults} \subseteq Nat

VARIABLES
    dirs,       \* directory -> its tree: "root0" and one incoming per job
    rootAt,     \* the directory that is at the path of the workspace
    job,        \* what run_with_policy knows
    sup,        \* the supervisor of a job, in its container
    container,  \* what Docker says: none, created, running, exited
    lease,      \* the job that holds .orvek-runtime-lock, or NoJob
    kept,       \* directories of this workspace kept for recovery
    budget      \* edits, faults and guests retained by others so far

sandboxVars == <<dirs, rootAt, job, sup, container, lease, kept, budget>>

NoJob == "no job"
Other == "another process"
FileValues == 0..2                  \* original, written by a guest, by the owner
Tree == [Paths -> FileValues]
Dirs == {"root0"} \cup Jobs     \* the incoming directory of j is named j
RunStatuses == {"none", "Exited", "Cancelled", "TimedOut", "OutputLimit", "Failed", "Unknown", "NotStarted"}

SandboxTypeOK ==
    /\ dirs \in [Dirs -> Tree] /\ rootAt \in Dirs
    /\ \A j \in Jobs : job[j].status \in RunStatuses /\ job[j].forced \in RunStatuses
    /\ container \in [Jobs -> {"none", "created", "running", "exited"}]
    /\ lease \in Jobs \cup {NoJob, Other} /\ kept \subseteq Dirs

Original == [p \in Paths |-> 0]
NewRun == [pc |-> "idle", status |-> "none", forced |-> "none", baseline |-> [at |-> "root0", tree |-> Original],
           incoming |-> "root0", cancelled |-> FALSE, late |-> FALSE,
           entries |-> {}, complete |-> "none", failure |-> FALSE, guest |-> Original, undone |-> TRUE]
NewSupervisor == [at |-> "off", tree |-> Original, outcome |-> "none", stop |-> FALSE, descendants |-> FALSE]

SandboxInit ==
    /\ dirs = [d \in Dirs |-> Original] /\ rootAt = "root0"
    /\ job = [j \in Jobs |-> [NewRun EXCEPT !.incoming = j]]
    /\ sup = [j \in Jobs |-> NewSupervisor]
    /\ container = [j \in Jobs |-> "none"]
    /\ lease = NoJob /\ kept = {} /\ budget = [edits |-> 0, faults |-> 0, retained |-> 0]

Fault == budget.faults < MaxSandboxFaults /\ budget' = [budget EXCEPT !.faults = @ + 1]
NoFault == budget' = budget

\* The staging directory is dropped and the lease with it; what is not kept
\* is deleted.
Return(j, status) ==
    /\ job' = [job EXCEPT ![j].pc = "done", ![j].status = status]
    /\ lease' = IF lease = j THEN NoJob ELSE lease

-----------------------------------------------------------------------------
(* run_with_policy up to the start of the container *)

\* The request is not bounded, the helper changed or verify_identity meets
\* another daemon: a RuntimeError, nothing was started.
refuse(j) ==
    /\ job[j].pc = "idle" /\ ~job[j].cancelled /\ Fault /\ Return(j, "NotStarted")
    /\ UNCHANGED <<dirs, rootAt, sup, container, kept>>

\* Workspace::prepare: the limit of retained guests is read before the lock.
prepare(j) ==
    /\ job[j].pc = "idle" /\ NoFault
    /\ IF job[j].cancelled THEN Return(j, "Cancelled")
       ELSE IF (j \notin ReadOnly /\ Cardinality(kept) + budget.retained >= RetainedGuests) \/ lease # NoJob
       THEN Return(j, "Failed")
       ELSE /\ lease' = j
            /\ job' = [job EXCEPT ![j].pc = "staged",
                                  ![j].baseline = [at |-> rootAt, tree |-> dirs[rootAt]]]
    /\ UNCHANGED <<dirs, rootAt, sup, container, kept>>

\* Docker::remove: only an observed absence of the container counts.
RemoveGuest(j, ok) ==
    IF ok THEN container' = [container EXCEPT ![j] = "none"] /\ NoFault
    ELSE UNCHANGED container /\ Fault

\* docker create; when it fails or is too late the container is fenced.
create(j) ==
    /\ job[j].pc = "staged"
    /\ \/ /\ ~job[j].late
          /\ container' = [container EXCEPT ![j] = "created"]
          /\ job' = [job EXCEPT ![j].pc = "created"] /\ NoFault /\ UNCHANGED lease
       \/ /\ RemoveGuest(j, TRUE) /\ Return(j, IF job[j].late THEN "TimedOut" ELSE "Failed")
       \/ /\ RemoveGuest(j, FALSE) /\ Return(j, "Unknown")
    /\ UNCHANGED <<dirs, rootAt, sup, kept>>

\* docker start --attach; the request goes to the supervisor.
start(j) ==
    /\ job[j].pc = "created"
    /\ \/ /\ container' = [container EXCEPT ![j] = "running"] /\ NoFault
          /\ sup' = [sup EXCEPT ![j].at = "copy"]
          /\ job' = [job EXCEPT ![j].pc = "attached"] /\ UNCHANGED lease
       \/ RemoveGuest(j, TRUE) /\ Return(j, "Failed") /\ UNCHANGED sup
       \/ RemoveGuest(j, FALSE) /\ Return(j, "Unknown") /\ UNCHANGED sup
    /\ UNCHANGED <<dirs, rootAt, kept>>

-----------------------------------------------------------------------------
(* The supervisor *)

Alive(j) == container[j] = "running"

\* copy_source of the read-only snapshot.
copy_source(j) ==
    /\ Alive(j) /\ sup[j].at = "copy"
    /\ sup' = [sup EXCEPT ![j].at = "command", ![j].tree = job[j].baseline.tree]
    /\ UNCHANGED <<dirs, rootAt, job, container, lease, kept, budget>>

\* The command, or a process it left behind, writes a file.
command_writes(j, p) ==
    /\ Alive(j) /\ j \notin ReadOnly /\ sup[j].tree[p] # 1
    /\ sup[j].at = "command" \/ sup[j].descendants
    /\ sup' = [sup EXCEPT ![j].tree[p] = 1, ![j].descendants = @ \/ sup[j].at = "command"]
    /\ UNCHANGED <<dirs, rootAt, job, container, lease, kept, budget>>

\* The loop of run(): the signal first, then the deadline, then the child.
Outcomes(j) ==
    IF sup[j].stop THEN {"Cancelled"}
    ELSE IF job[j].late THEN {"TimedOut"} ELSE {"OutputLimit", "Failed", "Exited"}

command_ends(j) ==
    /\ Alive(j) /\ sup[j].at = "command"
    /\ \E outcome \in Outcomes(j) : sup' = [sup EXCEPT ![j].at = "ended", ![j].outcome = outcome]
    /\ UNCHANGED <<dirs, rootAt, job, container, lease, kept, budget>>

\* quiesce: every descendant is killed and reaped.
Quiesced(j) == [sup[j] EXCEPT !.at = "quiet", !.descendants = FALSE]

\* drain after the stop: output beyond the limit is dropped and counts.
Drained(j) == {sup[j].outcome, "OutputLimit"}

\* oom_kills and quota: memory or a mount is used up.
Exhausted(outcomes) == outcomes \cup {"Failed"}

quiesce(j) ==
    /\ Alive(j) /\ sup[j].at = "ended"
    /\ \/ \E outcome \in Exhausted(Drained(j)) :
             /\ sup' = [sup EXCEPT ![j] = [Quiesced(j) EXCEPT !.outcome = outcome]]
             /\ NoFault /\ UNCHANGED container
       \/ \* descendants remain: the supervisor fails without a completion
          /\ sup' = [sup EXCEPT ![j].at = "off"] /\ Fault
          /\ container' = [container EXCEPT ![j] = "exited"]
    /\ UNCHANGED <<dirs, rootAt, job, lease, kept>>

\* tree and walk: a mode, a link, a name or a size is not supported.
walk_refuses(j) ==
    /\ Alive(j) /\ sup[j].at = "quiet" /\ sup[j].outcome = "Exited" /\ j \notin ReadOnly
    /\ job[j].entries = {}
    /\ sup' = [sup EXCEPT ![j].outcome = "Failed"]
    /\ UNCHANGED <<dirs, rootAt, job, container, lease, kept, budget>>

\* One ENTRY and its FILE_DATA, taken by Receiver::frame into the incoming
\* directory.
export_entry(j, p) ==
    /\ Alive(j) /\ sup[j].at = "quiet" /\ sup[j].outcome = "Exited" /\ j \notin ReadOnly
    /\ p \notin job[j].entries /\ ~job[j].failure
    /\ dirs' = [dirs EXCEPT ![j][p] = sup[j].tree[p]]
    /\ job' = [job EXCEPT ![j].entries = @ \cup {p}]
    /\ UNCHANGED <<rootAt, sup, container, lease, kept, budget>>

Exports(j) == j \notin ReadOnly /\ sup[j].outcome = "Exited"

\* COMPLETE is the last frame and counts the entries.
supervisor_finish(j) ==
    /\ Alive(j) /\ sup[j].at = "quiet" /\ ~job[j].failure
    /\ Exports(j) => job[j].entries = Paths
    /\ job' = [job EXCEPT ![j].complete = sup[j].outcome]
    /\ sup' = [sup EXCEPT ![j].at = "off"]
    /\ container' = [container EXCEPT ![j] = "exited"]
    /\ UNCHANGED <<dirs, rootAt, lease, kept, budget>>

\* Receiver::read: an idle export or a broken stream ends the transfer.
transfer_fails(j) ==
    /\ job[j].pc = "attached" /\ ~job[j].failure /\ job[j].complete = "none" /\ Fault
    /\ job' = [job EXCEPT ![j].failure = TRUE]
    /\ UNCHANGED <<dirs, rootAt, sup, container, lease, kept>>

-----------------------------------------------------------------------------
(* run_with_policy after the attach *)

\* The select: cancellation, an invalid transfer, the deadline, the exit.
Forced(j) ==
    IF job[j].cancelled THEN "Cancelled" ELSE IF job[j].failure THEN "Failed"
    ELSE IF job[j].late THEN "TimedOut" ELSE "none"

wait(j) ==
    /\ job[j].pc = "attached"
    /\ Forced(j) # "none" \/ container[j] = "exited"
    /\ job' = [job EXCEPT ![j].pc = "waited", ![j].forced = Forced(j)]
    /\ sup' = [sup EXCEPT ![j].stop = Forced(j) # "none"]
    /\ UNCHANGED <<dirs, rootAt, container, lease, kept, budget>>

\* A container that does not stop within two seconds is removed.
kill(j) ==
    /\ job[j].pc = "waited" /\ Alive(j) /\ job[j].forced # "none"
    /\ RemoveGuest(j, TRUE) /\ UNCHANGED <<dirs, rootAt, job, sup, lease, kept>>

\* Quiescence must be observed and the removal confirmed.
Unfenced(j, removed) == Alive(j) \/ ~removed

\* inspect and remove, then the status: forced, the report, its outcome.
settle(j) ==
    \E removed, reported \in BOOLEAN :
        /\ job[j].pc = "waited" /\ RemoveGuest(j, removed)
        /\ LET now == IF job[j].forced # "none" THEN job[j].forced ELSE Forced(j)
               report == reported /\ ~job[j].failure /\ job[j].complete # "none"
               fenced == IF Unfenced(j, removed) THEN "Unknown" ELSE now
               j2 == IF fenced # "none" THEN fenced
                     ELSE IF ~report THEN "Failed" ELSE job[j].complete
           IN  IF j2 = "Exited" /\ j \notin ReadOnly
               THEN job' = [job EXCEPT ![j].pc = "received"] /\ UNCHANGED lease
               ELSE Return(j, j2)
        /\ UNCHANGED <<dirs, rootAt, sup, kept>>

-----------------------------------------------------------------------------
(* Workspace::publish *)

\* The tree that was received is captured again and compared.
validate_guest(j) ==
    /\ job[j].pc = "received"
    /\ \/ job' = [job EXCEPT ![j].pc = "publish", ![j].guest = dirs[j]] /\ NoFault /\ UNCHANGED lease
       \/ Fault /\ Return(j, "Failed")
    /\ UNCHANGED <<dirs, rootAt, sup, container, kept>>

Over(j) == job[j].cancelled \/ job[j].late
NotPublished(j) == IF job[j].cancelled THEN "Cancelled" ELSE IF job[j].late THEN "TimedOut" ELSE "Failed"
MatchesBaseline(j, d) == d = job[j].baseline.at /\ dirs[d] = job[j].baseline.tree

\* retain: the guest's tree is kept beside the workspace; or the staging
\* directory is preserved as it is.
Retain(j) ==
    /\ kept' = kept \cup {job[j].incoming}
    /\ \/ NoFault /\ Return(j, NotPublished(j))
       \/ Fault /\ Return(j, "Unknown")

Conflict(j) == ~MatchesBaseline(j, rootAt)

publish(j) ==
    /\ job[j].pc = "publish"
    /\ \/ Over(j) /\ Return(j, NotPublished(j)) /\ NoFault /\ UNCHANGED kept
       \/ ~Over(j) /\ Conflict(j) /\ Retain(j)
       \/ /\ ~Over(j) /\ ~Conflict(j) /\ NoFault /\ UNCHANGED kept
          /\ IF job[j].guest = job[j].baseline.tree THEN Return(j, "Exited")
             ELSE job' = [job EXCEPT ![j].pc = "exchange"] /\ UNCHANGED lease
    /\ UNCHANGED <<dirs, rootAt, sup, container>>

\* The rename is atomic, but the owner may have written since the check.
exchange_trees(j) ==
    /\ job[j].pc = "exchange"
    /\ \/ /\ rootAt' = job[j].incoming /\ NoFault /\ UNCHANGED lease
          /\ job' = [job EXCEPT ![j].pc = "validate", ![j].incoming = rootAt]
       \/ Fault /\ Return(j, "Unknown") /\ UNCHANGED rootAt
    /\ UNCHANGED <<dirs, sup, container, kept>>

\* Mutant: the tree that was replaced is not looked at again.
ReplacedTree_bug(j) == TRUE
ReplacedTree(j) == MatchesBaseline(j, job[j].incoming)

validate(j) ==
    /\ job[j].pc = "validate" /\ NoFault
    /\ IF ~ReplacedTree(j)
       THEN job' = [job EXCEPT ![j].pc = "undo"] /\ UNCHANGED <<lease, kept>>
       ELSE IF dirs[rootAt] # job[j].guest
       THEN kept' = kept \cup {job[j].incoming} /\ Return(j, "Unknown")
       ELSE Return(j, IF Over(j) THEN NotPublished(j) ELSE "Exited") /\ UNCHANGED kept
    /\ UNCHANGED <<dirs, rootAt, sup, container>>

\* The exchange is undone and the guest's tree retained.
undo(j) ==
    /\ job[j].pc = "undo"
    /\ \/ /\ rootAt' = job[j].incoming /\ kept' = kept \cup {rootAt}
          /\ (NoFault /\ Return(j, NotPublished(j))) \/ (Fault /\ Return(j, "Unknown"))
       \/ \* the second rename fails: nothing is preserved
          /\ Fault /\ lease' = NoJob /\ UNCHANGED <<rootAt, kept>>
          /\ job' = [job EXCEPT ![j].pc = "done", ![j].status = "Unknown", ![j].undone = FALSE]
    /\ UNCHANGED <<dirs, sup, container>>

-----------------------------------------------------------------------------
(* The surroundings *)

cancel_run(j) ==
    /\ job[j].pc # "done" /\ ~job[j].cancelled
    /\ job' = [job EXCEPT ![j].cancelled = TRUE]
    /\ UNCHANGED <<dirs, rootAt, sup, container, lease, kept, budget>>

deadline(j) ==
    /\ job[j].pc \notin {"idle", "done"} /\ ~job[j].late
    /\ job' = [job EXCEPT ![j].late = TRUE]
    /\ UNCHANGED <<dirs, rootAt, sup, container, lease, kept, budget>>

owner_edits(p) ==
    /\ budget.edits < MaxOwnerEdits /\ dirs[rootAt][p] # 2
    /\ budget' = [budget EXCEPT !.edits = @ + 1]
    /\ dirs' = [dirs EXCEPT ![rootAt][p] = 2]
    /\ UNCHANGED <<rootAt, job, sup, container, lease, kept>>

\* Another process runs a command in the workspace, or in one beside it whose
\* guest is retained in the same directory.
other_locks ==
    /\ lease = NoJob /\ lease' = Other
    /\ UNCHANGED <<dirs, rootAt, job, sup, container, kept, budget>>

other_ends(retains) ==
    /\ lease = Other /\ lease' = NoJob
    /\ budget.retained + retains <= RetainedGuests
    /\ budget' = [budget EXCEPT !.retained = @ + retains]
    /\ UNCHANGED <<dirs, rootAt, job, sup, container, kept>>

\* The process dies: its staging directory stays, its lock does not.
crash(j) ==
    /\ job[j].pc \notin {"idle", "done"} /\ Fault
    /\ kept' = IF job[j].pc \in {"exchange", "validate", "undo"} THEN kept \cup {job[j].incoming} ELSE kept
    /\ Return(j, "Unknown") /\ UNCHANGED <<dirs, rootAt, sup, container>>

\* reconcile_job before the job is settled by the next host.
reconcile_job(j) ==
    /\ job[j].pc = "done" /\ job[j].status = "Unknown" /\ container[j] # "none"
    /\ RemoveGuest(j, TRUE) /\ UNCHANGED <<dirs, rootAt, job, sup, lease, kept>>

SandboxNext ==
    \/ \E j \in Jobs :
          \/ refuse(j) \/ prepare(j) \/ create(j) \/ start(j) \/ copy_source(j)
          \/ command_ends(j) \/ quiesce(j) \/ supervisor_finish(j) \/ transfer_fails(j)
          \/ wait(j) \/ kill(j) \/ settle(j) \/ validate_guest(j) \/ walk_refuses(j) \/ publish(j) \/ exchange_trees(j)
          \/ validate(j) \/ undo(j) \/ cancel_run(j) \/ deadline(j) \/ crash(j) \/ reconcile_job(j)
          \/ \E p \in Paths : command_writes(j, p) \/ export_entry(j, p)
    \/ \E p \in Paths : owner_edits(p)
    \/ other_locks \/ \E retains \in 0..1 : other_ends(retains)

-----------------------------------------------------------------------------
(* Properties *)

\* Where an edit of the owner still is: in the workspace, in a directory kept
\* for recovery, or in the staging directory of a job that has not returned.
Present == {rootAt} \cup kept \cup {job[j].incoming : j \in {i \in Jobs : job[i].pc # "done"}}

\* An edit the owner makes while a command runs survives the publication of
\* its tree, wherever between the check, the exchange and the second check
\* it falls: Workspace::publish never deletes it, unless the rename that
\* undoes the exchange fails too.  (An edit the command started from is its.)
EditsSurvive ==
    \A d \in Dirs, p \in Paths :
        (dirs[d][p] = 2 /\ \A j \in Jobs : job[j].undone /\ job[j].baseline.tree[p] # 2)
            => \E e \in Present : dirs[e][p] = 2

\* A command that is reported as exited left the workspace as it left its own
\* at its end: no torn, partial or older export is published.
ExitedPublishesFinalTree ==
    \A j \in Jobs \ ReadOnly :
       (job[j].status = "none" /\ job'[j].status = "Exited") =>
           dirs'[rootAt'] = sup[j].tree

\* A job whose outcome is known has no container that still runs, and nothing
\* is published while its container runs: whatever failed on the way.
KnownIsFenced ==
    \A j \in Jobs :
        (job[j].pc \in {"received", "publish", "exchange", "validate", "undo"}
         \/ (job[j].pc = "done" /\ job[j].status # "Unknown")) => container[j] # "running"
=============================================================================
