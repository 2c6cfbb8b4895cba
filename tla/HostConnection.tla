--------------------------- MODULE HostConnection ---------------------------
(***************************************************************************)
(* The operator protocol between the clients of one configuration and the  *)
(* detached host that owns its state directory (ipc.rs and app/host.rs):   *)
(* how a client finds, replaces or starts a host, how a host takes the     *)
(* owner lock and the socket and gives them back, and how it answers       *)
(* requests whose clients may be gone by then.  Two more faces of the same *)
(* protocol are checked alone: paging a history, inspecting a moving task. *)
(*                                                                         *)
(* A host's settings are the revision of the configuration file its        *)
(* process loaded; the identity it publishes also holds the revision of    *)
(* the file's metadata when the identity was computed, as a client's does. *)
(***************************************************************************)
EXTENDS Naturals, Sequences, FiniteSets, FiniteSetsExt

CONSTANTS
    Callers,      \* client processes; each works on a session of its own
    Senders,      \* the clients that send a request once they are connected
    MaxHosts,     \* host processes ever spawned
    MaxConfigs,     \* edits of the configuration file
    MaxLosses,    \* signals to hosts, crashes of hosts, lost answers
    RunPermits,   \* executions one host serves at a time
    MaxConnects,  \* connections a sender makes, the others make one
    MaxItems,     \* items of a history
    PageItems,    \* items a history page asks for
    MaxRevisions     \* commands of an inspected task

VARIABLES
    face,         \* which face of the protocol a behaviour is about
    revision,     \* the configuration file
    hosts,        \* every host process
    lock,         \* the host that holds owner.lock, 0 for none
    sock,         \* the host whose socket is at host.sock, 0 for none
    callers,      \* every client process
    durable,      \* requests in the journal, each by its id
    pinned_policy,       \* the identity a created session was admitted under
    queued,       \* submissions the queue has not finished
    stray,        \* a write reached the journal without the lock
    faults,       \* faults left
    paging,       \* a client that reads a history page by page
    inspection    \* a client that inspects a task, and the task

hcVars == <<face, revision, hosts, lock, sock, callers, durable, pinned_policy, queued,
            stray, faults, paging, inspection>>

hcRest == <<face, paging, inspection>>

HostIds == 1 .. MaxHosts

-----------------------------------------------------------------------------
(* Hosts.                                                                  *)

Unborn == [stage |-> "unborn", content |-> 0, identity |-> <<0, 0>>,
           accepting |-> FALSE, asked |-> FALSE, stop |-> FALSE,
           runs |-> {}, worker |-> {}, legacy |-> FALSE]

\* A client process that has not begun, or begins again.
Stranger == [pc |-> "idle", content |-> 0, expected |-> <<0, 0>>, child |-> 0,
             peer |-> 0, attempts |-> 0, told |-> "none", took |-> FALSE,
             kind |-> "none"]

\* A process that has ended; what it ran with is remembered while a client
\* still believes to be connected to it.
HostGone(h) == [Unborn EXCEPT !.stage = "gone",
    !.content = IF \E c \in Callers : callers[c].pc = "connected" /\ callers[c].peer = h
                THEN hosts[h].content ELSE 0]

\* configuration_identity: the settings and the file's metadata right now.
configuration_identity(content) == <<content, revision>>

\* The process reads its configuration at some moment after it was spawned;
\* Store::open then takes the owner lock, or the process ends.
open_host(h) ==
    /\ hosts[h].stage = "spawned"
    /\ IF lock = 0
       THEN /\ lock' = h
            /\ \E content \in hosts[h].content .. revision :
                hosts' = [hosts EXCEPT ![h].stage = "opened", ![h].content = content,
                                       ![h].identity = configuration_identity(content)]
       ELSE hosts' = [hosts EXCEPT ![h] = HostGone(h)] /\ UNCHANGED lock
    /\ UNCHANGED <<revision, pinned_policy, sock, callers, durable, queued, stray, faults>>

\* serve: whatever socket is left at the path has no live owner.
bind_socket(h) ==
    /\ hosts[h].stage = "opened"
    /\ hosts' = [hosts EXCEPT ![h].stage = "serving", ![h].accepting = TRUE]
    /\ sock' = h
    /\ UNCHANGED <<revision, pinned_policy, lock, callers, durable, queued, stray, faults>>

\* A signal cancels the service whatever it is doing.
signal_host(h) ==
    /\ faults > 0 /\ hosts[h].stage = "serving" /\ ~hosts[h].stop
    /\ hosts' = [hosts EXCEPT ![h].stop = TRUE]
    /\ faults' = faults - 1
    /\ UNCHANGED <<revision, pinned_policy, lock, sock, callers, durable, queued, stray>>

\* The accept loop ends; connections wait unanswered from here on.
drain_host(h) ==
    /\ hosts[h].stage = "serving" /\ hosts[h].stop
    /\ hosts' = [hosts EXCEPT ![h].stage = "draining"]
    /\ UNCHANGED <<revision, pinned_policy, lock, sock, callers, durable, queued, stray, faults>>

HandlersJoined(h) == hosts[h].runs = {}

\* The listener and the serving handle of the host are dropped; a queue worker
\* has a handle of its own, and keeps the store and its lock open.
release_host(h) ==
    /\ hosts[h].stage = "draining" /\ HandlersJoined(h)
    /\ hosts' = [hosts EXCEPT ![h].stage = "released"]
    /\ lock' = IF hosts[h].worker = {} THEN 0 ELSE lock
    /\ UNCHANGED <<revision, pinned_policy, sock, callers, durable, queued, stray, faults>>

\* remove_file(socket), then the process ends and with it its workers.
unlink_socket(h) ==
    /\ hosts[h].stage = "released"
    /\ sock' = 0
    /\ hosts' = [hosts EXCEPT ![h] = HostGone(h)]
    /\ lock' = IF lock = h THEN 0 ELSE lock
    /\ UNCHANGED <<revision, pinned_policy, callers, durable, queued, stray, faults>>

\* The process dies; the socket file stays.
host_dies(h) ==
    /\ faults > 0 /\ hosts[h].stage \notin {"unborn", "gone"}
    /\ hosts' = [hosts EXCEPT ![h] = HostGone(h)]
    /\ lock' = IF lock = h THEN 0 ELSE lock
    /\ faults' = faults - 1
    /\ UNCHANGED <<revision, pinned_policy, sock, callers, durable, queued, stray>>

\* Sessions a host has in `active`.
active_sessions(h) == hosts[h].runs \cup hosts[h].worker

\* A write of host h reaches the journal.
Writes(h) == stray' = (stray \/ lock # h)

\* start_queued and wake_queue: a worker claims a queued submission ...
claim_submission(h, c) ==
    /\ hosts[h].stage \in {"serving", "draining"}
    /\ c \in queued /\ c \notin active_sessions(h)
    /\ hosts' = [hosts EXCEPT ![h].worker = @ \cup {c}]
    /\ Writes(h)
    /\ UNCHANGED <<revision, pinned_policy, lock, sock, callers, durable, queued, faults>>

\* ... and finishes it, unless the process ends first.
finish_submission(h, c) ==
    /\ hosts[h].stage # "gone" /\ c \in hosts[h].worker
    /\ hosts' = [hosts EXCEPT ![h].worker = @ \ {c}]
    /\ lock' = IF hosts[h].stage = "released" /\ hosts[h].worker = {c} THEN 0 ELSE lock
    /\ queued' = queued \ {c}
    /\ Writes(h)
    /\ UNCHANGED <<revision, pinned_policy, sock, callers, durable, faults>>

\* The execution belongs to the handler: it ends whether or not its client
\* still waits for the answer.
finish_run(h, c) ==
    /\ hosts[h].stage # "gone" /\ c \in hosts[h].runs
    /\ hosts' = [hosts EXCEPT ![h].runs = @ \ {c}]
    /\ callers' = IF callers[c].pc = "running" /\ callers[c].peer = h
                  THEN [callers EXCEPT ![c] = [Stranger EXCEPT !.pc = "done", !.told = "ok",
                            !.kind = "run", !.took = TRUE, !.attempts = callers[c].attempts]]
                  ELSE callers
    /\ Writes(h)
    /\ UNCHANGED <<revision, pinned_policy, lock, sock, durable, queued, faults>>

-----------------------------------------------------------------------------
(* What a connection to host.sock meets.                                   *)

\* HostClient::open and the first frame of a call.
Peer == IF sock = 0 THEN "absent"
        ELSE CASE hosts[sock].stage = "serving" -> "answers"
               [] hosts[sock].stage = "draining" -> "silent"
               [] OTHER -> "refused"

NoClient == Peer \in {"absent", "refused"}

\* An answer that arrives, and one that a deadline or a dead host swallows.
Heard == Peer = "answers" /\ UNCHANGED faults
Swallowed == Peer = "answers" /\ faults > 0 /\ faults' = faults - 1
AnswerLost == (Peer = "silent" /\ UNCHANGED faults) \/ Swallowed

Current == Peer = "answers" /\ ~hosts[sock].legacy

-----------------------------------------------------------------------------
(* Clients: HostClient::connect.                                           *)

CallerAt(c, pc) == callers[c].pc = pc
CallerGoes(c, pc) ==
    callers' = [callers EXCEPT ![c] =
        IF pc = "failed"
        THEN [Stranger EXCEPT !.pc = pc, !.attempts = callers[c].attempts,
                              !.kind = callers[c].kind]
        ELSE [@ EXCEPT !.pc = pc]]
Connects(c) == callers' = [callers EXCEPT ![c].pc = "connected", ![c].peer = sock, ![c].child = 0,
                                            ![c].expected = <<0, 0>>]

edit_config ==
    /\ revision < MaxConfigs
    /\ revision' = revision + 1
    /\ UNCHANGED <<pinned_policy, hosts, lock, sock, callers, durable, queued, stray, faults>>

\* The configuration is loaded at some moment after the client process has
\* started, and identified when it connects.
connect_host(c) ==
    /\ CallerAt(c, "idle")
    /\ \E content \in callers[c].content .. revision :
        callers' = [callers EXCEPT ![c].pc = "asking", ![c].attempts = @ + 1,
            ![c].content = content, ![c].expected = configuration_identity(content)]
    /\ UNCHANGED <<revision, pinned_policy, hosts, lock, sock, durable, queued, stray, faults>>

\* The first info of connect.
ask_info(c) ==
    /\ CallerAt(c, "asking")
    /\ \/ NoClient /\ CallerGoes(c, "starting") /\ UNCHANGED faults
       \/ AnswerLost /\ CallerGoes(c, "failed")
       \/ Heard /\ ~Current /\ CallerGoes(c, "upgrading")
       \/ /\ Heard /\ Current
          /\ IF hosts[sock].accepting /\ hosts[sock].identity = callers[c].expected
             THEN Connects(c)
             ELSE CallerGoes(c, IF active_sessions(sock) # {} THEN "failed" ELSE "stopping")
    /\ UNCHANGED <<revision, pinned_policy, hosts, lock, sock, durable, queued, stray>>

\* Host::shutdown_if_idle, under the lock of the active sessions.
Idle(h) == active_sessions(h) = {} /\ queued = {}

shutdown_if_idle(h) ==
    IF Idle(h) THEN hosts' = [hosts EXCEPT ![h].accepting = FALSE, ![h].asked = TRUE,
                                          ![h].stop = TRUE]
    ELSE UNCHANGED hosts

\* ShutdownIfIdle of connect and of shutdown_incompatible_host.
ask_shutdown(c) ==
    /\ CallerAt(c, "stopping") \/ CallerAt(c, "upgrading")
    /\ \/ (NoClient /\ UNCHANGED <<hosts, faults>> /\ CallerGoes(c, "failed"))
       \/ AnswerLost /\ CallerGoes(c, "failed")
          /\ (UNCHANGED hosts \/ (Peer = "answers" /\ shutdown_if_idle(sock)))
       \/ /\ Heard /\ shutdown_if_idle(sock)
          /\ CallerGoes(c, IF Idle(sock) THEN "waiting" ELSE "failed")
    /\ UNCHANGED <<revision, pinned_policy, lock, sock, durable, queued, stray>>

\* The loop that waits for the old host to go.  A host of an older protocol
\* answers with an error, which already ends the loop.
wait_gone(c) ==
    /\ CallerAt(c, "waiting")
    /\ \/ Current /\ CallerGoes(c, "failed") /\ UNCHANGED faults
       \/ (NoClient \/ (Peer = "answers" /\ ~Current)) /\ CallerGoes(c, "starting") /\ UNCHANGED faults
       \/ AnswerLost /\ CallerGoes(c, "starting")
    /\ UNCHANGED <<revision, pinned_policy, hosts, lock, sock, durable, queued, stray>>

\* HostClient::start spawns a detached host ...
start_host(c) ==
    /\ CallerAt(c, "starting")
    /\ LET born == {h \in HostIds : hosts[h].stage = "unborn"} IN
       /\ born # {}
       /\ hosts' = [hosts EXCEPT ![Min(born)].stage = "spawned",
                                 ![Min(born)].content = revision]
       /\ callers' = [callers EXCEPT ![c].pc = "probing", ![c].child = Min(born)]
    /\ UNCHANGED <<revision, pinned_policy, lock, sock, durable, queued, stray, faults>>

\* ... and probes until some host answers, the child has exited, or too late.
probe(c) ==
    /\ CallerAt(c, "probing")
    /\ \/ Heard /\ Current /\ CallerGoes(c, "verifying")
       \/ /\ hosts[callers[c].child].stage = "gone" /\ ~Current
          /\ CallerGoes(c, "failed") /\ UNCHANGED faults
       \/ faults > 0 /\ faults' = faults - 1 /\ CallerGoes(c, "failed")
    /\ UNCHANGED <<revision, pinned_policy, hosts, lock, sock, durable, queued, stray>>

HostVerified(c) == hosts[sock].identity = callers[c].expected

verify_host(c) ==
    /\ CallerAt(c, "verifying")
    /\ \/ Heard /\ Current /\ IF HostVerified(c) THEN Connects(c) ELSE CallerGoes(c, "failed")
       \/ (NoClient \/ (Peer = "answers" /\ ~Current)) /\ CallerGoes(c, "failed") /\ UNCHANGED faults
       \/ AnswerLost /\ CallerGoes(c, "failed")
    /\ UNCHANGED <<revision, pinned_policy, hosts, lock, sock, durable, queued, stray>>

\* The user runs the client again, to finish a request whose answer is missing.
try_again(c) ==
    /\ CallerAt(c, "failed") /\ c \in Senders
    /\ callers[c].kind # "none" /\ callers[c].attempts < MaxConnects
    /\ callers' = [callers EXCEPT ![c].pc = "idle", ![c].content = revision]
    /\ UNCHANGED <<revision, pinned_policy, hosts, lock, sock, durable, queued, stray, faults>>

-----------------------------------------------------------------------------
(* Requests: handle and execute.                                           *)

\* Commands by what they do: reads; a single commit behind the accepting gate
\* (submissions, edits, event deliveries); a commit followed by a read of its
\* result (sessions, forks, handoffs, imports, sampling); an execution.
Kinds == {"read", "submit", "create", "run"}

command_may_commit(kind) == kind # "read"

Disposition(kind) == IF command_may_commit(kind) THEN "Reconcile" ELSE "Reject"

\* A client hears the answer of an attempt; `took`: the attempt committed.
AnsweredBy(c, kind, reply, took) ==
    callers' = [callers EXCEPT ![c] =
        IF reply = "RetrySameRequest"
        THEN [@ EXCEPT !.kind = kind, !.told = reply, !.took = took]
        ELSE [Stranger EXCEPT !.kind = kind, !.told = reply, !.took = took,
                !.attempts = callers[c].attempts,
                !.pc = IF reply = "Reconcile" THEN "failed" ELSE "done"]]
Unheard(c, kind, took) ==
    callers' = [callers EXCEPT ![c] =
        [Stranger EXCEPT !.pc = "failed", !.kind = kind, !.told = "lost",
                         !.took = took, !.attempts = callers[c].attempts]]

\* An attempt keeps its kind when it is retried: the request id is the same.
CallerSends(c, kind) ==
    /\ c \in Senders /\ CallerAt(c, "connected")
    /\ kind = callers[c].kind \/ callers[c].kind = "none"

\* No host hears the request.
call_fails(c, kind) ==
    /\ CallerSends(c, kind)
    /\ \/ NoClient /\ UNCHANGED faults /\ Unheard(c, kind, FALSE)
       \/ AnswerLost /\ Unheard(c, kind, FALSE)
    /\ UNCHANGED <<revision, pinned_policy, hosts, lock, sock, durable, queued, stray>>

\* Queries: an answer or an error of the host.
execute_read(c) ==
    /\ CallerSends(c, "read") /\ Heard /\ Current
    /\ \E reply \in {"ok", Disposition("read")} : AnsweredBy(c, "read", reply, FALSE)
    /\ UNCHANGED <<revision, pinned_policy, hosts, lock, sock, durable, queued, stray>>

\* Host::submit and the other commits under the lock of `active`: the gate is
\* read and the request recorded in one step, and the queue is woken.
HostAccepts_bug(h) == TRUE
HostAccepts(h) == hosts[h].accepting

execute_submit(c) ==
    /\ CallerSends(c, "submit") /\ Current
    /\ IF HostAccepts(sock)
       THEN /\ durable' = durable \cup {c}
            /\ queued' = IF c \in durable THEN queued ELSE queued \cup {c}
            /\ Writes(sock)
            /\ \/ Heard /\ AnsweredBy(c, "submit", "ok", TRUE)
               \/ Swallowed /\ Unheard(c, "submit", TRUE)
       ELSE /\ Heard /\ AnsweredBy(c, "submit", Disposition("submit"), FALSE)
            /\ UNCHANGED <<durable, queued, stray>>
    /\ UNCHANGED <<revision, pinned_policy, hosts, lock, sock>>

validate_session_admission(c) == pinned_policy[c] = hosts[sock].identity

\* CreateSession, ForkSession, HandoffSession, ImportLegacy: an id that exists
\* is answered with what exists, once validated; else the session is created;
\* then its snapshot is read, which may fail.
execute_create(c) ==
    /\ CallerSends(c, "create") /\ Current
    /\ \E took \in BOOLEAN, read \in BOOLEAN :
        /\ read => took
        /\ c \in durable => took = validate_session_admission(c)
        /\ durable' = IF took THEN durable \cup {c} ELSE durable
        /\ pinned_policy' = IF took /\ c \notin durable
                     THEN [pinned_policy EXCEPT ![c] = hosts[sock].identity] ELSE pinned_policy
        /\ IF took /\ c \notin durable THEN Writes(sock) ELSE UNCHANGED stray
        /\ \/ Heard /\ AnsweredBy(c, "create", IF read THEN "ok" ELSE Disposition("create"), took)
           \/ Swallowed /\ Unheard(c, "create", took)
    /\ UNCHANGED <<revision, hosts, lock, sock, queued>>

\* The permits of the service come first and tell the client to retry.
Permitted(h) == Cardinality(hosts[h].runs) < RunPermits

execute_run(c) ==
    /\ CallerSends(c, "run") /\ Heard /\ Current
    /\ CASE ~Permitted(sock) ->
              /\ AnsweredBy(c, "run", "RetrySameRequest", FALSE)
              /\ UNCHANGED <<hosts, durable, stray>>
         [] Permitted(sock) /\ (~HostAccepts(sock) \/ c \in active_sessions(sock)) ->
              /\ AnsweredBy(c, "run", Disposition("run"), FALSE)
              /\ UNCHANGED <<hosts, durable, stray>>
         [] OTHER ->
              /\ hosts' = [hosts EXCEPT ![sock].runs = @ \cup {c}]
              /\ durable' = durable \cup {c}
              /\ Writes(sock)
              /\ callers' = [callers EXCEPT ![c].pc = "running", ![c].kind = "run",
                                            ![c].told = "none", ![c].took = TRUE,
                                            ![c].content = 0]
    /\ UNCHANGED <<revision, pinned_policy, lock, sock, queued>>

\* The response deadline passes or the client goes; the handler goes on.
stop_waiting(c) ==
    /\ CallerAt(c, "running")
    /\ \/ faults > 0 /\ faults' = faults - 1
       \/ hosts[callers[c].peer].stage = "gone" /\ UNCHANGED faults
    /\ Unheard(c, "run", TRUE)
    /\ UNCHANGED <<revision, pinned_policy, hosts, lock, sock, durable, queued, stray>>

-----------------------------------------------------------------------------
(* Paging a history: Host::history_page.                                   *)

\* Items by size: a quarter of a page, a whole page, beyond a page and made
\* by a tool (sent as a reference), beyond a page and not made by a tool.
ItemKinds == {"small", "page", "tool", "huge"}
HistoryPageBytes == 4

EntryBytes(item) == [small |-> 1, page |-> 4, tool |-> 1, huge |-> 5][item]

\* The longest run of entries from `start` that fits; an item beyond a page
\* that is reached before the page is full and is no tool result is an error.
Taken(items, start) ==
    Max({n \in 0 .. PageItems :
            /\ start + n <= Len(items)
            /\ LET bytes(i) == EntryBytes(items[i])
               IN MapThenSumSet(bytes, start + 1 .. start + n) <= HistoryPageBytes})

RefusedCall(items, start) ==
    LET n == Taken(items, start)
    IN n < PageItems /\ start + n < Len(items) /\ items[start + n + 1] = "huge"

\* One page; `next` is where the following one starts.
history_page ==
    /\ face = "history" /\ ~paging.done
    /\ LET n == Taken(paging.items, paging.start) IN
       paging' = IF RefusedCall(paging.items, paging.start)
                 THEN [paging EXCEPT !.done = TRUE, !.refused = TRUE]
                 ELSE [paging EXCEPT
                        !.seen = @ \o [i \in 1 .. n |-> paging.start + i],
                        !.start = @ + n, !.pages = @ + 1,
                        !.done = (paging.start + n >= Len(paging.items))]
    /\ UNCHANGED <<face, revision, pinned_policy, hosts, lock, sock, callers, durable, queued,
                   stray, faults, inspection>>

-----------------------------------------------------------------------------
(* Inspecting a task that goes on: Host::inspect_artifacts.                *)

\* The audited state, then a copy of the tree it describes: what a user's shell
\* command left, if the task has not adopted it yet; otherwise the working tree
\* unless a write is unresolved, in which case the last candidate.
NoTree == MaxRevisions + 1
inspect_read ==
    /\ inspection.pc = "read"
    /\ inspection' = [inspection EXCEPT !.pc = "copy", !.read = inspection.task]

inspect_copy ==
    /\ inspection.pc = "copy"
    /\ inspection' = [inspection EXCEPT !.pc = "check",
        !.view = IF inspection.read.override # NoTree THEN inspection.read.override
                 ELSE IF inspection.read.writer = "none" THEN inspection.tree
                 ELSE inspection.read.candidate]

StillCurrent == inspection.read = inspection.task

inspect_check ==
    /\ inspection.pc = "check"
    /\ inspection' = [inspection EXCEPT !.pc = IF StillCurrent THEN "shown" ELSE "read"]

\* What the task does meanwhile: a job is admitted, writes, is settled; the
\* working tree becomes the candidate; a shell command, which works in a tree
\* of its own, leaves that as override and candidate; the next turn starts by
\* making the override its working tree.
task_moves ==
    /\ inspection.pc # "shown" /\ inspection.task.revision < MaxRevisions
    /\ LET task == inspection.task
           idle == task.writer = "none"
           Commit(t) == inspection' = [inspection EXCEPT !.task = [t EXCEPT !.revision = @ + 1]]
       IN
       \/ idle /\ task.override = NoTree /\ Commit([task EXCEPT !.writer = "job"])
       \/ idle /\ Commit([task EXCEPT !.writer = "shell"])
       \/ /\ task.writer = "job" /\ inspection.tree < MaxRevisions
          /\ inspection' = [inspection EXCEPT !.tree = @ + 1]
       \/ ~idle /\ Commit([task EXCEPT !.writer = "none"])
       \/ /\ task.writer = "shell"
          /\ \E t \in 0 .. MaxRevisions :
                Commit([task EXCEPT !.writer = "none", !.override = t, !.candidate = t])
       \/ /\ idle /\ task.override = NoTree /\ task.candidate # inspection.tree
          /\ Commit([task EXCEPT !.candidate = inspection.tree])
       \/ /\ idle /\ task.override # NoTree
          /\ inspection' = [inspection EXCEPT !.task.override = NoTree, !.tree = task.override,
                                              !.task.revision = @ + 1]

inspect_artifacts ==
    /\ face = "inspect"
    /\ inspect_read \/ inspect_copy \/ inspect_check \/ task_moves
    /\ UNCHANGED <<face, revision, pinned_policy, hosts, lock, sock, callers, durable, queued,
                   stray, faults, paging>>

-----------------------------------------------------------------------------
Histories == UNION {[1 .. n -> ItemKinds] : n \in 0 .. MaxItems}

HostConnectionInit ==
    /\ face \in {"connect", "history", "inspect"}
    /\ revision = 0
    /\ \E legacy \in IF face = "connect" THEN BOOLEAN ELSE {FALSE} :
        /\ hosts = [h \in HostIds |-> IF legacy /\ h = 1
                        THEN [Unborn EXCEPT !.stage = "serving", !.accepting = TRUE,
                                            !.legacy = TRUE]
                        ELSE Unborn]
        /\ lock = IF legacy THEN 1 ELSE 0
        /\ sock = IF legacy THEN 1 ELSE 0
    /\ callers = [c \in Callers |-> Stranger]
    /\ pinned_policy = [c \in Callers |-> <<0, 0>>]
    /\ durable = {} /\ queued = {} /\ stray = FALSE /\ faults = MaxLosses
    /\ \E items \in IF face = "history" THEN Histories ELSE {<<>>} :
        paging = [items |-> items, start |-> 0, seen |-> <<>>, pages |-> 0,
                  done |-> FALSE, refused |-> FALSE]
    /\ LET task == [revision |-> 0, candidate |-> 0, override |-> NoTree, writer |-> "none"] IN
       inspection = [pc |-> "read", task |-> task, read |-> task, tree |-> 0, view |-> 0]

HostSteps ==
    \E h \in HostIds :
        \/ open_host(h) \/ bind_socket(h) \/ signal_host(h)
        \/ drain_host(h) \/ release_host(h) \/ unlink_socket(h) \/ host_dies(h)
        \/ \E c \in Callers :
            claim_submission(h, c) \/ finish_submission(h, c) \/ finish_run(h, c)

CallerSteps ==
    \E c \in Callers :
        \/ connect_host(c) \/ ask_info(c) \/ ask_shutdown(c)
        \/ wait_gone(c) \/ start_host(c) \/ probe(c) \/ verify_host(c) \/ try_again(c)
        \/ execute_read(c) \/ execute_submit(c) \/ execute_create(c)
        \/ execute_run(c) \/ stop_waiting(c)
        \/ \E kind \in Kinds : call_fails(c, kind)

HostConnectionNext ==
    \/ face = "connect" /\ (HostSteps \/ CallerSteps \/ edit_config) /\ UNCHANGED hcRest
    \/ history_page
    \/ inspect_artifacts

-----------------------------------------------------------------------------
HostConnectionTypeOK ==
    /\ revision \in 0 .. MaxConfigs /\ lock \in 0 .. MaxHosts /\ sock \in 0 .. MaxHosts
    /\ queued \subseteq durable /\ durable \subseteq Callers
    /\ \A h \in HostIds : active_sessions(h) \subseteq Callers
    /\ paging.start <= Len(paging.items)

\* A client that has connected talks to a host that runs the settings the
\* client itself has loaded (connect compares identities before it returns),
\* however the file was edited, hosts were replaced and other clients started
\* hosts of their own in between.
ConnectSound ==
    \A c \in Callers : CallerAt(c, "connected") =>
        hosts[callers[c].peer].content = callers[c].content

\* A host that agreed to an idle shutdown never leaves work behind: while it
\* owns the store no session is executing and no submission waits
\* (shutdown_if_idle against Host::submit and execute_task_request).
NothingStranded ==
    \A h \in HostIds : hosts[h].asked /\ lock = h => active_sessions(h) = {} /\ queued = {}

\* Nothing is written to the journal by a host that does not hold the owner
\* lock, although executions outlive their clients and workers outlive the
\* socket (serve joins its handlers before it lets the store go).
StoreOwned == ~stray

\* An answer that tells the client to give the request up, or to send it again,
\* comes from an attempt that changed nothing: an error after a commit says
\* Reconcile (handle and command_may_commit).
DispositionHonest ==
    \A c \in Callers : callers[c].told \in {"Reject", "RetrySameRequest"} => ~callers[c].took

\* A session that is answered as created, at the first attempt or at a retry,
\* belongs to a host of the configuration it was admitted under, although hosts
\* are replaced between a lost answer and its retry (create_session_with_id).
SessionPinned ==
    \A c \in Callers :
     (callers'[c].kind = "create" /\ callers'[c].told = "ok" /\ callers[c].told # "ok")
         => pinned_policy'[c] = hosts[sock].identity

\* Following `next` reads every item of a history once and in order and comes
\* to its end, items larger than a page included (history_page).
HistoryExact ==
    /\ paging.seen = [i \in 1 .. paging.start |-> i]
    /\ paging.pages <= Len(paging.items) + 1
    /\ paging.refused => "huge" \in {paging.items[i] : i \in 1 .. Len(paging.items)}

\* An inspection that is given out shows the tree of the task's state at that
\* moment: never a tree caught in the middle of a write, nor an older one, nor
\* the working tree that a shell command's result is about to replace.
ViewConsistent ==
    inspection.pc = "shown" =>
        LET task == inspection.task
            shown == inspection.view
        IN  /\ task.override \in {NoTree, shown}
            /\ task.override = NoTree /\ task.writer = "none" => shown = inspection.tree
            /\ task.writer # "none" => shown = task.candidate
=============================================================================
