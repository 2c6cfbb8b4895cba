------------------------------- MODULE Watch -------------------------------
(***************************************************************************)
(* A terminal watching one session of the host (watch in harness/src/      *)
(* ipc.rs; HostWatch and HostClient::subscribe in app/host.rs; watch in    *)
(* tui/client.rs; HostProjection; the child tree).  The host commits       *)
(* records and broadcasts previews and child events; the server sends the  *)
(* journal from the cursor of the connection and forwards what its bounded *)
(* receivers still hold; the client reconnects with its last cursor.       *)
(* A record is <<kind, request>>; a frame is a record with its sequence, a *)
(* preview, a gap, or the status of a child.  The second part is the queue *)
(* of the session as the pane shows it: refresh_queue (tui/client.rs),     *)
(* session::queued (tui/session.rs), Update::Queue, Update::Reply and the  *)
(* records of the watch (tui/event_loop.rs); the roster of the host is     *)
(* represented by the journal sequence it is of.                           *)
(***************************************************************************)
EXTENDS Naturals, Sequences

CONSTANTS
    Turns,          \* number of requests the session executes, one by one
    Watched,        \* children of the session
    Retained,       \* capacity of a broadcast channel
    SocketRoom,     \* frames the socket takes before a send blocks
    MaxPreviews,    \* bound on previews of one request
    MaxLosses       \* bound on lost connections, full servers and restarts

ASSUME WatchAssumption ==
    {Turns, Retained, SocketRoom, MaxPreviews} \subseteq Nat \ {0} /\ MaxLosses \in Nat

VARIABLES
    records,    \* the journal
    emitted,    \* previews sent for the active request
    kids,       \* the registry of children
    server,     \* the watch handler
    socket,       \* frames on the socket
    viewer,     \* the watch task of the terminal
    view,       \* HostProjection, the transcript and the child tree
    losses

watchVars == <<records, emitted, kids, server, socket, viewer, view, losses>>

Reqs == 1..Turns
Idle == [pc |-> "off", after |-> 0, previews |-> <<>>, lagged |-> FALSE,
         events |-> <<>>, missed |-> FALSE]
Kinds3 == {"input", "response", "settled"}

WatchTypeOK ==
    /\ records \in Seq(Kinds3 \X Reqs) /\ emitted \in 0..MaxPreviews
    /\ kids \in [Watched -> {"absent", "running", "over"}]
    /\ server.pc \in {"off", "subscribed", "ready", "loop"}
    /\ server.after \in 0..Len(records)
    /\ Len(server.previews) <= Retained /\ Len(server.events) <= Retained
    /\ viewer.pc \in {"off", "reading"} /\ viewer.cursor \in 0..Len(records)
    /\ view.sequence \in 0..Len(records) /\ view.applied \in Nat
    /\ view.item \in [Reqs -> {"none", "preview", "confirmed", "overwritten"}]
    /\ view.tree \in [Watched -> {"absent", "running", "over"}]
    /\ losses \in 0..MaxLosses

WatchInit ==
    /\ records = <<>> /\ emitted = 0 /\ kids = [c \in Watched |-> "absent"]
    /\ server = Idle /\ socket = <<>> /\ losses = 0
    /\ viewer = [pc |-> "off", cursor |-> 0, through |-> 0, degraded |-> FALSE, lostAt |-> 0]
    /\ view = [sequence |-> 0, applied |-> 0, active |-> 0, confirmed |-> {},
               item |-> [r \in Reqs |-> "none"], tree |-> [c \in Watched |-> "absent"]]

-----------------------------------------------------------------------------
(* The host *)

LastRecord == IF records = <<>> THEN <<"settled", 0>> ELSE records[Len(records)]
ActiveRequest == IF LastRecord[1] = "settled" THEN 0 ELSE LastRecord[2]
Listening == server.pc # "off"

\* tokio broadcast: a full channel forgets its oldest value.
Keep(q, x) == IF Len(q) < Retained THEN Append(q, x) ELSE Append(Tail(q), x)
BroadcastPreview(x) ==
    server' = IF ~Listening THEN server
              ELSE [server EXCEPT !.previews = Keep(@, x),
                        !.lagged = @ \/ Len(server.previews) = Retained]
BroadcastChild(x) ==
    server' = IF ~Listening THEN server
              ELSE [server EXCEPT !.events = Keep(@, x),
                        !.missed = @ \/ Len(server.events) = Retained]

\* The turns of the session: input, response, settled; a turn that is
\* stopped settles without a response.
host_commits ==
    /\ \/ /\ ActiveRequest = 0 /\ LastRecord[2] < Turns
          /\ records' = Append(records, <<"input", LastRecord[2] + 1>>)
       \/ /\ LastRecord[1] = "input"
          /\ records' = Append(records, <<"response", ActiveRequest>>)
       \/ /\ ActiveRequest # 0
          /\ records' = Append(records, <<"settled", ActiveRequest>>)
    /\ emitted' = 0
    /\ UNCHANGED <<kids, server, socket, viewer, view, losses>>

\* HostUpdate::Provisional, while the response is streamed.
host_previews ==
    /\ LastRecord[1] = "input" /\ emitted < MaxPreviews /\ emitted' = emitted + 1
    /\ BroadcastPreview(ActiveRequest)
    /\ UNCHANGED <<records, kids, socket, viewer, view, losses>>

\* The registry changes first; the broadcast follows before the next change
\* of the same child.
child_event(c) ==
    /\ \E s \in IF kids[c] = "absent" THEN {"running"}
                ELSE IF kids[c] = "running" THEN {"over"} ELSE {} :
        kids' = [kids EXCEPT ![c] = s] /\ BroadcastChild(<<c, s>>)
    /\ UNCHANGED <<records, emitted, socket, viewer, view, losses>>

-----------------------------------------------------------------------------
(* The server: ipc::watch *)

\* send_watch: a full socket blocks the server, for 5 s at most (disconnect).
Send(frame) == Len(socket) < SocketRoom /\ socket' = Append(socket, frame)

\* The receivers are created first, then the end of the journal is read and
\* announced, then the children are listed.
watch_subscribe ==
    /\ viewer.pc = "off" /\ server.pc = "off" /\ socket = <<>>
    /\ server' = [Idle EXCEPT !.pc = "subscribed", !.after = viewer.cursor]
    /\ UNCHANGED <<records, emitted, kids, socket, viewer, view, losses>>

\* Ready, and HostClient::subscribe, which takes it off the socket.
subscribe ==
    /\ server.pc = "subscribed" /\ server' = [server EXCEPT !.pc = "ready"]
    /\ viewer' = [viewer EXCEPT !.pc = "reading", !.through = Len(records),
                    !.degraded = @ /\ viewer.cursor # Len(records)]
    /\ UNCHANGED <<records, emitted, kids, socket, view, losses>>

\* The children as they are now.  The frames of one list follow each other
\* and are one frame here; a list cut short is sent again on reconnection.
send_subagent_snapshot ==
    /\ server.pc = "ready" /\ server' = [server EXCEPT !.pc = "loop"]
    /\ Send([kind |-> "children", of |-> kids])
    /\ UNCHANGED <<records, emitted, kids, viewer, view, losses>>

\* Mutant: the cursor moves over two records at a time.
NextCursor_bug(n) == IF n < Len(records) THEN n + 1 ELSE n
\* The cursor follows the record sent.
NextCursor(n) == n

\* The journal goes out, record after record, before anything else is looked
\* at: a page, and the next one until it is empty.
journal_page ==
    /\ server.pc = "loop" /\ server.after < Len(records)
    /\ Send([kind |-> "journal", of |-> server.after + 1])
    /\ server' = [server EXCEPT !.after = NextCursor(server.after + 1)]
    /\ UNCHANGED <<records, emitted, kids, viewer, view, losses>>

\* The select of an idle server: a receiver that lagged says so first.  A gap
\* is announced; missed child events are made up for by a new list.
Quiet == server.pc = "loop" /\ server.after >= Len(records)

receive_preview ==
    /\ Quiet
    /\ \/ /\ server.lagged /\ server' = [server EXCEPT !.lagged = FALSE]
          /\ Send([kind |-> "gap", of |-> 0])
       \/ /\ ~server.lagged /\ server.previews # <<>>
          /\ server' = [server EXCEPT !.previews = Tail(@)]
          /\ Send([kind |-> "preview", of |-> Head(server.previews)])
    /\ UNCHANGED <<records, emitted, kids, viewer, view, losses>>

receive_child ==
    /\ Quiet
    /\ \/ /\ server.missed /\ server' = [server EXCEPT !.missed = FALSE]
          /\ Send([kind |-> "children", of |-> kids])
       \/ /\ ~server.missed /\ server.events # <<>>
          /\ server' = [server EXCEPT !.events = Tail(@)]
          /\ Send([kind |-> "child", of |-> Head(server.events)])
    /\ UNCHANGED <<records, emitted, kids, viewer, view, losses>>

-----------------------------------------------------------------------------
(* The terminal *)

\* SubagentTree::apply: Added keeps the status of a child it has.
Grown(tree, c, s) ==
    IF s = "over" \/ (s = "running" /\ tree[c] = "absent") THEN s ELSE tree[c]

\* A preview counts for the active request and an item not confirmed yet.
Provisional(r) ==
    [view EXCEPT !.item[r] =
        IF view.active # r \/ r \in view.confirmed THEN @
        ELSE IF @ = "confirmed" THEN "overwritten" ELSE "preview"]

\* HostProjection::session_event, and what the transcript shows of it.
SessionEvent(v, kind, r) ==
    CASE kind = "input" -> [v EXCEPT !.active = r, !.confirmed = {}]
      [] kind = "response" ->
            [v EXCEPT !.confirmed = IF v.active = r THEN @ \cup {r} ELSE @,
                      !.item[r] = "confirmed"]
      [] kind = "settled" -> [v EXCEPT !.active = 0, !.confirmed = {}]

\* HostProjection::journal
Journal(n) ==
    IF n <= view.sequence THEN view
    ELSE [SessionEvent(view, records[n][1], records[n][2])
            EXCEPT !.sequence = n, !.applied = @ + 1]

\* handle_stream_updates and HostProjection::apply.
Apply(f) ==
    CASE f.kind = "journal" -> Journal(f.of)
      [] f.kind = "preview" -> Provisional(f.of)
      [] f.kind = "gap" ->
            [view EXCEPT !.item = [r \in Reqs |-> IF @[r] = "preview" THEN "none" ELSE @[r]]]
      [] f.kind = "child" ->
            [view EXCEPT !.tree[f.of[1]] = Grown(view.tree, f.of[1], f.of[2])]
      [] f.kind = "children" ->
            [view EXCEPT !.tree = [c \in Watched |-> Grown(view.tree, c, f.of[c])]]

\* HostWatch::next and the loop of the watch task: the cursor moves with the
\* journal, and the view is current again once it reaches what the server
\* had when it was subscribed to.
read_frame ==
    /\ viewer.pc = "reading" /\ socket # <<>>
    /\ LET f == Head(socket)
           cursor == IF f.kind = "journal" THEN f.of ELSE viewer.cursor
       IN  /\ viewer' = [viewer EXCEPT !.cursor = cursor,
                            !.degraded = @ /\ cursor < viewer.through]
           /\ view' = Apply(f)
    /\ socket' = Tail(socket)
    /\ UNCHANGED <<records, emitted, kids, server, losses>>

\* The connection ends and has been read to its end: Degraded, and another
\* subscription after a delay.
viewer_lost ==
    /\ viewer.pc = "reading" /\ socket = <<>> /\ server.pc = "off"
    /\ viewer' = [viewer EXCEPT !.pc = "off", !.degraded = TRUE,
                    !.lostAt = IF viewer.degraded THEN @ ELSE Len(records)]
    /\ UNCHANGED <<records, emitted, kids, server, socket, view, losses>>

-----------------------------------------------------------------------------
(* Failures *)

\* A slow spectator is disconnected, the server refuses another one, or the
\* socket breaks: what is on it arrives up to some frame.
disconnect ==
    /\ losses < MaxLosses /\ losses' = losses + 1 /\ Listening
    /\ server' = Idle /\ \E n \in 0..Len(socket) : socket' = SubSeq(socket, 1, n)
    /\ UNCHANGED <<records, emitted, kids, viewer, view>>

\* The host restarts: recover_interrupted settles the turn, Subagents::recover
\* ends the children.
host_restarts ==
    /\ losses < MaxLosses /\ losses' = losses + 1
    /\ records' = IF ActiveRequest = 0 THEN records
                  ELSE Append(records, <<"settled", ActiveRequest>>)
    /\ kids' = [c \in Watched |-> IF kids[c] = "running" THEN "over" ELSE kids[c]]
    /\ emitted' = 0 /\ server' = Idle
    /\ \E n \in 0..Len(socket) : socket' = SubSeq(socket, 1, n)
    /\ UNCHANGED <<viewer, view>>

ServerStep ==
    \/ subscribe \/ send_subagent_snapshot \/ journal_page
    \/ receive_preview \/ receive_child
ViewerStep == watch_subscribe \/ read_frame \/ viewer_lost

WatchNext ==
    \/ host_commits \/ host_previews \/ \E c \in Watched : child_event(c)
    \/ ServerStep \/ ViewerStep \/ disconnect \/ host_restarts

WatchSpec == WatchInit /\ [][WatchNext]_watchVars

-----------------------------------------------------------------------------
(* The queue of the session in the pane *)

CONSTANTS
    Reloads,        \* rounds of session::queued: 3 in the code
    MaxVersions,    \* bound on changes of the roster
    MaxFails,       \* bound on failed refreshes
    MaxPanes        \* bound on sessions shown in the pane

ASSUME QueueViewAssumption ==
    {Reloads, MaxVersions, MaxPanes} \subseteq Nat \ {0} /\ MaxFails \in Nat

VARIABLES
    roster,      \* version in the host, version announced to the terminal
    shownQueue,  \* the queue fields of the pane
    loads,       \* refresh jobs
    failures

queueViewVars == <<roster, shownQueue, loads, failures>>

QueueViewTypeOK ==
    /\ roster.announced <= roster.version /\ roster.version <= MaxVersions
    /\ shownQueue \in [generation : 1..MaxPanes, loading : BOOLEAN, dirty : BOOLEAN,
                       failed : BOOLEAN, from : 0..MaxVersions, shown : 0..MaxVersions]
    /\ \A j \in loads : j.out \in {"first", "second", "ok", "failed"} /\ j.tries <= Reloads
    /\ failures \in 0..MaxFails

NewPane(g) ==
    [generation |-> g, loading |-> FALSE, dirty |-> FALSE, failed |-> FALSE,
     from |-> 0, shown |-> 0]

QueueViewInit ==
    /\ roster = [version |-> 0, announced |-> 0]
    /\ shownQueue = NewPane(1) /\ loads = {} /\ failures = 0

LoadJob == [generation |-> shownQueue.generation, first |-> 0, last |-> 0, tries |-> 0, out |-> "first"]

\* One refresh at a time; another one follows if it was asked for meanwhile.
refresh_queue(p, rest) ==
    /\ loads' = IF p.loading THEN rest ELSE rest \cup {LoadJob}
    /\ shownQueue' = [p EXCEPT !.loading = TRUE, !.dirty = p.loading]

\* The queue changes in the host: by a command of this terminal or another's.
host_queue_changes ==
    /\ roster.version < MaxVersions
    /\ roster' = [roster EXCEPT !.version = @ + 1]
    /\ UNCHANGED <<shownQueue, loads, failures>>

\* The record of the change arrives or the reply of a command.
queue_announced ==
    /\ roster.announced < roster.version
    /\ roster' = [roster EXCEPT !.announced = @ + 1]
    /\ refresh_queue(shownQueue, loads)
    /\ UNCHANGED failures

\* The roster of a session that is no longer shown is of no interest.
Roster(j) == IF j.generation = shownQueue.generation THEN roster.version ELSE 0

SameRoster(j) == j.first = Roster(j)

\* session::queued reads the roster in pages, and again when the journal moved
\* between two of them; it may fail or time out.
load_page(j) ==
    /\ \/ /\ j.out = "first" /\ UNCHANGED failures
          /\ loads' = (loads \ {j}) \cup {[j EXCEPT !.out = "second", !.first = Roster(j)]}
       \/ /\ j.out = "second" /\ UNCHANGED failures
          /\ loads' = (loads \ {j}) \cup
                {IF SameRoster(j) THEN [j EXCEPT !.out = "ok", !.last = Roster(j)]
                 ELSE [j EXCEPT !.tries = @ + 1,
                                !.out = IF j.tries + 1 = Reloads THEN "failed" ELSE "first"]}
       \/ /\ j.out \in {"first", "second"} /\ failures < MaxFails
          /\ failures' = failures + 1
          /\ loads' = (loads \ {j}) \cup {[j EXCEPT !.out = "failed"]}
    /\ UNCHANGED <<shownQueue, roster>>

\* Update::Queue: a roster older than the one shown is not taken.
QueueShown(j) ==
    IF j.out = "ok" /\ j.last >= shownQueue.shown
    THEN [shownQueue EXCEPT !.loading = FALSE, !.failed = FALSE, !.from = j.first, !.shown = j.last]
    ELSE [shownQueue EXCEPT !.loading = FALSE, !.failed = j.out = "failed"]

queue_update(j) ==
    /\ j.out \in {"ok", "failed"}
    /\ IF j.generation # shownQueue.generation
       THEN loads' = loads \ {j} /\ UNCHANGED shownQueue
       ELSE IF shownQueue.dirty THEN refresh_queue(QueueShown(j), loads \ {j})
       ELSE shownQueue' = QueueShown(j) /\ loads' = loads \ {j}
    /\ UNCHANGED <<roster, failures>>

\* install: another session, with the queue it was prepared with.
install ==
    /\ shownQueue.generation < MaxPanes
    /\ shownQueue' = NewPane(shownQueue.generation + 1)
    /\ roster' = [version |-> 0, announced |-> 0]
    /\ UNCHANGED <<loads, failures>>

LoadStep == \E j \in loads : load_page(j) \/ queue_update(j)

QueueViewNext == host_queue_changes \/ queue_announced \/ LoadStep \/ install

QueueViewSpec == QueueViewInit /\ [][QueueViewNext]_queueViewVars

-----------------------------------------------------------------------------
(* Properties *)

\* The terminal shows every record of the journal once and in order, whatever
\* pages, broken frames and reconnections lie in between.
RecordsOnce == view.applied = view.sequence

\* The journal may overtake queued previews: once the response of a request
\* is shown, no older delta is added to it.
ConfirmedStays == \A r \in Reqs : view.item[r] # "overwritten"

\* "View reconnected" is said only of a view that has shown everything that
\* was committed before the connection was lost.
ReconnectedIsCurrent ==
    [][viewer.degraded /\ ~viewer'.degraded => view'.sequence >= viewer.lostAt]_watchVars

\* When the host falls silent and the connection holds, the terminal ends up
\* with the whole journal and the true state of every child, although child
\* events are broadcast once, may be dropped and are not in its journal.
ViewConverges == <>[](view.sequence = Len(records) /\ view.tree = kids)

\* The queue shown is one roster of the host, not pages of several.
QueueUntorn == shownQueue.from = shownQueue.shown

\* Every change of the queue is shown in the end, although a refresh under way
\* may have read the queue before it, unless the last refresh failed.
QueueConverges ==
    <>[](shownQueue.failed \/ shownQueue.shown = roster.version)
=============================================================================
