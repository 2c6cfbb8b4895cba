--------------------------- MODULE ProgressProofs ---------------------------
(***************************************************************************)
(* Proofs about what a terminal shows of its host (module Watch): the      *)
(* record stream for any number of requests, children, previews and lost   *)
(* connections and any retention of the channels, and the queue of the     *)
(* session for any number of versions, panes, reloads and failures.        *)
(*                                                                         *)
(* RecordsOnce says that the view has applied exactly the records up to    *)
(* its cursor.  It is inductive with Stream: the journal frames on the     *)
(* socket go on from the cursor of the terminal without a gap up to the    *)
(* cursor of the server, whatever previews, gaps and children are between  *)
(* them.                                                                   *)
(*                                                                         *)
(* The run of MCProgress composes five components of the host; at the end  *)
(* its specification is shown to implement the specification of each of    *)
(* them, so that what is proved of a component on its own holds of the     *)
(* composition, for every value of the constants of all five.              *)
(***************************************************************************)
EXTENDS MCProgress, TurnProofs, SequenceTheorems, TLAPS

\* What the variables hold.
Lives == {"absent", "running", "over"}
Changes == Watched \X {"running", "over"}
Frames ==
    [kind : {"journal"}, of : Nat] \cup [kind : {"preview"}, of : Reqs]
        \cup [kind : {"gap"}, of : {0}] \cup [kind : {"child"}, of : Changes]
        \cup [kind : {"children"}, of : [Watched -> Lives]]
ServerSet ==
    [pc : {"off", "subscribed", "ready", "loop"}, after : Nat, previews : Seq(Reqs),
     lagged : BOOLEAN, events : Seq(Changes), missed : BOOLEAN]
ViewerSet ==
    [pc : {"off", "reading"}, cursor : Nat, through : Nat, degraded : BOOLEAN, lostAt : Nat]
ViewSet ==
    [sequence : Nat, applied : Nat, active : Nat, confirmed : SUBSET Reqs,
     item : [Reqs -> {"none", "preview", "confirmed"}], tree : [Watched -> Lives]]

WatchTypes ==
    /\ records \in Seq(Kinds3 \X Reqs) /\ emitted \in 0..MaxPreviews
    /\ kids \in [Watched -> Lives] /\ server \in ServerSet /\ socket \in Seq(Frames)
    /\ viewer \in ViewerSet /\ view \in ViewSet /\ losses \in 0..MaxLosses

\* Requests are executed one after another, each with one input first.
RequestsInOrder ==
    \A m, n \in 1..Len(records) : m < n =>
        /\ records[m][2] <= records[n][2]
        /\ records[n][1] = "input" => records[m][2] < records[n][2]

\* The view is at the cursor, and neither is ahead of the journal.
AtCursor ==
    /\ view.sequence = viewer.cursor /\ view.applied = view.sequence
    /\ viewer.cursor <= Len(records) /\ viewer.lostAt <= Len(records)
    /\ server.after <= Len(records)
    /\ Len(server.previews) <= Retained /\ Len(server.events) <= Retained

\* Nothing is on the socket of a connection that is being made.
Connection ==
    /\ viewer.pc = "off" => socket = <<>> /\ server.pc \in {"off", "subscribed"}
    /\ server.pc = "subscribed" => viewer.pc = "off"
    /\ server.pc \in {"subscribed", "ready"} => socket = <<>> /\ server.after = viewer.cursor

\* The journal frames on the socket go on from the cursor without a gap, up
\* to the cursor of the server.
OnSocket(i) == i \in 1..Len(socket) /\ socket[i].kind = "journal"
Stream ==
    /\ \A i \in 1..Len(socket) : OnSocket(i) =>
        /\ viewer.cursor < socket[i].of /\ socket[i].of <= Len(records)
        /\ \/ socket[i].of = viewer.cursor + 1
           \/ \E k \in 1..(i - 1) : OnSocket(k) /\ socket[k].of = socket[i].of - 1
        /\ \A k \in 1..(i - 1) : OnSocket(k) => socket[k].of < socket[i].of
    /\ server.pc = "loop" =>
        /\ \A i \in 1..Len(socket) : OnSocket(i) => socket[i].of <= server.after
        /\ \/ server.after = viewer.cursor
           \/ \E i \in 1..Len(socket) : OnSocket(i) /\ socket[i].of = server.after
        /\ viewer.cursor <= server.after

\* A connection made after the loss announced at least what was lost.
Promised == viewer.pc = "reading" /\ viewer.degraded => viewer.lostAt <= viewer.through

\* A response that is shown is one of the records applied, and it is confirmed
\* while its request is active.
Shown ==
    \A r \in Reqs : view.item[r] = "confirmed" =>
        /\ \E m \in 1..view.sequence : records[m] = <<"response", r>>
        /\ view.active = r => r \in view.confirmed

\* The inductive invariant of the watch.
WatchInv ==
    WatchTypes /\ RequestsInOrder /\ AtCursor /\ Connection /\ Stream /\ Promised /\ Shown

LEMMA Retains == Retained \in Nat \ {0} /\ Turns \in Nat \ {0} /\ MaxPreviews \in Nat /\ MaxLosses \in Nat
BY WatchAssumption

-----------------------------------------------------------------------------
(* The queue of the session *)

LoadSet == [generation : 1..MaxPanes, first : 0..MaxVersions, last : 0..MaxVersions,
            tries : 0..Reloads, out : {"first", "second", "ok", "failed"}]

\* A load that is not over has a round left, and one that succeeded read the
\* same roster at its start and at its end.
LoadsSound ==
    \A j \in loads : /\ j \in LoadSet
                     /\ j.out \in {"first", "second"} => j.tries < Reloads
                     /\ j.out = "ok" => j.first = j.last

PaneSet == [generation : 1..MaxPanes, loading : BOOLEAN, dirty : BOOLEAN,
            failed : BOOLEAN, from : 0..MaxVersions, shown : 0..MaxVersions]

\* The inductive invariant of the queue: what is shown is one roster.
QueueViewInv ==
    /\ roster \in [version : 0..MaxVersions, announced : 0..MaxVersions]
    /\ roster.announced <= roster.version
    /\ shownQueue \in PaneSet /\ shownQueue.from = shownQueue.shown
    /\ LoadsSound /\ failures \in 0..MaxFails

LEMMA QueueBounds ==
    /\ Reloads \in Nat \ {0} /\ MaxVersions \in Nat \ {0} /\ MaxPanes \in Nat \ {0} /\ MaxFails \in Nat
    /\ 0 \in 0..MaxVersions /\ 0 \in 0..Reloads
BY QueueViewAssumption

\* refresh_queue asks for one more load of the session shown.
LEMMA RefreshKeeps ==
    ASSUME QueueViewInv, NEW p \in PaneSet, NEW rest \in SUBSET loads, refresh_queue(p, rest),
           p.from = p.shown
    PROVE  /\ shownQueue' \in PaneSet /\ shownQueue'.from = shownQueue'.shown /\ LoadsSound'
<1>1. shownQueue' \in PaneSet /\ shownQueue'.from = shownQueue'.shown
  <2>1. ASSUME NEW b \in BOOLEAN, NEW d \in BOOLEAN
        PROVE  /\ [p EXCEPT !.loading = b, !.dirty = d] \in PaneSet
               /\ [p EXCEPT !.loading = b, !.dirty = d].from = p.from
               /\ [p EXCEPT !.loading = b, !.dirty = d].shown = p.shown
    BY DEF PaneSet
  <2>2. p.loading \in BOOLEAN
    BY DEF PaneSet
  <2>3. shownQueue' = [p EXCEPT !.loading = TRUE, !.dirty = p.loading]
    BY DEF refresh_queue
  <2>4. /\ [p EXCEPT !.loading = TRUE, !.dirty = p.loading] \in PaneSet
        /\ [p EXCEPT !.loading = TRUE, !.dirty = p.loading].from = p.from
        /\ [p EXCEPT !.loading = TRUE, !.dirty = p.loading].shown = p.shown
    BY <2>1, <2>2, Zenon
  <2> QED BY <2>3, <2>4
<1>2. /\ LoadJob \in LoadSet /\ LoadJob.out = "first" /\ LoadJob.tries = 0
  BY QueueBounds DEF LoadJob, LoadSet, QueueViewInv, PaneSet
<1>3. loads' \subseteq loads \cup {LoadJob}
  BY DEF refresh_queue
<1> QED BY <1>1, <1>2, <1>3, QueueBounds DEF QueueViewInv, LoadsSound

LEMMA ChangeKeeps == ASSUME QueueViewInv, host_queue_changes PROVE QueueViewInv'
<1>1. roster.version + 1 \in 0..MaxVersions /\ roster.announced <= roster.version + 1
  BY QueueBounds DEF QueueViewInv, host_queue_changes
<1>2. /\ roster' \in [version : 0..MaxVersions, announced : 0..MaxVersions]
      /\ roster'.announced <= roster'.version
  BY <1>1 DEF QueueViewInv, host_queue_changes
<1> QED BY <1>2 DEF QueueViewInv, host_queue_changes, LoadsSound

LEMMA AnnounceKeeps == ASSUME QueueViewInv, queue_announced PROVE QueueViewInv'
<1>1. roster.announced + 1 \in 0..MaxVersions /\ roster.announced + 1 <= roster.version
  BY QueueBounds DEF QueueViewInv, queue_announced
<1>2. /\ roster' \in [version : 0..MaxVersions, announced : 0..MaxVersions]
      /\ roster'.announced <= roster'.version
  BY <1>1 DEF QueueViewInv, queue_announced
<1>3. /\ shownQueue' \in PaneSet /\ shownQueue'.from = shownQueue'.shown /\ LoadsSound'
  BY RefreshKeeps DEF QueueViewInv, queue_announced
<1> QED BY <1>2, <1>3 DEF QueueViewInv, queue_announced

LEMMA PageKeeps ==
    ASSUME QueueViewInv, NEW j \in loads, load_page(j)
    PROVE  QueueViewInv'
<1>1. j \in LoadSet /\ Roster(j) \in 0..MaxVersions
  BY QueueBounds DEF QueueViewInv, LoadsSound, Roster
<1>2. UNCHANGED <<shownQueue, roster>>
  BY DEF load_page
<1>3. \E k \in LoadSet :
        /\ loads' = (loads \ {j}) \cup {k}
        /\ k.out \in {"first", "second"} => k.tries < Reloads
        /\ k.out = "ok" => k.first = k.last
  <2>1. CASE j.out = "first" /\ loads' = (loads \ {j}) \cup {[j EXCEPT !.out = "second", !.first = Roster(j)]}
    <3> DEFINE k == [j EXCEPT !.out = "second", !.first = Roster(j)]
    <3>1. k \in LoadSet /\ k.out = "second" /\ k.tries = j.tries
      BY <1>1 DEF LoadSet
    <3>2. k.tries < Reloads
      BY <3>1, <2>1 DEF QueueViewInv, LoadsSound
    <3> HIDE DEF k
    <3> QED BY <3>1, <3>2, <2>1 DEF k
  <2>2. CASE /\ j.out = "second"
             /\ loads' = (loads \ {j}) \cup
                {IF SameRoster(j) THEN [j EXCEPT !.out = "ok", !.last = Roster(j)]
                 ELSE [j EXCEPT !.tries = @ + 1,
                                !.out = IF j.tries + 1 = Reloads THEN "failed" ELSE "first"]}
    <3>1. CASE SameRoster(j)
      <4> DEFINE k == [j EXCEPT !.out = "ok", !.last = Roster(j)]
      <4>1. k \in LoadSet /\ k.out = "ok" /\ k.first = j.first /\ k.last = Roster(j)
        BY <1>1 DEF LoadSet
      <4>2. k.first = k.last
        BY <4>1, <3>1 DEF SameRoster
      <4>3. loads' = (loads \ {j}) \cup {k}
        BY <2>2, <3>1
      <4> HIDE DEF k
      <4> QED BY <4>1, <4>2, <4>3
    <3>2. CASE ~SameRoster(j)
      <4> DEFINE o == IF j.tries + 1 = Reloads THEN "failed" ELSE "first"
                 k == [j EXCEPT !.tries = @ + 1, !.out = o]
      <4>1. j.tries < Reloads /\ j.tries \in Nat /\ j.tries + 1 \in 0..Reloads
        BY <1>1, <2>2, QueueBounds DEF QueueViewInv, LoadsSound, LoadSet
      <4>2. o \in {"failed", "first"} /\ (o = "first" => j.tries + 1 < Reloads)
        BY <4>1, QueueBounds
      <4>3. loads' = (loads \ {j}) \cup {k}
        BY <2>2, <3>2
      <4> HIDE DEF o
      <4>4. k \in LoadSet /\ k.out = o /\ k.tries = j.tries + 1
        BY <1>1, <4>1, <4>2 DEF LoadSet
      <4> HIDE DEF k
      <4> QED BY <4>2, <4>3, <4>4
    <3> QED BY <3>1, <3>2
  <2>3. CASE loads' = (loads \ {j}) \cup {[j EXCEPT !.out = "failed"]}
    <3> DEFINE k == [j EXCEPT !.out = "failed"]
    <3>1. k \in LoadSet /\ k.out = "failed"
      BY <1>1 DEF LoadSet
    <3> HIDE DEF k
    <3> QED BY <3>1, <2>3 DEF k
  <2> QED BY <2>1, <2>2, <2>3 DEF load_page
<1>4. LoadsSound'
  BY <1>3 DEF QueueViewInv, LoadsSound
<1>5. failures' \in 0..MaxFails
  BY QueueBounds DEF QueueViewInv, load_page
<1> QED BY <1>2, <1>4, <1>5 DEF QueueViewInv

LEMMA ShownKeeps ==
    ASSUME QueueViewInv, NEW j \in loads
    PROVE  QueueShown(j) \in PaneSet /\ QueueShown(j).from = QueueShown(j).shown
<1>1. j \in LoadSet /\ shownQueue \in PaneSet /\ shownQueue.from = shownQueue.shown
  BY DEF QueueViewInv, LoadsSound
<1>2. ASSUME NEW b \in BOOLEAN, NEW d \in BOOLEAN, NEW m \in 0..MaxVersions, NEW n \in 0..MaxVersions
      PROVE  /\ [shownQueue EXCEPT !.loading = b, !.failed = d, !.from = m, !.shown = n] \in PaneSet
             /\ [shownQueue EXCEPT !.loading = b, !.failed = d, !.from = m, !.shown = n].from = m
             /\ [shownQueue EXCEPT !.loading = b, !.failed = d, !.from = m, !.shown = n].shown = n
             /\ [shownQueue EXCEPT !.loading = b, !.failed = d] \in PaneSet
             /\ [shownQueue EXCEPT !.loading = b, !.failed = d].from = shownQueue.from
             /\ [shownQueue EXCEPT !.loading = b, !.failed = d].shown = shownQueue.shown
  BY <1>1 DEF PaneSet
<1>3. CASE j.out = "ok" /\ j.last >= shownQueue.shown
  <2>1. j.first \in 0..MaxVersions /\ j.last \in 0..MaxVersions
    BY <1>1 DEF LoadSet
  <2>2. j.first = j.last
    BY <1>3 DEF QueueViewInv, LoadsSound
  <2>3. QueueShown(j) = [shownQueue EXCEPT !.loading = FALSE, !.failed = FALSE, !.from = j.first, !.shown = j.last]
    BY <1>3 DEF QueueShown
  <2>4. /\ [shownQueue EXCEPT !.loading = FALSE, !.failed = FALSE, !.from = j.first, !.shown = j.last] \in PaneSet
        /\ [shownQueue EXCEPT !.loading = FALSE, !.failed = FALSE, !.from = j.first, !.shown = j.last].from = j.first
        /\ [shownQueue EXCEPT !.loading = FALSE, !.failed = FALSE, !.from = j.first, !.shown = j.last].shown = j.last
    BY <1>2, <2>1, Zenon
  <2> QED BY <2>2, <2>3, <2>4
<1>4. CASE ~(j.out = "ok" /\ j.last >= shownQueue.shown)
  <2>1. QueueShown(j) = [shownQueue EXCEPT !.loading = FALSE, !.failed = (j.out = "failed")]
    BY <1>4 DEF QueueShown
  <2>2. (j.out = "failed") \in BOOLEAN /\ FALSE \in BOOLEAN
    OBVIOUS
  <2>3. 0 \in 0..MaxVersions
    BY QueueBounds
  <2>4. /\ [shownQueue EXCEPT !.loading = FALSE, !.failed = (j.out = "failed")] \in PaneSet
        /\ [shownQueue EXCEPT !.loading = FALSE, !.failed = (j.out = "failed")].from = shownQueue.from
        /\ [shownQueue EXCEPT !.loading = FALSE, !.failed = (j.out = "failed")].shown = shownQueue.shown
    BY <1>2, <2>2, <2>3, Zenon
  <2> QED BY <1>1, <2>1, <2>4
<1> QED BY <1>3, <1>4

LEMMA UpdateKeeps ==
    ASSUME QueueViewInv, NEW j \in loads, queue_update(j)
    PROVE  QueueViewInv'
<1>1. UNCHANGED <<roster, failures>> /\ loads \ {j} \in SUBSET loads
  BY DEF queue_update
<1>2. CASE loads' = loads \ {j} /\ UNCHANGED shownQueue
  BY <1>1, <1>2 DEF QueueViewInv, LoadsSound
<1>3. CASE refresh_queue(QueueShown(j), loads \ {j})
  <2>1. /\ shownQueue' \in PaneSet /\ shownQueue'.from = shownQueue'.shown /\ LoadsSound'
    BY <1>1, <1>3, ShownKeeps, RefreshKeeps
  <2> QED BY <1>1, <2>1 DEF QueueViewInv
<1>4. CASE shownQueue' = QueueShown(j) /\ loads' = loads \ {j}
  BY <1>1, <1>4, ShownKeeps DEF QueueViewInv, LoadsSound
<1> QED BY <1>2, <1>3, <1>4 DEF queue_update

LEMMA PaneKeeps ==
    ASSUME NEW g \in 1..MaxPanes
    PROVE  NewPane(g) \in PaneSet /\ NewPane(g).from = NewPane(g).shown
<1>1. ASSUME NEW b \in BOOLEAN
      PROVE  [generation |-> g, loading |-> b, dirty |-> b, failed |-> b, from |-> 0, shown |-> 0] \in PaneSet
  BY QueueBounds DEF PaneSet
<1>2. NewPane(g) \in PaneSet
  BY <1>1, Zenon DEF NewPane
<1> QED BY <1>2 DEF NewPane

LEMMA InstallKeeps == ASSUME QueueViewInv, install PROVE QueueViewInv'
<1>1. shownQueue.generation + 1 \in 1..MaxPanes
  BY QueueBounds DEF QueueViewInv, PaneSet, install
<1>2. shownQueue' \in PaneSet /\ shownQueue'.from = shownQueue'.shown
  BY <1>1, PaneKeeps DEF install
<1>3. /\ roster' \in [version : 0..MaxVersions, announced : 0..MaxVersions]
      /\ roster'.announced <= roster'.version
  BY QueueBounds DEF install
<1> QED BY <1>2, <1>3 DEF QueueViewInv, install, LoadsSound

\* Every load, announcement, change of the pane and failure keeps the
\* invariant (refresh_queue, session::queued, Update::Queue).
THEOREM QueueViewInvariant == QueueViewSpec => []QueueViewInv
<1>1. QueueViewInit => QueueViewInv
  <2> SUFFICES ASSUME QueueViewInit PROVE QueueViewInv
    OBVIOUS
  <2>1. 1 \in 1..MaxPanes /\ 0 \in 0..MaxFails
    BY QueueBounds
  <2>2. shownQueue \in PaneSet /\ shownQueue.from = shownQueue.shown
    BY <2>1, PaneKeeps DEF QueueViewInit
  <2>3. /\ roster \in [version : 0..MaxVersions, announced : 0..MaxVersions]
        /\ roster.announced <= roster.version
    BY QueueBounds DEF QueueViewInit
  <2> QED BY <2>1, <2>2, <2>3 DEF QueueViewInit, QueueViewInv, LoadsSound
<1>2. QueueViewInv /\ [QueueViewNext]_queueViewVars => QueueViewInv'
  <2> SUFFICES ASSUME QueueViewInv, [QueueViewNext]_queueViewVars PROVE QueueViewInv'
    OBVIOUS
  <2>1. CASE UNCHANGED queueViewVars
    BY <2>1 DEF queueViewVars, QueueViewInv, LoadsSound
  <2>2. CASE QueueViewNext
    BY <2>2, ChangeKeeps, AnnounceKeeps, PageKeeps, UpdateKeeps, InstallKeeps
       DEF QueueViewNext, LoadStep
  <2> QED BY <2>1, <2>2
<1> QED BY <1>1, <1>2, PTL DEF QueueViewSpec

\* A terminal never shows a queue torn from two rosters of the host: a load
\* whose two reads differ is repeated or given up (session::queued).
THEOREM QueueViewSound == QueueViewSpec => [](QueueViewTypeOK /\ QueueUntorn)
<1>1. QueueViewInv => QueueViewTypeOK /\ QueueUntorn
  <2> SUFFICES ASSUME QueueViewInv PROVE QueueViewTypeOK /\ QueueUntorn
    OBVIOUS
  <2>1. roster.announced <= roster.version /\ roster.version <= MaxVersions
    BY QueueBounds DEF QueueViewInv
  <2>2. \A j \in loads : j.out \in {"first", "second", "ok", "failed"} /\ j.tries <= Reloads
    BY QueueBounds DEF QueueViewInv, LoadsSound, LoadSet
  <2> QED BY <2>1, <2>2 DEF QueueViewInv, PaneSet, QueueViewTypeOK, QueueUntorn
<1> QED BY <1>1, QueueViewInvariant, PTL

-----------------------------------------------------------------------------
(* The watch: what the host does. *)

\* The journal only grows.
RecordsKept ==
    /\ records' \in Seq(Kinds3 \X Reqs) /\ Len(records) <= Len(records')
    /\ \A m \in 1..Len(records) : records'[m] = records[m]

LEMMA WatchFacts ==
    ASSUME WatchTypes
    PROVE  /\ Len(records) \in Nat /\ Len(socket) \in Nat
           /\ server.pc \in {"off", "subscribed", "ready", "loop"} /\ server.after \in Nat
           /\ viewer.pc \in {"off", "reading"} /\ viewer.cursor \in Nat
           /\ viewer.through \in Nat /\ viewer.lostAt \in Nat
           /\ view.sequence \in Nat /\ view.applied \in Nat /\ view.active \in Nat
           /\ \A i \in 1..Len(socket) : socket[i] \in Frames
           /\ \A i \in 1..Len(socket) : socket[i].kind = "journal" => socket[i].of \in Nat
<1>1. \A i \in 1..Len(socket) : socket[i] \in Frames
  BY DEF WatchTypes
<1>2. \A f \in Frames : f.kind = "journal" => f.of \in Nat
  BY DEF Frames
<1>3. /\ server.pc \in {"off", "subscribed", "ready", "loop"} /\ server.after \in Nat
  BY DEF WatchTypes, ServerSet
<1>4. /\ viewer.pc \in {"off", "reading"} /\ viewer.cursor \in Nat
      /\ viewer.through \in Nat /\ viewer.lostAt \in Nat
  BY DEF WatchTypes, ViewerSet
<1>5. view.sequence \in Nat /\ view.applied \in Nat /\ view.active \in Nat
  BY DEF WatchTypes, ViewSet
<1> QED BY <1>1, <1>2, <1>3, <1>4, <1>5 DEF WatchTypes

LEMMA IdleType ==
    /\ Idle \in ServerSet /\ Idle.pc = "off" /\ Idle.after = 0
    /\ Idle.previews = <<>> /\ Idle.events = <<>>
<1>1. ASSUME NEW b \in BOOLEAN
      PROVE  [pc |-> "off", after |-> 0, previews |-> <<>>, lagged |-> b, events |-> <<>>,
              missed |-> b] \in ServerSet
  <2>1. <<>> \in Seq(Reqs) /\ <<>> \in Seq(Changes)
    OBVIOUS
  <2> QED BY <2>1 DEF ServerSet
<1>2. Idle \in ServerSet
  BY <1>1, Zenon DEF Idle
<1> QED BY <1>2 DEF Idle

\* The host and its failures leave the terminal alone, and of the connection
\* either everything or a prefix of the frames.
LEMMA HostStep ==
    ASSUME WatchInv, RecordsKept, UNCHANGED <<viewer, view>>,
           \/ /\ server' \in ServerSet /\ server'.pc = server.pc /\ server'.after = server.after
              /\ Len(server'.previews) <= Retained /\ Len(server'.events) <= Retained
              /\ socket' = socket
           \/ server' = Idle /\ \E n \in 0..Len(socket) : socket' = SubSeq(socket, 1, n)
    PROVE  /\ AtCursor' /\ Connection' /\ Stream' /\ Promised' /\ Shown'
           /\ server' \in ServerSet /\ socket' \in Seq(Frames)
<1>1. /\ Len(records) \in Nat /\ Len(records') \in Nat /\ Len(records) <= Len(records')
      /\ Len(socket) \in Nat /\ socket \in Seq(Frames)
  BY WatchFacts DEF WatchInv, RecordsKept, WatchTypes
<1>2. /\ socket' \in Seq(Frames) /\ Len(socket') \in Nat /\ Len(socket') <= Len(socket)
      /\ \A i \in 1..Len(socket') : i \in 1..Len(socket) /\ socket'[i] = socket[i]
      /\ socket = <<>> => socket' = <<>>
      /\ server'.pc # "off" => socket' = socket /\ server'.pc = server.pc /\ server'.after = server.after
  <2>1. CASE socket' = socket /\ server'.pc = server.pc /\ server'.after = server.after
    BY <1>1, <2>1
  <2>2. CASE server' = Idle /\ \E n \in 0..Len(socket) : socket' = SubSeq(socket, 1, n)
    <3>1. PICK n \in 0..Len(socket) : socket' = SubSeq(socket, 1, n)
      BY <2>2
    <3>2. /\ socket' \in Seq(Frames) /\ Len(socket') = n
          /\ \A i \in 1..n : socket'[i] = socket[i]
      BY <1>1, <3>1
    <3>3. socket = <<>> => socket' = <<>>
      BY <1>1, <3>1, <3>2
    <3> QED BY <1>1, <2>2, <3>2, <3>3, IdleType
  <2> QED BY <2>1, <2>2
<1>3. /\ server' \in ServerSet /\ server'.after \in Nat /\ server'.after <= server.after
      /\ server'.pc = server.pc \/ server'.pc = "off"
      /\ Len(server'.previews) <= Retained /\ Len(server'.events) <= Retained
  <2>1. server.after \in Nat
    BY WatchFacts DEF WatchInv
  <2>2. Len(<<>>) <= Retained
    BY Retains
  <2> QED BY <2>1, <2>2, IdleType
<1>4. AtCursor'
  <2>1. AtCursor /\ viewer.cursor \in Nat /\ viewer.lostAt \in Nat /\ server.after \in Nat
    BY WatchFacts DEF WatchInv
  <2> QED BY <1>1, <1>3, <2>1 DEF AtCursor
<1>5. Connection'
  BY <1>2, <1>3 DEF WatchInv, Connection
<1>6. Stream'
  <2>0. Stream /\ viewer.cursor \in Nat
    BY WatchFacts DEF WatchInv
  <2>1. \A i : OnSocket(i)' => OnSocket(i) /\ i \in 1..Len(socket) /\ socket'[i] = socket[i] /\ socket[i].of \in Nat
    BY <1>2, WatchFacts DEF OnSocket, WatchInv
  <2>2. \A i \in 1..Len(socket') : \A k \in 1..(i - 1) :
            k \in 1..Len(socket') /\ (OnSocket(k) => OnSocket(k)') /\ socket'[k] = socket[k]
    BY <1>1, <1>2 DEF OnSocket
  <2>3. ASSUME NEW i \in 1..Len(socket'), OnSocket(i)'
        PROVE  /\ viewer.cursor < socket'[i].of /\ socket'[i].of <= Len(records')
               /\ \/ socket'[i].of = viewer.cursor + 1
                  \/ \E k \in 1..(i - 1) : OnSocket(k)' /\ socket'[k].of = socket'[i].of - 1
               /\ \A k \in 1..(i - 1) : OnSocket(k)' => socket'[k].of < socket'[i].of
    <3>1. /\ OnSocket(i) /\ i \in 1..Len(socket) /\ socket'[i] = socket[i] /\ socket[i].of \in Nat
      BY <2>1, <2>3
    <3>2. viewer.cursor < socket[i].of /\ socket[i].of <= Len(records)
      BY <3>1, <2>0 DEF Stream
    <3>3. \/ socket'[i].of = viewer.cursor + 1
          \/ \E k \in 1..(i - 1) : OnSocket(k)' /\ socket'[k].of = socket'[i].of - 1
      <4>1. CASE socket[i].of = viewer.cursor + 1
        BY <4>1, <3>1
      <4>2. CASE \E k \in 1..(i - 1) : OnSocket(k) /\ socket[k].of = socket[i].of - 1
        <5>1. PICK k \in 1..(i - 1) : OnSocket(k) /\ socket[k].of = socket[i].of - 1
          BY <4>2
        <5>2. OnSocket(k)' /\ socket'[k] = socket[k]
          BY <5>1, <2>2
        <5> QED BY <5>1, <5>2, <3>1
      <4> QED BY <4>1, <4>2, <3>1, <2>0 DEF Stream
    <3>4. \A k \in 1..(i - 1) : OnSocket(k)' => socket'[k].of < socket'[i].of
      BY <2>0, <2>1, <2>2, <3>1 DEF Stream
    <3> QED BY <3>1, <3>2, <3>3, <3>4, <1>1
  <2>4. server'.pc = "loop" =>
          /\ \A i \in 1..Len(socket') : OnSocket(i)' => socket'[i].of <= server'.after
          /\ \/ server'.after = viewer.cursor
             \/ \E i \in 1..Len(socket') : OnSocket(i)' /\ socket'[i].of = server'.after
          /\ viewer.cursor <= server'.after
    <3> SUFFICES ASSUME server'.pc = "loop"
                 PROVE  /\ \A i \in 1..Len(socket') : OnSocket(i)' => socket'[i].of <= server'.after
                        /\ \/ server'.after = viewer.cursor
                           \/ \E i \in 1..Len(socket') : OnSocket(i)' /\ socket'[i].of = server'.after
                        /\ viewer.cursor <= server'.after
      OBVIOUS
    <3>1. socket' = socket /\ server.pc = "loop" /\ server'.after = server.after
      BY <1>2
    <3> QED BY <3>1, <2>0 DEF Stream, OnSocket
  <2> QED BY <2>3, <2>4 DEF Stream
<1>7. Promised'
  BY DEF WatchInv, Promised
<1>8. Shown'
  <2>1. view.sequence \in Nat /\ view.sequence <= Len(records)
    BY WatchFacts DEF WatchInv, AtCursor
  <2>2. \A m \in 1..view.sequence : records'[m] = records[m]
    BY <2>1, <1>1 DEF RecordsKept
  <2> QED BY <2>2 DEF WatchInv, Shown
<1> QED BY <1>2, <1>3, <1>4, <1>5, <1>6, <1>7, <1>8

LEMMA LastFacts ==
    ASSUME WatchInv
    PROVE  /\ LastRecord[1] \in Kinds3 /\ LastRecord[2] \in 0..Turns
           /\ LastRecord[1] # "settled" => LastRecord[2] \in Reqs /\ ActiveRequest = LastRecord[2]
           /\ ActiveRequest # 0 => LastRecord[1] # "settled"
           /\ \A m \in 1..Len(records) : records[m][2] \in Nat /\ records[m][2] <= LastRecord[2]
<1>1. records \in Seq(Kinds3 \X Reqs)
  BY DEF WatchInv, WatchTypes
<1>2. CASE records = <<>>
  <2>1. LastRecord = <<"settled", 0>> /\ Len(records) = 0
    BY <1>2 DEF LastRecord
  <2> QED BY <2>1, Retains DEF Kinds3, ActiveRequest
<1>3. CASE records # <<>>
  <2>1. /\ LastRecord = records[Len(records)] /\ Len(records) \in Nat /\ Len(records) > 0
        /\ \A m \in 1..Len(records) : records[m] \in Kinds3 \X Reqs
    BY <1>1, <1>3 DEF LastRecord
  <2>2. \A m \in 1..Len(records) : records[m][1] \in Kinds3 /\ records[m][2] \in Reqs
    BY <2>1
  <2>3. \A n \in Reqs : n \in Nat /\ n # 0 /\ n \in 0..Turns
    BY Retains DEF Reqs
  <2>4. \A m \in 1..Len(records) : records[m][2] <= LastRecord[2]
    <3> TAKE m \in 1..Len(records)
    <3>1. CASE m < Len(records)
      BY <2>1, <3>1 DEF WatchInv, RequestsInOrder
    <3>2. CASE m = Len(records)
      BY <2>1, <2>2, <2>3, <3>2
    <3> QED BY <3>1, <3>2, <2>1
  <2>5. LastRecord[1] \in Kinds3 /\ LastRecord[2] \in Reqs
    BY <2>1, <2>2
  <2> QED BY <2>2, <2>3, <2>4, <2>5 DEF ActiveRequest
<1> QED BY <1>2, <1>3

LEMMA AppendRecord ==
    ASSUME WatchInv, NEW rec \in Kinds3 \X Reqs, records' = Append(records, rec),
           \A m \in 1..Len(records) : /\ records[m][2] <= rec[2]
                                      /\ rec[1] = "input" => records[m][2] < rec[2]
    PROVE  RecordsKept /\ RequestsInOrder'
<1>1. /\ records \in Seq(Kinds3 \X Reqs) /\ Len(records) \in Nat /\ RequestsInOrder
  BY WatchFacts DEF WatchInv, WatchTypes
<1>2. /\ records' \in Seq(Kinds3 \X Reqs) /\ Len(records') = Len(records) + 1
      /\ \A m \in 1..Len(records) : records'[m] = records[m]
      /\ records'[Len(records) + 1] = rec
  BY <1>1
<1>3. RecordsKept
  BY <1>1, <1>2 DEF RecordsKept
<1>4. ASSUME NEW m \in 1..Len(records'), NEW n \in 1..Len(records'), m < n
      PROVE  /\ records'[m][2] <= records'[n][2]
             /\ records'[n][1] = "input" => records'[m][2] < records'[n][2]
  <2>1. m \in 1..Len(records) /\ (n \in 1..Len(records) \/ n = Len(records) + 1)
    BY <1>1, <1>2, <1>4
  <2> QED BY <1>1, <1>2, <1>4, <2>1 DEF RequestsInOrder
<1> QED BY <1>3, <1>4 DEF RequestsInOrder

LEMMA SettleRecord ==
    ASSUME WatchInv, NEW k \in {"response", "settled"}, LastRecord[1] # "settled",
           records' = Append(records, <<k, ActiveRequest>>)
    PROVE  RecordsKept /\ RequestsInOrder'
<1>1. <<k, ActiveRequest>> \in Kinds3 \X Reqs
  BY LastFacts DEF Kinds3
<1>2. \A m \in 1..Len(records) : records[m][2] <= <<k, ActiveRequest>>[2]
  BY LastFacts
<1>3. <<k, ActiveRequest>>[1] # "input"
  OBVIOUS
<1> QED BY <1>1, <1>2, <1>3, AppendRecord

\* What remains of the types once the records and the connection are settled.
LEMMA HostTypes ==
    ASSUME WatchInv, RecordsKept, UNCHANGED <<viewer, view>>, server' \in ServerSet,
           socket' \in Seq(Frames), emitted' \in 0..MaxPreviews, kids' \in [Watched -> Lives],
           losses' \in 0..MaxLosses
    PROVE  WatchTypes'
BY DEF WatchInv, WatchTypes, RecordsKept

LEMMA CommitStep == ASSUME WatchInv, host_commits PROVE WatchInv'
<1>1. RecordsKept /\ RequestsInOrder'
  <2>1. CASE /\ LastRecord[2] < Turns /\ records' = Append(records, <<"input", LastRecord[2] + 1>>)
    <3>1. <<"input", LastRecord[2] + 1>> \in Kinds3 \X Reqs
      BY <2>1, LastFacts, Retains DEF Kinds3, Reqs
    <3>2. \A m \in 1..Len(records) : /\ records[m][2] <= <<"input", LastRecord[2] + 1>>[2]
                                     /\ records[m][2] < <<"input", LastRecord[2] + 1>>[2]
      BY LastFacts
    <3> QED BY <2>1, <3>1, <3>2, AppendRecord
  <2>2. CASE LastRecord[1] = "input" /\ records' = Append(records, <<"response", ActiveRequest>>)
    BY <2>2, SettleRecord
  <2>3. CASE ActiveRequest # 0 /\ records' = Append(records, <<"settled", ActiveRequest>>)
    BY <2>3, SettleRecord, LastFacts
  <2> QED BY <2>1, <2>2, <2>3 DEF host_commits
<1>2. /\ UNCHANGED <<kids, server, socket, viewer, view, losses>> /\ emitted' = 0
  BY DEF host_commits
<1>3. /\ server' \in ServerSet /\ Len(server'.previews) <= Retained /\ Len(server'.events) <= Retained
      /\ kids \in [Watched -> Lives] /\ losses \in 0..MaxLosses
  BY <1>2 DEF WatchInv, WatchTypes, AtCursor
<1>4. /\ AtCursor' /\ Connection' /\ Stream' /\ Promised' /\ Shown'
      /\ server' \in ServerSet /\ socket' \in Seq(Frames)
  BY <1>1, <1>2, <1>3, HostStep
<1>5. emitted' \in 0..MaxPreviews
  BY <1>2, Retains
<1>6. WatchTypes'
  BY <1>1, <1>2, <1>3, <1>4, <1>5, HostTypes
<1> QED BY <1>1, <1>4, <1>6 DEF WatchInv

\* A broadcast keeps at most what the channel retains.
LEMMA KeepBounded ==
    ASSUME NEW S, NEW q \in Seq(S), Len(q) <= Retained, NEW x \in S
    PROVE  Keep(q, x) \in Seq(S) /\ Len(Keep(q, x)) <= Retained
<1>1. CASE Len(q) < Retained
  <2>1. Append(q, x) \in Seq(S) /\ Len(Append(q, x)) = Len(q) + 1 /\ Len(q) \in Nat
    OBVIOUS
  <2> QED BY <1>1, <2>1, Retains DEF Keep
<1>2. CASE ~(Len(q) < Retained)
  <2>1. q # <<>> /\ Len(q) = Retained /\ Len(q) \in Nat
    BY <1>2, Retains
  <2>2. Tail(q) \in Seq(S) /\ Len(Tail(q)) = Len(q) - 1
    BY <2>1
  <2>3. Append(Tail(q), x) \in Seq(S) /\ Len(Append(Tail(q), x)) = Len(q)
    BY <2>1, <2>2
  <2> QED BY <1>2, <2>1, <2>3 DEF Keep
<1> QED BY <1>1, <1>2

LEMMA SameRecords == ASSUME WatchInv, records' = records PROVE RecordsKept /\ RequestsInOrder'
BY DEF WatchInv, WatchTypes, RecordsKept, RequestsInOrder

LEMMA PreviewStep == ASSUME WatchInv, host_previews PROVE WatchInv'
<1>1. /\ UNCHANGED <<records, kids, socket, viewer, view, losses>> /\ emitted' = emitted + 1
      /\ emitted < MaxPreviews /\ LastRecord[1] = "input" /\ BroadcastPreview(ActiveRequest)
  BY DEF host_previews
<1>2. /\ server \in ServerSet /\ server.previews \in Seq(Reqs) /\ Len(server.previews) <= Retained
      /\ Len(server.events) <= Retained
      /\ ActiveRequest \in Reqs /\ emitted \in 0..MaxPreviews
      /\ kids \in [Watched -> Lives] /\ losses \in 0..MaxLosses
  BY <1>1, LastFacts DEF WatchInv, WatchTypes, ServerSet, AtCursor
<1>3. Keep(server.previews, ActiveRequest) \in Seq(Reqs) /\ Len(Keep(server.previews, ActiveRequest)) <= Retained
  BY <1>2, KeepBounded
<1>4. /\ server' \in ServerSet /\ server'.pc = server.pc /\ server'.after = server.after
      /\ Len(server'.previews) <= Retained /\ Len(server'.events) <= Retained
  <2>1. ASSUME NEW q \in Seq(Reqs), NEW b \in BOOLEAN
        PROVE  LET v == [server EXCEPT !.previews = q, !.lagged = b] IN
               /\ v \in ServerSet /\ v.pc = server.pc /\ v.after = server.after
               /\ v.previews = q /\ v.events = server.events
    BY <1>2 DEF ServerSet
  <2>2. CASE ~Listening
    BY <1>1, <1>2, <2>2 DEF BroadcastPreview
  <2>3. CASE Listening
    <3> DEFINE b == server.lagged \/ Len(server.previews) = Retained
               q == Keep(server.previews, ActiveRequest)
    <3>1. server' = [server EXCEPT !.previews = q, !.lagged = b]
      BY <1>1, <2>3 DEF BroadcastPreview
    <3>2. b \in BOOLEAN
      OBVIOUS
    <3> HIDE DEF b
    <3>3. q \in Seq(Reqs) /\ Len(q) <= Retained
      BY <1>3
    <3> HIDE DEF q
    <3> QED BY <1>2, <2>1, <3>1, <3>2, <3>3
  <2> QED BY <2>2, <2>3
<1>5. RecordsKept /\ RequestsInOrder'
  BY <1>1, SameRecords
<1>6. /\ AtCursor' /\ Connection' /\ Stream' /\ Promised' /\ Shown'
      /\ server' \in ServerSet /\ socket' \in Seq(Frames)
  BY <1>1, <1>4, <1>5, HostStep
<1>7. emitted' \in 0..MaxPreviews
  BY <1>1, <1>2, Retains
<1>8. WatchTypes'
  BY <1>1, <1>2, <1>5, <1>6, <1>7, HostTypes
<1> QED BY <1>5, <1>6, <1>8 DEF WatchInv

LEMMA ChildEventStep == ASSUME WatchInv, NEW c \in Watched, child_event(c) PROVE WatchInv'
<1>1. UNCHANGED <<records, emitted, socket, viewer, view, losses>>
  BY DEF child_event
<1>2. PICK s \in {"running", "over"} : kids' = [kids EXCEPT ![c] = s] /\ BroadcastChild(<<c, s>>)
  BY DEF child_event
<1>3. /\ server \in ServerSet /\ server.events \in Seq(Changes) /\ Len(server.previews) <= Retained
      /\ Len(server.events) <= Retained
      /\ <<c, s>> \in Changes /\ emitted \in 0..MaxPreviews
      /\ kids \in [Watched -> Lives] /\ losses \in 0..MaxLosses
  BY <1>1 DEF WatchInv, WatchTypes, ServerSet, AtCursor, Changes
<1>4. Keep(server.events, <<c, s>>) \in Seq(Changes) /\ Len(Keep(server.events, <<c, s>>)) <= Retained
  BY <1>3, KeepBounded
<1>5. /\ server' \in ServerSet /\ server'.pc = server.pc /\ server'.after = server.after
      /\ Len(server'.previews) <= Retained /\ Len(server'.events) <= Retained
  <2>1. ASSUME NEW q \in Seq(Changes), NEW b \in BOOLEAN
        PROVE  LET v == [server EXCEPT !.events = q, !.missed = b] IN
               /\ v \in ServerSet /\ v.pc = server.pc /\ v.after = server.after
               /\ v.events = q /\ v.previews = server.previews
    BY <1>3 DEF ServerSet
  <2>2. CASE ~Listening
    BY <1>2, <1>3, <2>2 DEF BroadcastChild
  <2>3. CASE Listening
    <3> DEFINE b == server.missed \/ Len(server.events) = Retained
               q == Keep(server.events, <<c, s>>)
    <3>1. server' = [server EXCEPT !.events = q, !.missed = b]
      BY <1>2, <2>3 DEF BroadcastChild
    <3>2. b \in BOOLEAN
      OBVIOUS
    <3> HIDE DEF b
    <3>3. q \in Seq(Changes) /\ Len(q) <= Retained
      BY <1>4
    <3> HIDE DEF q
    <3> QED BY <1>3, <2>1, <3>1, <3>2, <3>3
  <2> QED BY <2>2, <2>3
<1>6. RecordsKept /\ RequestsInOrder'
  BY <1>1, SameRecords
<1>7. /\ AtCursor' /\ Connection' /\ Stream' /\ Promised' /\ Shown'
      /\ server' \in ServerSet /\ socket' \in Seq(Frames)
  BY <1>1, <1>5, <1>6, HostStep
<1>8. kids' \in [Watched -> Lives]
  BY <1>2, <1>3 DEF Lives
<1>9. WatchTypes'
  BY <1>1, <1>3, <1>6, <1>7, <1>8, HostTypes
<1> QED BY <1>6, <1>7, <1>9 DEF WatchInv

LEMMA LossStep == ASSUME WatchInv, disconnect \/ host_restarts PROVE WatchInv'
<1>1. /\ server' = Idle /\ \E n \in 0..Len(socket) : socket' = SubSeq(socket, 1, n)
      /\ UNCHANGED <<viewer, view>> /\ losses < MaxLosses /\ losses' = losses + 1
  BY DEF disconnect, host_restarts
<1>2. RecordsKept /\ RequestsInOrder'
  <2>1. CASE records' = records
    BY <2>1, SameRecords
  <2>2. CASE ActiveRequest # 0 /\ records' = Append(records, <<"settled", ActiveRequest>>)
    BY <2>2, SettleRecord, LastFacts
  <2> QED BY <2>1, <2>2 DEF disconnect, host_restarts
<1>3. /\ AtCursor' /\ Connection' /\ Stream' /\ Promised' /\ Shown'
      /\ server' \in ServerSet /\ socket' \in Seq(Frames)
  BY <1>1, <1>2, HostStep
<1>4. /\ emitted \in 0..MaxPreviews /\ kids \in [Watched -> Lives] /\ losses \in 0..MaxLosses
  BY DEF WatchInv, WatchTypes
<1>5. emitted' \in 0..MaxPreviews /\ losses' \in 0..MaxLosses
  BY <1>1, <1>4, Retains DEF disconnect, host_restarts
<1>6. kids' \in [Watched -> Lives]
  BY <1>4 DEF disconnect, host_restarts, Lives
<1>7. WatchTypes'
  BY <1>1, <1>2, <1>3, <1>5, <1>6, HostTypes
<1> QED BY <1>2, <1>3, <1>7 DEF WatchInv

-----------------------------------------------------------------------------
(* The watch: what the server sends. *)

\* A frame goes at the end of the socket; a record is the next of its cursor.
LEMMA SendStep ==
    ASSUME WatchInv, NEW f \in Frames, socket' = Append(socket, f),
           UNCHANGED <<records, emitted, kids, viewer, view, losses>>,
           server.pc \in {"ready", "loop"}, server'.pc = "loop", server' \in ServerSet,
           Len(server'.previews) <= Retained, Len(server'.events) <= Retained,
           IF f.kind = "journal"
           THEN /\ server.pc = "loop" /\ server.after < Len(records)
                /\ f.of = server.after + 1 /\ server'.after = f.of
           ELSE server'.after = server.after
    PROVE  WatchInv'
<1>0. PICK n \in Nat : n = Len(socket)
  BY WatchFacts DEF WatchInv
<1>1. /\ n \in Nat /\ Len(records) \in Nat /\ viewer.cursor \in Nat /\ server.after \in Nat
      /\ socket \in Seq(Frames) /\ server'.after \in Nat
      /\ \A i \in 1..n : OnSocket(i) => socket[i].of \in Nat
      /\ \A i \in 1..n : socket[i] \in Frames
  <2>1. server'.after \in Nat
    BY DEF ServerSet
  <2> QED BY <1>0, <2>1, WatchFacts DEF WatchInv, WatchTypes, OnSocket
<1>2. /\ socket' \in Seq(Frames) /\ Len(socket') = n + 1 /\ socket'[n + 1] = f
      /\ \A i \in 1..n : socket'[i] = socket[i]
  BY <1>0, <1>1
<1>3. /\ viewer.cursor <= server.after /\ server.after <= Len(records)
      /\ \A i \in 1..n : OnSocket(i) => socket[i].of <= server.after
      /\ \/ server.after = viewer.cursor
         \/ \E i \in 1..n : OnSocket(i) /\ socket[i].of = server.after
  <2>1. server.after <= Len(records)
    BY DEF WatchInv, AtCursor
  <2>2. CASE server.pc = "ready"
    <3>1. socket = <<>> /\ server.after = viewer.cursor
      BY <2>2 DEF WatchInv, Connection
    <3> QED BY <1>0, <1>1, <2>1, <3>1
  <2>3. CASE server.pc = "loop"
    BY <1>0, <2>1, <2>3 DEF WatchInv, Stream
  <2> QED BY <2>2, <2>3
<1>4. \A i \in 1..n : OnSocket(i)' <=> OnSocket(i)
  BY <1>0, <1>1, <1>2 DEF OnSocket
<1>5. OnSocket(n + 1)' <=> f.kind = "journal"
  BY <1>1, <1>2 DEF OnSocket
<1>6. /\ server.after <= server'.after /\ server'.after <= Len(records)
      /\ f.kind = "journal" => server'.after = f.of /\ f.of = server.after + 1
      /\ f.kind # "journal" => server'.after = server.after
  BY <1>1, <1>3
<1>7. WatchTypes'
  BY <1>2 DEF WatchInv, WatchTypes
<1>8. RequestsInOrder' /\ Promised' /\ Shown'
  BY DEF WatchInv, RequestsInOrder, Promised, Shown
<1>9. AtCursor'
  BY <1>1, <1>6 DEF WatchInv, AtCursor
<1>10. Connection'
  BY WatchFacts DEF WatchInv, Connection
<1>11. Stream'
  <2>1. ASSUME NEW i \in 1..(n + 1), OnSocket(i)'
        PROVE  /\ viewer.cursor < socket'[i].of /\ socket'[i].of <= Len(records)
               /\ \/ socket'[i].of = viewer.cursor + 1
                  \/ \E k \in 1..(i - 1) : OnSocket(k)' /\ socket'[k].of = socket'[i].of - 1
               /\ \A k \in 1..(i - 1) : OnSocket(k)' => socket'[k].of < socket'[i].of
               /\ socket'[i].of <= server'.after
    <3>1. CASE i \in 1..n
      <4>1. OnSocket(i) /\ socket'[i] = socket[i] /\ socket[i].of \in Nat
        BY <1>1, <1>2, <1>4, <2>1, <3>1
      <4>2. /\ viewer.cursor < socket[i].of /\ socket[i].of <= Len(records)
            /\ \/ socket[i].of = viewer.cursor + 1
               \/ \E k \in 1..(i - 1) : OnSocket(k) /\ socket[k].of = socket[i].of - 1
            /\ \A k \in 1..(i - 1) : OnSocket(k) => socket[k].of < socket[i].of
        BY <1>0, <3>1, <4>1 DEF WatchInv, Stream
      <4>3. \A k \in 1..(i - 1) : k \in 1..n
        BY <1>1, <3>1
      <4>4. \A k \in 1..(i - 1) : (OnSocket(k)' <=> OnSocket(k)) /\ socket'[k] = socket[k]
        BY <1>2, <1>4, <4>3
      <4>5. socket[i].of <= server'.after
        BY <1>1, <1>3, <1>6, <3>1, <4>1
      <4> QED BY <4>1, <4>2, <4>4, <4>5
    <3>2. CASE i = n + 1
      <4>1. f.kind = "journal" /\ socket'[i] = f /\ f.of = server.after + 1 /\ server'.after = f.of
        BY <1>2, <1>5, <1>6, <2>1, <3>2
      <4>2. viewer.cursor < f.of /\ f.of <= Len(records) /\ f.of <= server'.after
        BY <1>1, <1>3, <1>6, <4>1
      <4>3. \/ f.of = viewer.cursor + 1
            \/ \E k \in 1..n : OnSocket(k)' /\ socket'[k].of = f.of - 1
        <5>1. CASE server.after = viewer.cursor
          BY <4>1, <5>1
        <5>2. CASE \E k \in 1..n : OnSocket(k) /\ socket[k].of = server.after
          BY <1>1, <1>2, <1>4, <4>1, <5>2
        <5> QED BY <1>3, <5>1, <5>2
      <4>4. \A k \in 1..n : OnSocket(k)' => socket'[k].of < f.of
        BY <1>1, <1>2, <1>3, <1>4, <4>1
      <4>5. i - 1 = n
        BY <1>1, <3>2
      <4> QED BY <4>1, <4>2, <4>3, <4>4, <4>5
    <3>3. i \in 1..n \/ i = n + 1
      BY <1>1
    <3> QED BY <3>1, <3>2, <3>3, Zenon
  <2>2. \/ server'.after = viewer.cursor
        \/ \E i \in 1..(n + 1) : OnSocket(i)' /\ socket'[i].of = server'.after
    <3>1. CASE f.kind = "journal"
      <4>1. n + 1 \in 1..(n + 1) /\ OnSocket(n + 1)' /\ socket'[n + 1].of = server'.after
        BY <1>1, <1>2, <1>5, <1>6, <3>1
      <4> QED BY <4>1
    <3>2. CASE f.kind # "journal" /\ \E i \in 1..n : OnSocket(i) /\ socket[i].of = server.after
      <4>1. PICK i \in 1..n : OnSocket(i) /\ socket[i].of = server.after
        BY <3>2
      <4>2. i \in 1..(n + 1) /\ OnSocket(i)' /\ socket'[i].of = server'.after
        BY <1>1, <1>2, <1>4, <1>6, <3>2, <4>1
      <4> QED BY <4>2
    <3> QED BY <1>3, <1>6, <3>1, <3>2
  <2>3. viewer.cursor <= server'.after
    BY <1>1, <1>3, <1>6
  <2> QED BY <1>2, <2>1, <2>2, <2>3 DEF Stream
<1> QED BY <1>7, <1>8, <1>9, <1>10, <1>11 DEF WatchInv

\* What the frames and the states of the server are.
LEMMA ServerFacts ==
    ASSUME WatchInv
    PROVE  /\ server \in ServerSet /\ Len(server.previews) <= Retained /\ Len(server.events) <= Retained
           /\ server.previews \in Seq(Reqs) /\ server.events \in Seq(Changes)
           /\ kids \in [Watched -> Lives] /\ server.after \in Nat
           /\ [kind |-> "children", of |-> kids] \in Frames
           /\ [kind |-> "gap", of |-> 0] \in Frames
           /\ [kind |-> "journal", of |-> server.after + 1] \in Frames
<1>1. /\ server \in ServerSet /\ Len(server.previews) <= Retained /\ Len(server.events) <= Retained
      /\ kids \in [Watched -> Lives]
  BY DEF WatchInv, WatchTypes, AtCursor
<1>2. server.after \in Nat /\ server.previews \in Seq(Reqs) /\ server.events \in Seq(Changes)
  BY <1>1 DEF ServerSet
<1>3. server.after + 1 \in Nat
  BY <1>2
<1> QED BY <1>1, <1>2, <1>3 DEF Frames

LEMMA SnapshotStep == ASSUME WatchInv, send_subagent_snapshot PROVE WatchInv'
<1> DEFINE f == [kind |-> "children", of |-> kids]
<1>1. /\ server.pc = "ready" /\ server' = [server EXCEPT !.pc = "loop"] /\ socket' = Append(socket, f)
      /\ UNCHANGED <<records, emitted, kids, viewer, view, losses>>
  BY DEF send_subagent_snapshot, Send
<1>2. /\ server' \in ServerSet /\ server'.pc = "loop" /\ server'.after = server.after
      /\ server'.previews = server.previews /\ server'.events = server.events
  BY <1>1, ServerFacts DEF ServerSet
<1>3. f \in Frames /\ f.kind # "journal"
  BY ServerFacts
<1> HIDE DEF f
<1> QED BY <1>1, <1>2, <1>3, ServerFacts, SendStep

LEMMA JournalPageStep == ASSUME WatchInv, journal_page PROVE WatchInv'
<1> DEFINE f == [kind |-> "journal", of |-> server.after + 1]
<1>1. /\ server.pc = "loop" /\ server' = [server EXCEPT !.after = server.after + 1]
      /\ socket' = Append(socket, f) /\ server.after < Len(records)
      /\ UNCHANGED <<records, emitted, kids, viewer, view, losses>>
  BY DEF journal_page, Send, NextCursor
<1>2. server.after + 1 \in Nat
  BY ServerFacts
<1>3. /\ server' \in ServerSet /\ server'.pc = "loop" /\ server'.after = server.after + 1
      /\ server'.previews = server.previews /\ server'.events = server.events
  BY <1>1, <1>2, ServerFacts DEF ServerSet
<1>4. f \in Frames /\ f.kind = "journal" /\ f.of = server.after + 1
  BY ServerFacts
<1> HIDE DEF f
<1> QED BY <1>1, <1>3, <1>4, ServerFacts, SendStep

LEMMA ReceivePreviewStep == ASSUME WatchInv, receive_preview PROVE WatchInv'
<1>1. server.pc = "loop" /\ UNCHANGED <<records, emitted, kids, viewer, view, losses>>
  BY DEF receive_preview, Quiet
<1>2. CASE server' = [server EXCEPT !.lagged = FALSE] /\ socket' = Append(socket, [kind |-> "gap", of |-> 0])
  <2>1. ASSUME NEW b \in BOOLEAN
        PROVE  LET v == [server EXCEPT !.lagged = b] IN
               /\ v \in ServerSet /\ v.pc = server.pc /\ v.after = server.after
               /\ v.events = server.events /\ v.previews = server.previews
    BY ServerFacts DEF ServerSet
  <2>2. /\ server' \in ServerSet /\ server'.pc = server.pc /\ server'.after = server.after
        /\ server'.events = server.events /\ server'.previews = server.previews
    BY <1>2, <2>1
  <2> DEFINE f == [kind |-> "gap", of |-> 0]
  <2>3. f \in Frames /\ f.kind # "journal" /\ socket' = Append(socket, f)
    BY <1>2, ServerFacts
  <2> HIDE DEF f
  <2> QED BY <1>1, <2>2, <2>3, ServerFacts, SendStep
<1>3. CASE /\ server.previews # <<>> /\ server' = [server EXCEPT !.previews = Tail(@)]
           /\ socket' = Append(socket, [kind |-> "preview", of |-> Head(server.previews)])
  <2>1. /\ Tail(server.previews) \in Seq(Reqs) /\ Head(server.previews) \in Reqs
        /\ Len(Tail(server.previews)) <= Retained
    BY <1>3, ServerFacts, Retains
  <2>2. /\ server' \in ServerSet /\ server'.pc = server.pc /\ server'.after = server.after
        /\ server'.events = server.events /\ server'.previews = Tail(server.previews)
    BY <1>3, <2>1, ServerFacts DEF ServerSet
  <2> DEFINE f == [kind |-> "preview", of |-> Head(server.previews)]
  <2>3. f \in Frames /\ f.kind # "journal" /\ socket' = Append(socket, f)
    BY <1>3, <2>1 DEF Frames
  <2> HIDE DEF f
  <2> QED BY <1>1, <2>1, <2>2, <2>3, ServerFacts, SendStep
<1> QED BY <1>2, <1>3 DEF receive_preview, Send

LEMMA ReceiveChildStep == ASSUME WatchInv, receive_child PROVE WatchInv'
<1>1. server.pc = "loop" /\ UNCHANGED <<records, emitted, kids, viewer, view, losses>>
  BY DEF receive_child, Quiet
<1>2. CASE server' = [server EXCEPT !.missed = FALSE] /\ socket' = Append(socket, [kind |-> "children", of |-> kids])
  <2>1. ASSUME NEW b \in BOOLEAN
        PROVE  LET v == [server EXCEPT !.missed = b] IN
               /\ v \in ServerSet /\ v.pc = server.pc /\ v.after = server.after
               /\ v.events = server.events /\ v.previews = server.previews
    BY ServerFacts DEF ServerSet
  <2>2. /\ server' \in ServerSet /\ server'.pc = server.pc /\ server'.after = server.after
        /\ server'.events = server.events /\ server'.previews = server.previews
    BY <1>2, <2>1
  <2> DEFINE f == [kind |-> "children", of |-> kids]
  <2>3. f \in Frames /\ f.kind # "journal" /\ socket' = Append(socket, f)
    BY <1>2, ServerFacts
  <2> HIDE DEF f
  <2> QED BY <1>1, <2>2, <2>3, ServerFacts, SendStep
<1>3. CASE /\ server.events # <<>> /\ server' = [server EXCEPT !.events = Tail(@)]
           /\ socket' = Append(socket, [kind |-> "child", of |-> Head(server.events)])
  <2>1. /\ Tail(server.events) \in Seq(Changes) /\ Head(server.events) \in Changes
        /\ Len(Tail(server.events)) <= Retained
    BY <1>3, ServerFacts, Retains
  <2>2. /\ server' \in ServerSet /\ server'.pc = server.pc /\ server'.after = server.after
        /\ server'.previews = server.previews /\ server'.events = Tail(server.events)
    BY <1>3, <2>1, ServerFacts DEF ServerSet
  <2> DEFINE f == [kind |-> "child", of |-> Head(server.events)]
  <2>3. f \in Frames /\ f.kind # "journal" /\ socket' = Append(socket, f)
    BY <1>3, <2>1 DEF Frames
  <2> HIDE DEF f
  <2> QED BY <1>1, <2>1, <2>2, <2>3, ServerFacts, SendStep
<1> QED BY <1>2, <1>3 DEF receive_child, Send

LEMMA WatchSubscribeStep == ASSUME WatchInv, watch_subscribe PROVE WatchInv'
<1>1. /\ viewer.pc = "off" /\ server.pc = "off" /\ socket = <<>>
      /\ server' = [Idle EXCEPT !.pc = "subscribed", !.after = viewer.cursor]
      /\ UNCHANGED <<records, emitted, kids, socket, viewer, view, losses>>
  BY DEF watch_subscribe
<1>2. viewer.cursor \in Nat /\ viewer.cursor <= Len(records)
  BY WatchFacts DEF WatchInv, AtCursor
<1>3. /\ server' \in ServerSet /\ server'.pc = "subscribed" /\ server'.after = viewer.cursor
      /\ server'.previews = <<>> /\ server'.events = <<>>
  BY <1>1, <1>2, IdleType DEF ServerSet
<1>4. WatchTypes' /\ RequestsInOrder' /\ Promised' /\ Shown'
  BY <1>1, <1>3 DEF WatchInv, WatchTypes, RequestsInOrder, Promised, Shown
<1>5. AtCursor'
  <2>1. Len(<<>>) <= Retained
    BY Retains
  <2> QED BY <1>1, <1>2, <1>3, <2>1 DEF WatchInv, AtCursor
<1>6. Connection'
  BY <1>1, <1>3 DEF Connection
<1>7. Stream'
  BY <1>1, <1>3 DEF Stream, OnSocket
<1> QED BY <1>4, <1>5, <1>6, <1>7 DEF WatchInv

LEMMA SubscribeStep == ASSUME WatchInv, subscribe PROVE WatchInv'
<1>1. /\ server.pc = "subscribed" /\ server' = [server EXCEPT !.pc = "ready"]
      /\ viewer' = [viewer EXCEPT !.pc = "reading", !.through = Len(records),
                    !.degraded = viewer.degraded /\ viewer.cursor # Len(records)]
      /\ UNCHANGED <<records, emitted, kids, socket, view, losses>>
  BY DEF subscribe
<1>2. /\ viewer \in ViewerSet /\ Len(records) \in Nat
      /\ viewer.pc = "off" /\ socket = <<>> /\ server.after = viewer.cursor
  BY <1>1, WatchFacts DEF WatchInv, WatchTypes, Connection
<1>3. /\ server' \in ServerSet /\ server'.pc = "ready" /\ server'.after = server.after
      /\ server'.previews = server.previews /\ server'.events = server.events
  BY <1>1, ServerFacts DEF ServerSet
<1>4. /\ viewer' \in ViewerSet /\ viewer'.pc = "reading" /\ viewer'.through = Len(records)
      /\ viewer'.cursor = viewer.cursor /\ viewer'.lostAt = viewer.lostAt
  <2>1. ASSUME NEW b \in BOOLEAN
        PROVE  LET v == [viewer EXCEPT !.pc = "reading", !.through = Len(records), !.degraded = b] IN
               /\ v \in ViewerSet /\ v.pc = "reading" /\ v.through = Len(records)
               /\ v.cursor = viewer.cursor /\ v.lostAt = viewer.lostAt
    BY <1>2 DEF ViewerSet
  <2> DEFINE b == viewer.degraded /\ viewer.cursor # Len(records)
  <2>2. viewer' = [viewer EXCEPT !.pc = "reading", !.through = Len(records), !.degraded = b] /\ b \in BOOLEAN
    BY <1>1, Zenon
  <2> HIDE DEF b
  <2> QED BY <2>1, <2>2
<1>5. WatchTypes' /\ RequestsInOrder' /\ Shown'
  BY <1>1, <1>3, <1>4 DEF WatchInv, WatchTypes, RequestsInOrder, Shown
<1>6. AtCursor' /\ Promised'
  BY <1>1, <1>3, <1>4 DEF WatchInv, AtCursor, Promised
<1>7. Connection'
  BY <1>1, <1>2, <1>3, <1>4 DEF Connection
<1>8. Stream'
  BY <1>1, <1>2, <1>3 DEF Stream, OnSocket
<1> QED BY <1>5, <1>6, <1>7, <1>8 DEF WatchInv

LEMMA ViewerLostStep == ASSUME WatchInv, viewer_lost PROVE WatchInv'
<1>1. /\ viewer.pc = "reading" /\ socket = <<>> /\ server.pc = "off"
      /\ viewer' = [viewer EXCEPT !.pc = "off", !.degraded = TRUE,
                    !.lostAt = IF viewer.degraded THEN @ ELSE Len(records)]
      /\ UNCHANGED <<records, emitted, kids, server, socket, view, losses>>
  BY DEF viewer_lost
<1> DEFINE at == IF viewer.degraded THEN viewer.lostAt ELSE Len(records)
<1>2. viewer \in ViewerSet /\ at \in Nat /\ at <= Len(records)
  BY WatchFacts DEF WatchInv, WatchTypes, AtCursor
<1>3. viewer' = [viewer EXCEPT !.pc = "off", !.degraded = TRUE, !.lostAt = at]
  BY <1>1
<1> HIDE DEF at
<1>4. /\ viewer' \in ViewerSet /\ viewer'.pc = "off" /\ viewer'.cursor = viewer.cursor
      /\ viewer'.lostAt = at
  <2>1. ASSUME NEW b \in BOOLEAN
        PROVE  LET v == [viewer EXCEPT !.pc = "off", !.degraded = b, !.lostAt = at] IN
               /\ v \in ViewerSet /\ v.pc = "off" /\ v.cursor = viewer.cursor /\ v.lostAt = at
    BY <1>2 DEF ViewerSet
  <2> QED BY <1>3, <2>1
<1>5. WatchTypes' /\ RequestsInOrder' /\ Shown' /\ Promised'
  BY <1>1, <1>4 DEF WatchInv, WatchTypes, RequestsInOrder, Shown, Promised
<1>6. AtCursor'
  BY <1>1, <1>2, <1>4 DEF WatchInv, AtCursor
<1>7. Connection' /\ Stream'
  BY <1>1, <1>4 DEF Connection, Stream, OnSocket
<1> QED BY <1>5, <1>6, <1>7 DEF WatchInv

-----------------------------------------------------------------------------
(* The watch: what the terminal reads. *)

\* The state of a view that has applied the first n records.
Faithful(v, n) ==
    /\ v \in ViewSet /\ v.sequence = n /\ v.applied = n
    /\ \A r \in Reqs : v.item[r] = "confirmed" =>
        /\ \E m \in 1..n : records[m] = <<"response", r>>
        /\ v.active = r => r \in v.confirmed

LEMMA ViewFaithful ==
    ASSUME WatchInv
    PROVE  /\ Faithful(view, view.sequence) /\ view.sequence \in Nat /\ view.sequence = viewer.cursor
           /\ view.active \in Nat /\ view.confirmed \in SUBSET Reqs
           /\ view.item \in [Reqs -> {"none", "preview", "confirmed"}]
           /\ view.tree \in [Watched -> Lives]
<1>1. view \in ViewSet /\ view.applied = view.sequence /\ view.sequence = viewer.cursor
  BY DEF WatchInv, WatchTypes, AtCursor
<1>2. /\ view.sequence \in Nat /\ view.active \in Nat /\ view.confirmed \in SUBSET Reqs
      /\ view.item \in [Reqs -> {"none", "preview", "confirmed"}]
      /\ view.tree \in [Watched -> Lives]
  BY <1>1 DEF ViewSet
<1> QED BY <1>1, <1>2 DEF Faithful, WatchInv, Shown

\* Another tree changes nothing else.
LEMMA TreeFaithful ==
    ASSUME WatchInv, NEW t \in [Watched -> Lives]
    PROVE  Faithful([view EXCEPT !.tree = t], view.sequence)
<1> DEFINE v == [view EXCEPT !.tree = t]
<1>1. /\ v \in ViewSet /\ v.sequence = view.sequence /\ v.applied = view.applied
      /\ v.item = view.item /\ v.active = view.active /\ v.confirmed = view.confirmed
  BY DEF ViewSet, WatchInv, WatchTypes
<1> HIDE DEF v
<1>2. Faithful(v, view.sequence)
  BY <1>1, ViewFaithful DEF Faithful
<1> QED BY <1>2 DEF v

\* Items that are confirmed no more than before.
LEMMA ItemsFaithful ==
    ASSUME WatchInv, NEW t \in [Reqs -> {"none", "preview", "confirmed"}],
           \A r \in Reqs : t[r] = "confirmed" => view.item[r] = "confirmed"
    PROVE  Faithful([view EXCEPT !.item = t], view.sequence)
<1> DEFINE v == [view EXCEPT !.item = t]
<1>1. /\ v \in ViewSet /\ v.sequence = view.sequence /\ v.applied = view.applied
      /\ v.item = t /\ v.active = view.active /\ v.confirmed = view.confirmed
  BY DEF ViewSet, WatchInv, WatchTypes
<1> HIDE DEF v
<1>2. Faithful(v, view.sequence)
  BY <1>1, ViewFaithful DEF Faithful
<1> QED BY <1>2 DEF v

\* A preview is not added to a response that is confirmed.
LEMMA ProvisionalFaithful ==
    ASSUME WatchInv, NEW r \in Reqs
    PROVE  Faithful(Provisional(r), view.sequence)
<1> DEFINE x == IF view.active # r \/ r \in view.confirmed THEN view.item[r]
                ELSE IF view.item[r] = "confirmed" THEN "overwritten" ELSE "preview"
           t == [view.item EXCEPT ![r] = x]
<1>1. x \in {"none", "preview", "confirmed"} /\ (x = "confirmed" => view.item[r] = "confirmed")
  BY ViewFaithful DEF Faithful
<1>2. view \in ViewSet
  BY DEF WatchInv, WatchTypes
<1>3. Provisional(r) = [view EXCEPT !.item = t]
  BY <1>2 DEF Provisional, ViewSet
<1> HIDE DEF x
<1>4. /\ t \in [Reqs -> {"none", "preview", "confirmed"}]
      /\ \A q \in Reqs : t[q] = "confirmed" => view.item[q] = "confirmed"
  BY <1>1, ViewFaithful
<1> HIDE DEF t
<1> QED BY <1>3, <1>4, ItemsFaithful

LEMMA GapFaithful ==
    ASSUME WatchInv, NEW f \in Frames, f.kind = "gap"
    PROVE  Faithful(Apply(f), view.sequence)
<1> DEFINE t == [r \in Reqs |-> IF view.item[r] = "preview" THEN "none" ELSE view.item[r]]
<1>1. Apply(f) = [view EXCEPT !.item = t]
  BY DEF Apply
<1>2. /\ t \in [Reqs -> {"none", "preview", "confirmed"}]
      /\ \A q \in Reqs : t[q] = "confirmed" => view.item[q] = "confirmed"
  BY ViewFaithful
<1> HIDE DEF t
<1> QED BY <1>1, <1>2, ItemsFaithful

LEMMA ChildFaithful ==
    ASSUME WatchInv, NEW f \in Frames, f.kind \in {"child", "children"}
    PROVE  Faithful(Apply(f), view.sequence)
<1>1. view.tree \in [Watched -> Lives] /\ view \in ViewSet
  BY ViewFaithful DEF WatchInv, WatchTypes
<1>2. \A c \in Watched, s \in Lives : Grown(view.tree, c, s) \in Lives
  BY <1>1 DEF Grown, Lives
<1>3. CASE f.kind = "child"
  <2>1. f.of \in Changes
    BY <1>3 DEF Frames
  <2>2. f.of[1] \in Watched /\ f.of[2] \in Lives
    BY <2>1 DEF Changes, Lives
  <2> DEFINE x == Grown(view.tree, f.of[1], f.of[2])
             t == [view.tree EXCEPT ![f.of[1]] = x]
  <2>3. x \in Lives
    BY <1>2, <2>2
  <2>4. Apply(f) = [view EXCEPT !.tree = t]
    BY <1>1, <1>3 DEF Apply, ViewSet
  <2> HIDE DEF x
  <2>5. t \in [Watched -> Lives]
    BY <1>1, <2>3
  <2> HIDE DEF t
  <2> QED BY <2>4, <2>5, TreeFaithful
<1>4. CASE f.kind = "children"
  <2>1. f.of \in [Watched -> Lives]
    BY <1>4 DEF Frames
  <2> DEFINE t == [c \in Watched |-> Grown(view.tree, c, f.of[c])]
  <2>2. t \in [Watched -> Lives]
    BY <1>2, <2>1
  <2>3. Apply(f) = [view EXCEPT !.tree = t]
    BY <1>4 DEF Apply
  <2> HIDE DEF t
  <2> QED BY <2>2, <2>3, TreeFaithful
<1> QED BY <1>3, <1>4

\* The next record: no response of a request is shown before its input.
LEMMA JournalFaithful ==
    ASSUME WatchInv, NEW n \in 1..Len(records), n = view.sequence + 1
    PROVE  Faithful(Journal(n), n)
<1>1. /\ view \in ViewSet /\ view.sequence \in Nat /\ view.applied = view.sequence
      /\ view.confirmed \in SUBSET Reqs /\ view.item \in [Reqs -> {"none", "preview", "confirmed"}]
      /\ n \in Nat /\ Len(records) \in Nat /\ 0 \in Nat
  BY ViewFaithful, WatchFacts DEF Faithful, WatchInv, WatchTypes
<1>2. PICK k \in Kinds3, r \in Reqs : records[n] = <<k, r>>
  <2>1. records[n] \in Kinds3 \X Reqs
    BY DEF WatchInv, WatchTypes
  <2> QED BY <2>1
<1>3. r \in Nat /\ r # 0
  BY Retains DEF Reqs
<1>4. Journal(n) = [SessionEvent(view, k, r) EXCEPT !.sequence = n, !.applied = @ + 1]
  BY <1>1, <1>2 DEF Journal
<1>5. \A q \in Reqs : view.item[q] = "confirmed" =>
        /\ \E m \in 1..n : records[m] = <<"response", q>>
        /\ view.active = q => q \in view.confirmed
        /\ k = "input" => q # r
  <2> SUFFICES ASSUME NEW q \in Reqs, view.item[q] = "confirmed"
               PROVE  /\ \E m \in 1..n : records[m] = <<"response", q>>
                      /\ view.active = q => q \in view.confirmed
                      /\ k = "input" => q # r
    OBVIOUS
  <2>1. PICK m \in 1..view.sequence : records[m] = <<"response", q>>
    BY ViewFaithful DEF Faithful
  <2>2. m \in 1..n /\ m < n /\ m \in 1..Len(records)
    BY <1>1
  <2>3. k = "input" => records[m][2] < records[n][2]
    BY <1>2, <2>2 DEF WatchInv, RequestsInOrder
  <2>4. q \in Nat
    BY Retains DEF Reqs
  <2> QED BY <1>2, <1>3, <2>1, <2>2, <2>3, <2>4, ViewFaithful DEF Faithful
<1>6. CASE k = "input"
  <2> DEFINE v == [view EXCEPT !.active = r, !.confirmed = {}, !.sequence = n, !.applied = n]
  <2>1. Journal(n) = v
    BY <1>1, <1>4, <1>6 DEF SessionEvent, ViewSet
  <2>2. /\ v \in ViewSet /\ v.sequence = n /\ v.applied = n /\ v.item = view.item /\ v.active = r
    BY <1>1, <1>3 DEF ViewSet
  <2> HIDE DEF v
  <2> QED BY <1>5, <1>6, <2>1, <2>2 DEF Faithful
<1>7. CASE k = "settled"
  <2> DEFINE v == [view EXCEPT !.active = 0, !.confirmed = {}, !.sequence = n, !.applied = n]
  <2>1. Journal(n) = v
    BY <1>1, <1>4, <1>7 DEF SessionEvent, ViewSet
  <2>2. /\ v \in ViewSet /\ v.sequence = n /\ v.applied = n /\ v.item = view.item /\ v.active = 0
    BY <1>1 DEF ViewSet
  <2>3. \A q \in Reqs : q # 0
    BY Retains DEF Reqs
  <2> HIDE DEF v
  <2> QED BY <1>5, <2>1, <2>2, <2>3 DEF Faithful
<1>8. CASE k = "response"
  <2> DEFINE e == IF view.active = r THEN view.confirmed \cup {r} ELSE view.confirmed
             t == [view.item EXCEPT ![r] = "confirmed"]
             v == [view EXCEPT !.confirmed = e, !.item = t, !.sequence = n, !.applied = n]
  <2>1. Journal(n) = v
    BY <1>1, <1>4, <1>8 DEF SessionEvent, ViewSet
  <2>2. e \in SUBSET Reqs /\ view.confirmed \subseteq e /\ (view.active = r => r \in e)
    BY <1>1
  <2>3. t \in [Reqs -> {"none", "preview", "confirmed"}] /\ \A q \in Reqs \ {r} : t[q] = view.item[q]
    BY <1>1
  <2> HIDE DEF e, t
  <2>4. /\ v \in ViewSet /\ v.sequence = n /\ v.applied = n /\ v.item = t /\ v.active = view.active
        /\ v.confirmed = e
    BY <1>1, <2>2, <2>3 DEF ViewSet
  <2> HIDE DEF v
  <2>5. records[n] = <<"response", r>> /\ n \in 1..n
    BY <1>1, <1>2, <1>8
  <2>6. ASSUME NEW q \in Reqs, v.item[q] = "confirmed"
        PROVE  /\ \E m \in 1..n : records[m] = <<"response", q>>
               /\ v.active = q => q \in v.confirmed
    BY <1>5, <2>2, <2>3, <2>4, <2>5, <2>6
  <2> QED BY <2>1, <2>4, <2>6 DEF Faithful
<1> QED BY <1>6, <1>7, <1>8 DEF Kinds3

\* The frame at the head of the socket: a record is the next one.
LEMMA HeadFacts ==
    ASSUME WatchInv, read_frame
    PROVE  /\ socket[1] \in Frames /\ Len(socket) \in Nat \ {0} /\ viewer.pc = "reading"
           /\ server.pc \in {"off", "loop"}
           /\ socket' \in Seq(Frames) /\ Len(socket') = Len(socket) - 1
           /\ \A i \in 1..(Len(socket) - 1) : socket'[i] = socket[i + 1]
           /\ socket[1].kind = "journal" =>
                /\ socket[1].of = viewer.cursor + 1 /\ socket[1].of \in 1..Len(records)
                /\ server.pc = "loop" => socket[1].of <= server.after
           /\ Faithful(view', IF socket[1].kind = "journal" THEN socket[1].of ELSE viewer.cursor)
<1>1. viewer.pc = "reading" /\ socket # <<>> /\ socket' = Tail(socket) /\ view' = Apply(Head(socket))
  BY DEF read_frame
<1>2. /\ socket \in Seq(Frames) /\ viewer.cursor \in Nat /\ Len(records) \in Nat /\ server.after \in Nat
      /\ server.pc \in {"off", "subscribed", "ready", "loop"}
      /\ \A i \in 1..Len(socket) : socket[i].kind = "journal" => socket[i].of \in Nat
  BY WatchFacts DEF WatchInv, WatchTypes
<1>3. /\ Len(socket) \in Nat \ {0} /\ Head(socket) = socket[1] /\ socket[1] \in Frames
      /\ socket' \in Seq(Frames) /\ Len(socket') = Len(socket) - 1
      /\ \A i \in 1..(Len(socket) - 1) : socket'[i] = socket[i + 1]
  BY <1>1, <1>2
<1>4. server.pc \in {"off", "loop"}
  BY <1>1, <1>2 DEF WatchInv, Connection
<1>5. socket[1].kind = "journal" =>
        /\ socket[1].of = viewer.cursor + 1 /\ socket[1].of \in 1..Len(records)
        /\ server.pc = "loop" => socket[1].of <= server.after
  <2> SUFFICES ASSUME socket[1].kind = "journal"
               PROVE  /\ socket[1].of = viewer.cursor + 1 /\ socket[1].of \in 1..Len(records)
                      /\ server.pc = "loop" => socket[1].of <= server.after
    OBVIOUS
  <2>1. 1 \in 1..Len(socket) /\ OnSocket(1) /\ 1..(1 - 1) = {}
    BY <1>3 DEF OnSocket
  <2>2. socket[1].of <= Len(records) /\ socket[1].of = viewer.cursor + 1
    BY <2>1 DEF WatchInv, Stream
  <2>3. server.pc = "loop" => socket[1].of <= server.after
    BY <2>1 DEF WatchInv, Stream
  <2> QED BY <1>2, <2>1, <2>2, <2>3
<1>6. view.sequence = viewer.cursor
  BY ViewFaithful
<1>7. Faithful(view', IF socket[1].kind = "journal" THEN socket[1].of ELSE viewer.cursor)
  <2>1. CASE socket[1].kind = "journal"
    BY <1>1, <1>3, <1>5, <1>6, <2>1, JournalFaithful DEF Apply
  <2>2. CASE socket[1].kind = "preview"
    <3>1. socket[1].of \in Reqs
      BY <1>3, <2>2 DEF Frames
    <3> QED BY <1>1, <1>3, <1>6, <2>2, <3>1, ProvisionalFaithful DEF Apply
  <2>3. CASE socket[1].kind = "gap"
    BY <1>1, <1>3, <1>6, <2>3, GapFaithful
  <2>4. CASE socket[1].kind \in {"child", "children"}
    BY <1>1, <1>3, <1>6, <2>4, ChildFaithful
  <2>5. socket[1].kind \in {"journal", "preview", "gap", "child", "children"}
    BY <1>3 DEF Frames
  <2> QED BY <2>1, <2>2, <2>3, <2>4, <2>5
<1> QED BY <1>1, <1>3, <1>4, <1>5, <1>7

LEMMA ReadFrameStep == ASSUME WatchInv, read_frame PROVE WatchInv'
<1>0. PICK n \in Nat \ {0} : n = Len(socket)
  BY HeadFacts
<1>1. PICK c : c = IF socket[1].kind = "journal" THEN socket[1].of ELSE viewer.cursor
  OBVIOUS
<1>2. /\ viewer' = [viewer EXCEPT !.cursor = c, !.degraded = viewer.degraded /\ c < viewer.through]
      /\ UNCHANGED <<records, emitted, kids, server, losses>>
  <2>1. Head(socket) = socket[1]
    BY HeadFacts DEF WatchInv, WatchTypes, read_frame
  <2> QED BY <1>1, <2>1 DEF read_frame
<1>3. /\ viewer \in ViewerSet /\ viewer.cursor \in Nat /\ Len(records) \in Nat /\ server.after \in Nat
      /\ viewer.cursor <= Len(records)
      /\ \A i \in 1..n : OnSocket(i) => socket[i].of \in Nat
  BY <1>0, WatchFacts DEF WatchInv, WatchTypes, OnSocket, AtCursor
<1>4. c \in Nat /\ viewer.cursor <= c /\ c <= Len(records) /\ (server.pc = "loop" => c <= server.after)
  <2>1. CASE socket[1].kind = "journal"
    BY <1>1, <1>3, <2>1, HeadFacts
  <2>2. CASE socket[1].kind # "journal"
    BY <1>1, <1>3, <2>2 DEF WatchInv, Stream
  <2> QED BY <2>1, <2>2
<1>5. /\ viewer' \in ViewerSet /\ viewer'.pc = viewer.pc /\ viewer'.cursor = c
      /\ viewer'.through = viewer.through /\ viewer'.lostAt = viewer.lostAt
      /\ viewer'.degraded => viewer.degraded
  <2>1. ASSUME NEW b \in BOOLEAN
        PROVE  LET v == [viewer EXCEPT !.cursor = c, !.degraded = b] IN
               /\ v \in ViewerSet /\ v.pc = viewer.pc /\ v.cursor = c
               /\ v.through = viewer.through /\ v.lostAt = viewer.lostAt /\ v.degraded = b
    BY <1>3, <1>4 DEF ViewerSet
  <2> DEFINE b == viewer.degraded /\ c < viewer.through
  <2>2. viewer' = [viewer EXCEPT !.cursor = c, !.degraded = b] /\ b \in BOOLEAN /\ (b => viewer.degraded)
    BY <1>2, Zenon
  <2> HIDE DEF b
  <2> QED BY <2>1, <2>2
<1>6. Faithful(view', c)
  BY <1>1, HeadFacts
<1>7. WatchTypes' /\ RequestsInOrder' /\ Shown'
  <2>1. view' \in ViewSet
    BY <1>6 DEF Faithful
  <2>2. WatchTypes'
    BY <1>2, <1>5, <2>1, HeadFacts DEF WatchInv, WatchTypes
  <2>3. RequestsInOrder'
    BY <1>2 DEF WatchInv, RequestsInOrder
  <2> QED BY <1>2, <1>6, <2>2, <2>3 DEF Faithful, Shown
<1>8. AtCursor' /\ Promised' /\ Connection'
  <2>1. AtCursor'
    BY <1>2, <1>4, <1>5, <1>6 DEF Faithful, WatchInv, AtCursor
  <2>2. Promised'
    BY <1>5 DEF WatchInv, Promised
  <2>3. Connection'
    BY <1>2, <1>5, HeadFacts DEF Connection
  <2> QED BY <2>1, <2>2, <2>3
<1>9. Len(socket') = n - 1 /\ \A i \in 1..(n - 1) : i + 1 \in 1..n /\ socket'[i] = socket[i + 1]
  BY <1>0, HeadFacts
<1>10. \A i \in 1..(n - 1) : OnSocket(i)' <=> OnSocket(i + 1)
  BY <1>0, <1>9 DEF OnSocket
<1>11. 1 \in 1..n /\ (OnSocket(1) <=> socket[1].kind = "journal") /\ (OnSocket(1) => socket[1].of = c)
  BY <1>0, <1>1 DEF OnSocket
<1>12. OnSocket(1) => c = viewer.cursor + 1
  BY <1>1, <1>11, HeadFacts
<1>13. ~OnSocket(1) => c = viewer.cursor
  BY <1>1, <1>11
<1>14. ASSUME NEW k \in 1..n, OnSocket(k), k # 1
       PROVE  k - 1 \in 1..(n - 1) /\ OnSocket(k - 1)' /\ socket'[k - 1] = socket[k]
  <2>1. k - 1 \in 1..(n - 1) /\ (k - 1) + 1 = k
    BY <1>14
  <2>2. PICK j \in 1..(n - 1) : j = k - 1
    BY <2>1
  <2>3. OnSocket(j)' /\ socket'[j] = socket[k]
    BY <1>9, <1>10, <1>14, <2>1, <2>2
  <2> QED BY <2>1, <2>2, <2>3
<1>15. Stream'
  <2>1. ASSUME NEW i \in 1..(n - 1), OnSocket(i)'
        PROVE  /\ c < socket'[i].of /\ socket'[i].of <= Len(records)
               /\ \/ socket'[i].of = c + 1
                  \/ \E k \in 1..(i - 1) : OnSocket(k)' /\ socket'[k].of = socket'[i].of - 1
               /\ \A k \in 1..(i - 1) : OnSocket(k)' => socket'[k].of < socket'[i].of
               /\ server.pc = "loop" => socket'[i].of <= server.after
    <3>1. i + 1 \in 1..n /\ OnSocket(i + 1) /\ socket'[i] = socket[i + 1] /\ socket[i + 1].of \in Nat
      BY <1>3, <1>9, <1>10, <2>1
    <3>2. PICK j \in 1..n : j = i + 1
      BY <3>1
    <3>3. /\ viewer.cursor < socket[j].of /\ socket[j].of <= Len(records)
          /\ \/ socket[j].of = viewer.cursor + 1
             \/ \E k \in 1..(j - 1) : OnSocket(k) /\ socket[k].of = socket[j].of - 1
          /\ \A k \in 1..(j - 1) : OnSocket(k) => socket[k].of < socket[j].of
      BY <1>0, <3>1, <3>2 DEF WatchInv, Stream
    <3>4. server.pc = "loop" => socket[j].of <= server.after
      BY <1>0, <3>1, <3>2 DEF WatchInv, Stream
    <3>5. 1 \in 1..(j - 1)
      BY <3>2
    <3>6. c < socket[j].of
      <4>1. CASE OnSocket(1)
        BY <1>11, <3>3, <3>5, <4>1
      <4>2. CASE ~OnSocket(1)
        BY <1>13, <3>3, <4>2
      <4> QED BY <4>1, <4>2
    <3>7. \/ socket[j].of = c + 1
          \/ \E k \in 1..(i - 1) : OnSocket(k)' /\ socket'[k].of = socket[j].of - 1
      <4>1. CASE socket[j].of = viewer.cursor + 1
        BY <1>3, <1>12, <1>13, <3>1, <3>2, <3>6, <4>1
      <4>2. CASE \E k \in 1..(j - 1) : OnSocket(k) /\ socket[k].of = socket[j].of - 1
        <5>1. PICK k \in 1..(j - 1) : OnSocket(k) /\ socket[k].of = socket[j].of - 1
          BY <4>2
        <5>2. CASE k = 1
          BY <1>4, <1>11, <3>1, <3>2, <5>1, <5>2
        <5>3. CASE k # 1
          <6>1. k \in 1..n /\ k - 1 \in 1..(i - 1)
            BY <3>2, <5>3
          <6>2. OnSocket(k - 1)' /\ socket'[k - 1] = socket[k]
            BY <1>14, <5>1, <5>3, <6>1
          <6>3. PICK m \in 1..(i - 1) : m = k - 1
            BY <6>1
          <6> QED BY <5>1, <6>2, <6>3
        <5> QED BY <5>2, <5>3
      <4> QED BY <3>3, <4>1, <4>2
    <3>8. ASSUME NEW k \in 1..(i - 1), OnSocket(k)'
          PROVE  socket'[k].of < socket[j].of
      <4>1. k \in 1..(n - 1) /\ k + 1 \in 1..(j - 1)
        BY <3>2
      <4>2. OnSocket(k + 1) /\ socket'[k] = socket[k + 1]
        BY <1>9, <1>10, <3>8, <4>1
      <4> QED BY <3>3, <4>1, <4>2
    <3> QED BY <3>1, <3>2, <3>3, <3>4, <3>6, <3>7, <3>8
  <2>2. server.pc = "loop" =>
          \/ server.after = c
          \/ \E i \in 1..(n - 1) : OnSocket(i)' /\ socket'[i].of = server.after
    <3> SUFFICES ASSUME server.pc = "loop"
                 PROVE  \/ server.after = c
                        \/ \E i \in 1..(n - 1) : OnSocket(i)' /\ socket'[i].of = server.after
      OBVIOUS
    <3>1. CASE server.after = viewer.cursor
      BY <1>3, <1>4, <3>1
    <3>2. CASE \E i \in 1..n : OnSocket(i) /\ socket[i].of = server.after
      <4>1. PICK k \in 1..n : OnSocket(k) /\ socket[k].of = server.after
        BY <3>2
      <4>2. CASE k = 1
        BY <1>11, <4>1, <4>2
      <4>3. CASE k # 1
        <5>1. k - 1 \in 1..(n - 1) /\ OnSocket(k - 1)' /\ socket'[k - 1] = socket[k]
          BY <1>14, <4>1, <4>3
        <5>2. PICK m \in 1..(n - 1) : m = k - 1
          BY <5>1
        <5> QED BY <4>1, <5>1, <5>2
      <4> QED BY <4>2, <4>3
    <3> QED BY <1>0, <3>1, <3>2 DEF WatchInv, Stream
  <2> QED BY <1>2, <1>4, <1>5, <1>9, <2>1, <2>2 DEF Stream
<1> QED BY <1>7, <1>8, <1>15 DEF WatchInv

-----------------------------------------------------------------------------
(* The watch: the theorems. *)

LEMMA WatchStart == WatchInit => WatchInv
<1> SUFFICES ASSUME WatchInit PROVE WatchInv
  OBVIOUS
<1>1. /\ records = <<>> /\ emitted = 0 /\ kids = [c \in Watched |-> "absent"]
      /\ server = Idle /\ socket = <<>> /\ losses = 0
  BY DEF WatchInit
<1>2. viewer \in ViewerSet /\ viewer.pc = "off" /\ viewer.cursor = 0 /\ viewer.lostAt = 0
  <2>1. ASSUME NEW b \in BOOLEAN
        PROVE  LET v == [pc |-> "off", cursor |-> 0, through |-> 0, degraded |-> b, lostAt |-> 0] IN
               v \in ViewerSet /\ v.pc = "off" /\ v.cursor = 0 /\ v.lostAt = 0
    BY DEF ViewerSet
  <2> QED BY <2>1 DEF WatchInit
<1>3. /\ view \in ViewSet /\ view.sequence = 0 /\ view.applied = 0
      /\ view.item = [r \in Reqs |-> "none"]
  BY DEF WatchInit, ViewSet, Lives
<1>4. WatchTypes
  BY <1>1, <1>2, <1>3, IdleType, Retains DEF WatchTypes, Lives
<1>5. AtCursor
  BY <1>1, <1>2, <1>3, IdleType, Retains DEF AtCursor
<1>6. RequestsInOrder /\ Connection /\ Stream /\ Promised /\ Shown
  BY <1>1, <1>2, <1>3, IdleType DEF RequestsInOrder, Connection, Stream, OnSocket, Promised, Shown
<1> QED BY <1>4, <1>5, <1>6 DEF WatchInv

LEMMA WatchKeeps == WatchInv /\ [WatchNext]_watchVars => WatchInv'
<1> SUFFICES ASSUME WatchInv, [WatchNext]_watchVars PROVE WatchInv'
  OBVIOUS
<1>1. CASE UNCHANGED watchVars
  BY <1>1 DEF watchVars, WatchInv, WatchTypes, RequestsInOrder, AtCursor, Connection, Stream,
              OnSocket, Promised, Shown
<1>2. CASE host_commits \/ host_previews \/ \E c \in Watched : child_event(c)
  BY <1>2, CommitStep, PreviewStep, ChildEventStep
<1>3. CASE ServerStep
  BY <1>3, SubscribeStep, SnapshotStep, JournalPageStep, ReceivePreviewStep, ReceiveChildStep
     DEF ServerStep
<1>4. CASE ViewerStep
  BY <1>4, WatchSubscribeStep, ReadFrameStep, ViewerLostStep DEF ViewerStep
<1>5. CASE disconnect \/ host_restarts
  BY <1>5, LossStep
<1> QED BY <1>1, <1>2, <1>3, <1>4, <1>5 DEF WatchNext

\* Commits, previews, children, losses, restarts, the server's stream and the
\* terminal's reads keep the invariant.
THEOREM WatchInvariant == WatchSpec => []WatchInv
BY WatchStart, WatchKeeps, PTL DEF WatchSpec

\* A view has applied every record up to its cursor once and in order, whatever
\* was lost, lagged or reconnected, and no older delta replaces a response that
\* is finished (watch, HostProjection).
THEOREM WatchSound == WatchSpec => [](WatchTypeOK /\ RecordsOnce /\ ConfirmedStays)
<1>1. WatchInv => WatchTypeOK /\ RecordsOnce /\ ConfirmedStays
  <2> SUFFICES ASSUME WatchInv PROVE WatchTypeOK /\ RecordsOnce /\ ConfirmedStays
    OBVIOUS
  <2>1. /\ Len(records) \in Nat /\ server.after \in 0..Len(records) /\ viewer.cursor \in 0..Len(records)
        /\ view.sequence \in 0..Len(records) /\ view.applied \in Nat
        /\ server.pc \in {"off", "subscribed", "ready", "loop"} /\ viewer.pc \in {"off", "reading"}
        /\ Len(server.previews) <= Retained /\ Len(server.events) <= Retained
        /\ view.applied = view.sequence
    BY WatchFacts DEF WatchInv, AtCursor
  <2>2. /\ records \in Seq(Kinds3 \X Reqs) /\ emitted \in 0..MaxPreviews
        /\ kids \in [Watched -> Lives] /\ losses \in 0..MaxLosses
    BY DEF WatchInv, WatchTypes
  <2>3. /\ view.item \in [Reqs -> {"none", "preview", "confirmed"}] /\ view.tree \in [Watched -> Lives]
    BY ViewFaithful
  <2>4. view.item \in [Reqs -> {"none", "preview", "confirmed", "overwritten"}]
    BY <2>3
  <2>5. ConfirmedStays
    BY <2>3 DEF ConfirmedStays
  <2> QED BY <2>1, <2>2, <2>3, <2>4, <2>5 DEF WatchTypeOK, RecordsOnce, Lives
<1> QED BY <1>1, WatchInvariant, PTL

LEMMA CurrentStep ==
    ASSUME WatchInv, [WatchNext]_watchVars, viewer.degraded, ~viewer'.degraded
    PROVE  view'.sequence >= viewer.lostAt
<1>1. /\ viewer \in ViewerSet /\ viewer.through \in Nat /\ viewer.lostAt \in Nat /\ Len(records) \in Nat
      /\ viewer.cursor \in Nat /\ viewer.lostAt <= Len(records) /\ view.sequence = viewer.cursor
  BY WatchFacts DEF WatchInv, WatchTypes, AtCursor
<1>2. CASE subscribe
  <2>1. /\ viewer'.degraded = (viewer.degraded /\ viewer.cursor # Len(records)) /\ view' = view
    BY <1>1, <1>2 DEF subscribe, ViewerSet
  <2>2. viewer.cursor = Len(records)
    BY <2>1
  <2> QED BY <1>1, <2>1, <2>2
<1>3. CASE read_frame
  <2> DEFINE c == IF socket[1].kind = "journal" THEN socket[1].of ELSE viewer.cursor
  <2>1. /\ Faithful(view', c) /\ c \in Nat /\ viewer.pc = "reading"
    BY <1>1, <1>3, HeadFacts
  <2>2. Head(socket) = socket[1]
    BY <1>3, HeadFacts DEF WatchInv, WatchTypes, read_frame
  <2>3. viewer'.degraded = (viewer.degraded /\ c < viewer.through)
    BY <1>1, <1>3, <2>2 DEF read_frame, ViewerSet
  <2>4. ~(c < viewer.through)
    BY <2>3
  <2>5. viewer.lostAt <= viewer.through
    BY <2>1 DEF WatchInv, Promised
  <2>6. view'.sequence = c
    BY <2>1 DEF Faithful
  <2> HIDE DEF c
  <2> QED BY <1>1, <2>1, <2>4, <2>5, <2>6
<1>4. CASE viewer_lost
  <2>1. viewer'.degraded = TRUE
    BY <1>1, <1>4 DEF viewer_lost, ViewerSet
  <2> QED BY <2>1
<1>5. CASE UNCHANGED viewer
  BY <1>5
<1>6. subscribe \/ read_frame \/ viewer_lost \/ UNCHANGED viewer
  BY DEF WatchNext, ServerStep, ViewerStep, watchVars, host_commits, host_previews, child_event,
         send_subagent_snapshot, journal_page, receive_preview, receive_child, watch_subscribe,
         disconnect, host_restarts
<1> QED BY <1>2, <1>3, <1>4, <1>5, <1>6

\* "View reconnected" is said only of a view that shows everything that was
\* committed when the connection was lost (watch in tui/client.rs).
THEOREM ReconnectionCurrent == WatchSpec => ReconnectedIsCurrent
<1>1. WatchInv /\ [WatchNext]_watchVars =>
        [viewer.degraded /\ ~viewer'.degraded => view'.sequence >= viewer.lostAt]_watchVars
  BY CurrentStep
<1> QED BY <1>1, WatchInvariant, PTL DEF WatchSpec, ReconnectedIsCurrent

-----------------------------------------------------------------------------
(* The composition. *)

\* A step of the composition is a step of one component, which leaves the
\* variables of the others alone.
LEMMA EachComponent ==
    Spec => QueueViewSpec /\ HookSpec /\ TcSpec /\ AgentSpec /\ WatchSpec
<1>1. Init => QueueViewInit /\ HookInit /\ TcInit /\ AgentInit /\ WatchInit
  BY DEF Init
<1>2. [Next]_vars => [QueueViewNext]_queueViewVars
  BY DEF Next, vars
<1>3. [Next]_vars => [HookNext]_hookVars
  BY DEF Next, vars
<1>4. [Next]_vars => [TcNext]_tcVars
  BY DEF Next, vars
<1>5. [Next]_vars => [AgentNext]_agentVars
  BY DEF Next, vars
<1>6. [Next]_vars => [WatchNext]_watchVars
  BY DEF Next, vars
<1> QED BY <1>1, <1>2, <1>3, <1>4, <1>5, <1>6, PTL
        DEF Spec, QueueViewSpec, HookSpec, TcSpec, AgentSpec, WatchSpec

\* run_task, end_task and the registry of controller/subagents.rs: completion
\* is covered, every call has its receipt, a turn that ends in order cancels
\* its children, and a journal of children replays to the registry.
THEOREM AgentsAlwaysSound == Spec => []AgentsSound
<1>1. TurnKeeps => TcTypeOK
  BY DEF TurnKeeps
<1>2. /\ TcTypeOK /\ CompletionCovered /\ CallsReceipted /\ SettledCancelsChildren
      /\ AgentTypeOK /\ JournalReplays /\ RegistryDurable /\ SequencesDistinct
      => AgentsSound
  BY DEF AgentsSound
<1> QED BY <1>1, <1>2, EachComponent, TurnInvariant, CompletionIsCovered, EveryCallReceipted,
           ChildrenEndWithTurn, ChildrenSound, PTL

\* HostProjection, the transcript and the queue pane: every record once and in
\* order, no older delta under a finished response, one roster.
THEOREM ViewsAlwaysSound == Spec => []ViewsSound
<1>1. /\ WatchTypeOK /\ RecordsOnce /\ ConfirmedStays /\ QueueViewTypeOK /\ QueueUntorn
      => ViewsSound
  BY DEF ViewsSound
<1> QED BY <1>1, EachComponent, WatchSound, QueueViewSound, PTL

\* A follow-up fences the turn it supersedes, and "View reconnected" is said
\* only of a view that has shown what was committed before the loss.
THEOREM TurnsAlwaysFenced == Spec => TurnsFenced
BY EachComponent, FollowUpFences, ReconnectionCurrent, PTL DEF TurnsFenced

\* The completion hook runs at most once per request, also in the composition.
THEOREM HooksAlwaysSound == Spec => []HookSound
BY EachComponent, NotifiedOnce, PTL
=============================================================================
