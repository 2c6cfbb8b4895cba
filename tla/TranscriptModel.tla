--------------------------- MODULE TranscriptModel ---------------------------
(***************************************************************************)
(* The bounded projection behind the transcript of the terminal client     *)
(* (tui/transcript/model.rs): the rows, the maps that find the row of a    *)
(* request, an item, a call or a job, the previews that wait for their     *)
(* record, and the rows the view is told to forget.                        *)
(*                                                                         *)
(* An action is one record of the watch stream, a preview or a directed    *)
(* message, as HostProjection (tui/host_projection.rs) lets it through.    *)
(* A map is a set of pairs <<key, id>>. Text is what it stands for: the    *)
(* beginning of an answer, its notice of interruption, or all of it.       *)
(***************************************************************************)
EXTENDS Integers, Sequences, FiniteSets, SequencesExt

CONSTANTS
    MaxEntries,     \* MAX_ENTRIES
    MaxRetained,    \* MAX_RETAINED_MESSAGE_THREADS
    TextItems,      \* provider item ids of answers
    CallIds,        \* tool calls, each with a provider item of its own
    Threads, Messages, \* message threads of the subagents, and their messages
    MaxTurns,       \* requests of the session
    MaxStreamed,    \* previews, gaps and notices of a run
    MaxRows,        \* rows created in a run
    MaxForked       \* forks taken

ASSUME TranscriptAssumption ==
    /\ {MaxEntries, MaxRetained} \subseteq Nat \ {0}
    /\ {MaxTurns, MaxStreamed, MaxRows, MaxForked} \subseteq Nat

VARIABLES
    model,      \* TranscriptModel
    removed,    \* ModelChange::removed of the last change
    told,       \* every row the view was told to forget
    seen,       \* every row the view could lay out
    shown_turn, turns,        \* the projection's active request, and the last one
    confirmed,          \* the projection's confirmed items
    execution,          \* what the host recorded of each call's job
    proposed, resulted, \* calls whose proposal and output are recorded
    streamed, forked

transcriptVars == <<model, removed, told, seen, shown_turn, turns, confirmed, execution,
                    proposed, resulted, streamed, forked>>

Conversational == {"user", "assistant", "reasoning"}
Row(kind, text, state) ==
    [kind |-> kind, text |-> text, state |-> state, mail |-> {}]

Empty == [entries |-> <<>>, index |-> {}, next |-> 1, assistants |-> {}, reasoning |-> {},
          users |-> {}, tools |-> {}, items |-> {}, previews |-> {}, jobs |-> {},
          requests |-> {}, running |-> {}, transient |-> "none", threads |-> {},
          order |-> <<>>, evicted |-> {}, discarded |-> {}, truncated |-> FALSE]

TranscriptInit ==
    /\ model = Empty /\ removed = {} /\ told = {} /\ seen = {}
    /\ shown_turn = 0 /\ turns = 0 /\ confirmed = {}
    /\ execution = [c \in CallIds |-> "none"]
    /\ proposed = {} /\ resulted = {} /\ streamed = 0 /\ forked = 0

-----------------------------------------------------------------------------
(* The model's own operations *)

Found(map, key) == {p[2] : p \in {q \in map : q[1] = key}}
Put(map, key, id) == {p \in map : p[1] # key} \cup {<<key, id>>}
Without(map, ids) == {p \in map : p[2] \notin ids}
EntryIds(m) == {m.entries[i].id : i \in 1..Len(m.entries)}
Indexed(entries) == {<<entries[i].id, i>> : i \in 1..Len(entries)}
is_active(m) == m.requests # {} \/ m.running # {}
Settling(m) == [m EXCEPT !.transient = IF is_active(m) THEN "thinking" ELSE "none"]

Spaced(entries, kind) ==
    IF entries # <<>> /\ ~Last(entries).spacer
       /\ (kind \in Conversational \/ (Last(entries).kind \in Conversational /\ kind # "completed"))
      THEN [entries EXCEPT ![Len(entries)].spacer = TRUE, ![Len(entries)].revision = @ + 1]
      ELSE entries

Evicted(m) ==
    IF Len(m.entries) < MaxEntries THEN m
    ELSE LET old == {m.entries[1].id} IN
         [m EXCEPT !.entries = Tail(m.entries), !.index = Indexed(Tail(m.entries)),
                   !.evicted = @ \cup old, !.users = Without(@, old),
                   !.assistants = Without(@, old), !.reasoning = Without(@, old),
                   !.tools = Without(@, old), !.items = Without(@, old),
                   !.previews = @ \ old, !.jobs = Without(@, old), !.running = @ \ old]

push(m, row) ==
    LET spaced == [m EXCEPT !.entries = Spaced(m.entries, row.kind)]
        room == Evicted(spaced)
        id == m.next
        entry == [id |-> id, revision |-> 0, spacer |-> row.kind = "completed"] @@ row
    IN [room EXCEPT !.next = id + 1, !.index = Put(@, id, Len(room.entries) + 1),
                    !.entries = Append(@, entry)]

\* update: the row of an id that is still there, and its revision.
update(m, ids, Change(_)) ==
    [m EXCEPT !.entries = [i \in DOMAIN m.entries |->
        LET e == m.entries[i] IN
        IF e.id \in ids THEN [Change(e) EXCEPT !.revision = e.revision + 1] ELSE e]]

discard_tool_previews(m, request) ==
    LET gone == {p[2] : p \in {q \in m.items : q[2] \in m.previews
                                  /\ (request = 0 \/ q[1][1] = request)}}
        kept == SelectSeq(m.entries, LAMBDA e : e.id \notin gone)
    IN [m EXCEPT !.entries = kept, !.index = Indexed(kept),
                 !.items = Without(@, gone), !.previews = @ \ gone,
                 !.discarded = @ \cup gone]

Incomplete(m) == {m.entries[i].id : i \in {j \in DOMAIN m.entries :
                     m.entries[j].kind = "assistant" /\ m.entries[j].text # "final"}}
\* The one answer of a request that is shown and not recorded yet.
sole_pending_assistant(m, request) ==
    LET waiting == {p \in m.assistants : p[1][1] = request /\ p[2] \in Incomplete(m)}
    IN IF Cardinality(waiting) = 1 THEN waiting ELSE {}

\* A fork keeps what is settled before the prompt in progress.
fork_snapshot(m) ==
    LET prompts == {i \in DOMAIN m.entries : m.entries[i].kind = "user"}
        end == IF is_active(m) /\ prompts # {} THEN Max(prompts) - 1 ELSE Len(m.entries)
        kept == SelectSeq(SubSeq(m.entries, 1, end), LAMBDA e :
                    ~ \/ e.kind = "assistant" /\ e.text # "final"
                      \/ e.kind = "tool" /\ e.state \in {"proposed", "running"})
    IN [Empty EXCEPT !.entries = kept, !.index = Indexed(kept), !.next = m.next]

-----------------------------------------------------------------------------
(* apply_host: what a record does to the model *)

User(m, request) ==
    IF Found(m.users, request) # {} THEN m
    ELSE [push(m, Row("user", "final", "")) EXCEPT !.users = Put(@, request, m.next)]

RequestStarted(m, request) ==
    [m EXCEPT !.requests = @ \cup {request}, !.transient = "thinking"]

AnswerEntry(m, key, ids, text) ==
    LET shown == update(m, ids, LAMBDA e : [e EXCEPT !.text = text])
    IN [shown EXCEPT !.transient = IF ~is_active(m) THEN "none"
                                   ELSE IF text = "final" THEN "thinking" ELSE "responding"]

Assistant(m, request, item, text) ==
    LET key == <<request, item>>
        known == Found(m.assistants, key)
        preview == IF text = "final" THEN sole_pending_assistant(m, request) ELSE {}
    IN IF known # {} THEN AnswerEntry(m, key, known, text)
       ELSE IF preview # {}
         THEN LET ids == {p[2] : p \in preview} IN
              AnswerEntry([m EXCEPT !.assistants = (@ \ preview) \cup {<<key, id>> : id \in ids}],
                     key, ids, text)
         ELSE AnswerEntry([push(m, Row("assistant", "", "")) EXCEPT !.assistants = Put(@, key, m.next)],
                     key, {m.next}, text)

Reasoning(m, request, text) ==
    LET key == <<request, "reasoning">>
        made == IF Found(m.reasoning, key) # {} THEN m
                ELSE [push(m, Row("reasoning", "", "")) EXCEPT !.reasoning = Put(@, key, m.next)]
    IN update(made, Found(made.reasoning, key), LAMBDA e : [e EXCEPT !.text = text])

ToolArguments(m, request, item) ==
    LET key == <<request, item>>
        known == Found(m.items, key)
        made == IF known # {} THEN m
                ELSE [push(m, Row("tool", "", "proposed"))
                        EXCEPT !.items = Put(@, key, m.next), !.previews = @ \cup {m.next}]
    IN IF known # {} /\ known \cap m.previews = {} THEN m
       ELSE update(made, Found(made.items, key), LAMBDA e : [e EXCEPT !.text = "partial"])

\* Replay can deliver the execution before the proposal.
ToolProposed(m, request, call) ==
    LET key == <<request, call>>
        known == Found(m.tools, call)
        preview == Found(m.items, key)
        row == Row("tool", "final", "proposed")
        placed == IF preview # {}
                    THEN update([m EXCEPT !.previews = @ \ preview], preview,
                                LAMBDA e : [e EXCEPT !.text = "final", !.state = "proposed"])
                    ELSE push(m, row)
        id == IF preview # {} THEN CHOOSE i \in preview : TRUE ELSE m.next
    IN IF known # {}
         THEN update(m, known, LAMBDA e : IF e.text = "null" THEN [e EXCEPT !.text = "final"] ELSE e)
         ELSE [placed EXCEPT !.items = Put(@, key, id), !.tools = Put(@, call, id)]

ToolResult(m, call) ==
    update(m, Found(m.tools, call),
           LAMBDA e : IF e.state = "proposed" THEN [e EXCEPT !.state = "received"] ELSE e)

JobStarted(m, call) ==
    LET made == IF Found(m.tools, call) # {} THEN m
                ELSE [push(m, Row("tool", "null", "running")) EXCEPT !.tools = Put(@, call, m.next)]
        id == CHOOSE i \in Found(made.tools, call) : TRUE
    IN update([made EXCEPT !.jobs = Put(@, call, id), !.running = @ \cup {id}, !.transient = "tool"],
              {id}, LAMBDA e : [e EXCEPT !.state = "running"])

\* A job of unknown outcome is unresolved: its row stays among the running ones.
JobSettled(m, job, status) ==
    LET ids == Found(m.jobs, job)
        shown == update(m, ids, LAMBDA e : [e EXCEPT !.state = status])
        left == IF status = "unknown" THEN shown ELSE [shown EXCEPT !.running = @ \ ids]
    IN IF ids = {} THEN m
       ELSE IF status = "unknown" THEN [left EXCEPT !.transient = "error"] ELSE Settling(left)

JobFenced(m, job) ==
    LET ids == Found(m.jobs, job)
    IN [update(m, ids, LAMBDA e : [e EXCEPT !.state = "fenced"]) EXCEPT !.running = @ \ ids]

RequestSettled(m, request, kind) ==
    Settling(push([discard_tool_previews(m, request) EXCEPT !.requests = @ \ {request}],
                  Row(kind, "final", "")))

DiscardPreviews(m) ==
    LET clean == discard_tool_previews(m, 0)
        waiting == {p[2] : p \in clean.assistants}
    IN update(clean, waiting, LAMBDA e : IF e.text = "final" THEN e ELSE [e EXCEPT !.text = "interrupted"])

-----------------------------------------------------------------------------
(* apply_message: the directed messages of the subagents *)

Queued(e) == \E d \in e.mail : d[2] = "queued"
EntryOf(m, id) == {m.entries[i] : i \in {j \in DOMAIN m.entries : m.entries[j].id = id}}

\* The oldest thread that waits for no delivery leaves when there are too many.
Trimmable(m, thread) ==
    \A id \in Found(m.threads, thread) : \A e \in EntryOf(m, id) : ~Queued(e)

trim_message_history(m) ==
    LET free == {i \in DOMAIN m.order : Trimmable(m, m.order[i])}
        thread == m.order[Min(free)]
        ids == Found(m.threads, thread)
        kept == SelectSeq(m.entries, LAMBDA e : e.id \notin ids)
    IN IF Len(m.order) <= MaxRetained \/ free = {} THEN <<m, {}>>
       ELSE <<[m EXCEPT !.order = RemoveAt(@, Min(free)),
                        !.threads = {p \in @ : p[1] # thread},
                        !.entries = kept, !.index = Indexed(kept)],
              ids \cap EntryIds(m)>>

\* A delivery only moves on from being admitted.
delivery_advances(e, message, delivery) ==
    \/ \A d \in e.mail : d[1] # message
    \/ delivery # "queued" /\ <<message, "queued">> \in e.mail
apply_message(m, thread, message, delivery) ==
    LET ids == Found(m.threads, thread)
        made == [push(m, [Row("message", "", "") EXCEPT !.mail = {<<message, delivery>>}])
                   EXCEPT !.threads = Put(@, thread, m.next), !.order = Append(@, thread)]
        moved == {id \in ids : \E e \in EntryOf(m, id) : delivery_advances(e, message, delivery)}
    IN IF ids = {} THEN trim_message_history(made)
       ELSE IF moved = {} THEN <<m, {}>>
       ELSE trim_message_history([update(m, moved, LAMBDA e :
                [e EXCEPT !.mail = {d \in @ : d[1] # message} \cup {<<message, delivery>>}])
              EXCEPT !.reasoning = {}])

-----------------------------------------------------------------------------
(* What arrives *)

\* apply: the first eviction is announced, and every lost row is reported.
apply_update(m) ==
    LET noted == IF m.evicted # {} /\ ~m.truncated
                   THEN push([m EXCEPT !.truncated = TRUE], Row("status", "final", ""))
                   ELSE m
        gone == noted.evicted \cup noted.discarded
    IN /\ model' = [noted EXCEPT !.evicted = {}, !.discarded = {}]
       /\ removed' = gone /\ told' = told \cup gone
       /\ seen' = seen \cup EntryIds(model') /\ model'.next <= MaxRows + 1

Streaming == streamed < MaxStreamed /\ streamed' = streamed + 1

\* SessionCommand::Input
turn_begins ==
    /\ shown_turn = 0 /\ turns < MaxTurns
    /\ shown_turn' = turns + 1 /\ turns' = turns + 1 /\ confirmed' = {}
    /\ apply_update(User(RequestStarted(model, turns + 1), turns + 1))
    /\ UNCHANGED <<execution, proposed, resulted, streamed, forked>>

\* WatchFrame::Preview: only of the active request and an item not recorded yet.
preview ==
    /\ shown_turn # 0 /\ Streaming
    /\ \/ \E item \in TextItems \ confirmed : apply_update(Assistant(model, shown_turn, item, "partial"))
       \/ \E call \in CallIds \ confirmed : apply_update(ToolArguments(model, shown_turn, call))
       \/ "reasoning" \notin confirmed /\ apply_update(Reasoning(model, shown_turn, "partial"))
    /\ UNCHANGED <<shown_turn, turns, confirmed, execution, proposed, resulted, forked>>

\* SessionCommand::Response: an answer, a proposal, or a reasoning summary.
turn_responds ==
    /\ shown_turn # 0
    /\ \/ \E item \in TextItems \ confirmed :
             /\ confirmed' = confirmed \cup {item} /\ UNCHANGED proposed
             /\ apply_update(Assistant(model, shown_turn, item, "final"))
       \/ \E call \in CallIds \ proposed :
             /\ confirmed' = confirmed \cup {call} /\ proposed' = proposed \cup {call}
             /\ apply_update(ToolProposed(model, shown_turn, call))
       \/ /\ "reasoning" \notin confirmed /\ confirmed' = confirmed \cup {"reasoning"}
          /\ apply_update(Reasoning(model, shown_turn, "final")) /\ UNCHANGED proposed
    /\ UNCHANGED <<shown_turn, turns, execution, resulted, streamed, forked>>

\* The events of a call's job, and its output.
job_event ==
    \E call \in CallIds :
       /\ \/ /\ execution[call] = "none" /\ shown_turn # 0
             /\ execution' = [execution EXCEPT ![call] = "running"]
             /\ apply_update(JobStarted(model, call)) /\ UNCHANGED resulted
          \/ /\ execution[call] = "running"
             /\ \E status \in {"succeeded", "unknown"} :
                  /\ execution' = [execution EXCEPT ![call] = status]
                  /\ apply_update(JobSettled(model, call, status))
             /\ UNCHANGED resulted
          \/ /\ execution[call] = "unknown"
             /\ execution' = [execution EXCEPT ![call] = "fenced"]
             /\ apply_update(JobFenced(model, call)) /\ UNCHANGED resulted
          \/ /\ call \in proposed \ resulted /\ shown_turn # 0
             /\ resulted' = resulted \cup {call} /\ UNCHANGED execution
             /\ apply_update(ToolResult(model, call))
       /\ UNCHANGED <<shown_turn, turns, confirmed, proposed, streamed, forked>>

turn_settles ==
    /\ shown_turn # 0 /\ shown_turn' = 0 /\ confirmed' = {}
    /\ \E kind \in {"completed", "error"} : apply_update(RequestSettled(model, shown_turn, kind))
    /\ UNCHANGED <<turns, execution, proposed, resulted, streamed, forked>>

\* WatchFrame::PreviewGap, and the notices that only add a row.
preview_gap ==
    /\ Streaming /\ apply_update(DiscardPreviews(model))
    /\ UNCHANGED <<shown_turn, turns, confirmed, execution, proposed, resulted, forked>>
notice ==
    /\ Streaming /\ apply_update(push(model, Row("status", "final", "")))
    /\ UNCHANGED <<shown_turn, turns, confirmed, execution, proposed, resulted, forked>>

\* A subagent's message: the rows push evicts wait for the next record.
message_update ==
    /\ Streaming
    /\ \E thread \in Threads, message \in Messages, delivery \in {"queued", "delivered"} :
         LET done == apply_message(model, thread, message, delivery) IN
         /\ model' = done[1] /\ removed' = done[2] /\ told' = told \cup done[2]
         /\ seen' = seen \cup EntryIds(model') /\ model'.next <= MaxRows + 1
    /\ UNCHANGED <<shown_turn, turns, confirmed, execution, proposed, resulted, forked>>

\* view_disconnected
disconnect ==
    /\ model.transient # "reconnecting" /\ Streaming
    /\ model' = [model EXCEPT !.transient = "reconnecting"] /\ removed' = {}
    /\ UNCHANGED <<told, seen, shown_turn, turns, confirmed, execution, proposed, resulted, forked>>

\* A fork's pane starts from the snapshot, with a view of its own; its session
\* record takes the snapshot once more.
fork_pane ==
    /\ forked < MaxForked /\ forked' = forked + 1
    /\ LET start == fork_snapshot(fork_snapshot(model))
           next == push(start, Row("status", "final", ""))
       IN /\ model' = [next EXCEPT !.evicted = {}] /\ removed' = next.evicted
          /\ told' = next.evicted
          /\ seen' = EntryIds(fork_snapshot(model)) \cup EntryIds(next)
    /\ shown_turn' = 0 /\ confirmed' = {}
    /\ UNCHANGED <<turns, execution, proposed, resulted, streamed>>

TranscriptNext ==
    \/ turn_begins \/ preview \/ turn_responds \/ job_event \/ turn_settles \/ preview_gap
    \/ notice \/ message_update \/ disconnect \/ fork_pane

-----------------------------------------------------------------------------
(* Properties *)

TranscriptTypeOK ==
    /\ Len(model.entries) <= MaxEntries
    /\ model.transient \in {"none", "thinking", "responding", "tool", "error", "reconnecting"}
    /\ shown_turn \in 0..MaxTurns /\ removed \subseteq told

\* Whatever came, was evicted, discarded or trimmed: the index names every row
\* at its place, and a map points at rows of its own kind that are shown.
MapsExact ==
    LET at(kind) == {e.id : e \in {model.entries[i] : i \in {j \in DOMAIN model.entries :
                                    model.entries[j].kind = kind}}}
        ids(map) == {p[2] : p \in map}
    IN /\ model.index = Indexed(model.entries)
       /\ ids(model.users) \subseteq at("user")
       /\ ids(model.assistants) \subseteq at("assistant")
       /\ ids(model.reasoning) \subseteq at("reasoning")
       /\ ids(model.tools) \cup ids(model.items) \cup ids(model.jobs) \cup model.previews
             \subseteq at("tool")

\* The spinner's set is the rows that show a job not yet resolved: no job that
\* ended keeps the session active, and none that runs is dropped while its row
\* is shown (has_running_tools).
RunningExact ==
    model.running = {e.id : e \in {model.entries[i] : i \in {j \in DOMAIN model.entries :
                       /\ model.entries[j].kind = "tool"
                       /\ model.entries[j].state \in {"running", "unknown"}
                       /\ model.entries[j].id \in {p[2] : p \in model.jobs}}}}

\* A row the view could lay out is shown, waits to be reported or was reported:
\* the view's caches and anchors never keep a row that is gone for good.
RowsAccounted ==
    \A id \in seen : (id \in EntryIds(model))
                       # (id \in told \cup model.evicted \cup model.discarded)

\* Previews of arguments do not outlive their request: between requests every
\* tool row stands for one recorded call, and a call has one row.
PreviewsEnd ==
    shown_turn = 0 => /\ model.previews = {}
                /\ \A p, q \in model.tools : p[2] = q[2] => p = q

\* A row whose content or spacing changed has a new revision: the layout cached
\* under the old one is never shown for it.
RevisionMoves ==
    \A i \in DOMAIN model.entries, j \in DOMAIN model'.entries :
       LET e == model.entries[i] f == model'.entries[j] IN
       (e.id = f.id /\ e # f) => f.revision > e.revision

-----------------------------------------------------------------------------
(***************************************************************************)
(* The transcript pane of the terminal client: where it is scrolled to,    *)
(* the layouts it caches, the prompt it pins above the rows and the rows   *)
(* a click finds (tui/components/transcript/mod.rs).                       *)
(*                                                                         *)
(* An action is one event of the component or one frame. The rows are what *)
(* the model above hands over: a record reports the rows it removed, a     *)
(* directed message leaves the row its own push evicted to the next one.   *)
(* A row is as many lines as its content, its expansion and the width say. *)
(***************************************************************************)
CONSTANTS
    Capacity_,    \* MAX_ENTRIES
    Window,       \* the rows of the pane
    PinnedMax,    \* PINNED_PROMPT_MAX_HEIGHT
    MaxRowId,     \* rows created in a run
    MaxViewed     \* events between frames of a run

ASSUME ViewAssumption ==
    {Capacity_, Window, PinnedMax, MaxRowId} \subseteq Nat \ {0} /\ MaxViewed \in Nat

VARIABLES
    layout_rows,        \* model.entries
    unreported,  \* rows that are gone and were not reported yet
    layouts,     \* LayoutCache::entries
    opened, all, \* expansion_overrides and expand_all
    viewport,        \* the component's own fields
    shown,       \* the lines of the last frame
    wide,        \* the width of the pane
    timers,      \* running_tool_timers
    made, viewed

viewVars == <<layout_rows, unreported, layouts, opened, all, viewport, shown, wide, timers, made, viewed>>

NoAnchor == [entry |-> 0, line |-> 0]
LineAt(entry, line) == [entry |-> entry, line |-> line]
NoPin == [entry |-> 0, height |-> 0, offset |-> 0, max |-> 0]
NewRow(id, kind, size) ==
    [id |-> id, kind |-> kind, size |-> size, revision |-> 0, running |-> kind = "tool"]

\* A pane that has caught up with a prompt, an answer and a running tool.
ViewInit ==
    /\ layout_rows = <<NewRow(1, "user", 2), NewRow(2, "text", 2), NewRow(3, "tool", 1)>>
    /\ unreported = {} /\ layouts = {} /\ opened = {} /\ all = "unset"
    /\ viewport = [follow |-> TRUE, anchor |-> NoAnchor, pending |-> "none", by |-> 0, request |-> NoAnchor,
               top |-> NoAnchor, height |-> 0, updates |-> 0, focused |-> FALSE, selected |-> 0,
               hits |-> {}, pinned |-> NoPin]
    /\ shown = <<>> /\ wide = TRUE /\ timers = {3} /\ made = 3 /\ viewed = 0

-----------------------------------------------------------------------------
(* Layout and movement *)

RowIds == {layout_rows[i].id : i \in DOMAIN layout_rows}
Index(id) == CHOOSE i \in DOMAIN layout_rows : layout_rows[i].id = id
Expandable(row) == row.kind \in {"tool", "message"}
Override(id) == {o \in opened : o.id = id}
Expanded(row) ==
    IF Override(row.id) # {} THEN \E o \in opened : o.id = row.id /\ o.open
    ELSE all = "all"

\* render_entry: prompts have a padding line on both sides, long lines wrap.
Height(row, open, width) ==
    IF row.size = 0 THEN 0
    ELSE row.size + (IF row.kind = "user" THEN 2 ELSE 0)
         + (IF open /\ Expandable(row) THEN 1 ELSE 0) + (IF width THEN 0 ELSE 1)
LinesOf(i) == Height(layout_rows[i], Expanded(layout_rows[i]), wide)

\* Every line of the transcript, from the top; rows are in the order of their ids.
Flat == FlattenSeq([i \in DOMAIN layout_rows |-> [k \in 1..LinesOf(i) |-> LineAt(layout_rows[i].id, k - 1)]])
Above(flat, id) == Cardinality({k \in DOMAIN flat : flat[k].entry < id})
CountRows(flat, id) == Cardinality({k \in DOMAIN flat : flat[k].entry = id})

first_anchor(flat) == IF flat = <<>> THEN NoAnchor ELSE Head(flat)
last_anchor(flat) == IF flat = <<>> THEN NoAnchor ELSE Last(flat)

\* previous, n times: inside the row first, even when it has fewer lines now.
Up(flat, anchor, n) ==
    IF anchor.line >= n THEN LineAt(anchor.entry, anchor.line - n)
    ELSE IF anchor.entry \notin RowIds \/ Above(flat, anchor.entry) = 0 THEN LineAt(anchor.entry, 0)
    ELSE flat[Max({1, Above(flat, anchor.entry) + 1 - (n - anchor.line)})]
\* The anchor and what next finds after it, at most n lines.
Forward(flat, anchor, n) ==
    LET after == Above(flat, anchor.entry)
                   + Min({anchor.line + 1, CountRows(flat, anchor.entry)}) + 1
    IN <<anchor>> \o (IF anchor.entry \in RowIds THEN SubSeq(flat, after, Min({Len(flat), after + n - 2}))
                      ELSE <<>>)

tail_top(flat, height) ==
    IF flat = <<>> THEN NoAnchor ELSE flat[Max({1, Len(flat) - height + 1})]
resolve_anchor(flat, anchor) ==
    IF CountRows(flat, anchor.entry) = 0 THEN NoAnchor
    ELSE LineAt(anchor.entry, Min({anchor.line, CountRows(flat, anchor.entry) - 1}))

fill_viewport_from(flat, anchor, height) ==
    Up(flat, anchor, height - Len(Forward(flat, anchor, height)))
collect_forward_anchors(flat, anchor, height) ==
    SelectSeq(Forward(flat, anchor, height), LAMBDA a : a.line < CountRows(flat, a.entry))

-----------------------------------------------------------------------------
(* A frame *)

Following(p) == [p EXCEPT !.follow = TRUE, !.anchor = NoAnchor, !.updates = 0]
Detached(p, anchor) == [p EXCEPT !.follow = FALSE, !.anchor = anchor]

\* The row a toggle or a selection asked to keep in place.
apply_pending_expandable_anchor(flat, p) ==
    IF p.request = NoAnchor THEN p
    ELSE [Detached(p, Up(flat, LineAt(p.request.entry, 0), p.request.line)) EXCEPT !.request = NoAnchor]

apply_pending_scroll(flat, p, height) ==
    LET done == [p EXCEPT !.pending = "none"]
        start == IF ~p.follow THEN p.anchor
                 ELSE IF p.top # NoAnchor THEN p.top ELSE tail_top(flat, height)
        way == Forward(flat, p.anchor, p.by + 1)
    IN CASE p.pending = "none" -> p
         [] p.pending = "end" -> Following(done)
         [] p.pending = "home" -> IF flat = <<>> THEN done ELSE Detached(done, first_anchor(flat))
         [] p.pending = "up" -> IF start = NoAnchor THEN done ELSE Detached(done, Up(flat, start, p.by))
         [] p.pending = "down" ->
              IF p.follow THEN done
              ELSE IF Len(way) <= p.by THEN Following(done) ELSE Detached(done, Last(way))

Arrived(flat, p, lines) ==
    IF ~p.follow /\ lines # <<>> /\ Last(lines) = last_anchor(flat) THEN Following(p) ELSE p
TopOf(flat, p, height) ==
    IF p.follow THEN tail_top(flat, height)
    ELSE IF resolve_anchor(flat, p.anchor) = NoAnchor THEN NoAnchor
    ELSE fill_viewport_from(flat, resolve_anchor(flat, p.anchor), height)
\* The plans of a pane for a height: there is one.
render_plan(flat, p, height) ==
    UNION {UNION {
        {[pane |-> [Arrived(flat, IF q.follow \/ top = NoAnchor THEN q ELSE [q EXCEPT !.anchor = top], lines)
                      EXCEPT !.top = top],
          lines |-> lines] :
            lines \in {IF top = NoAnchor THEN <<>> ELSE collect_forward_anchors(flat, top, height)}} :
        top \in {TopOf(flat, q, height)}} :
      q \in {apply_pending_scroll(flat, r, height) : r \in {apply_pending_expandable_anchor(flat, p)}}}

\* The prompt above the first line shown, when that line is not a prompt's.
pinned_prompt_entry(p, lines) ==
    IF p.follow \/ lines = <<>> \/ layout_rows[Index(lines[1].entry)].kind = "user" THEN 0
    ELSE LET prompts == {i \in DOMAIN layout_rows : i < Index(lines[1].entry) /\ layout_rows[i].kind = "user"}
         IN IF prompts = {} THEN 0 ELSE layout_rows[Max(prompts)].id

prepare_pinned_prompt(p, id, height) ==
    LET text == IF id = 0 THEN 0 ELSE Height(layout_rows[Index(id)], FALSE, wide) - 2
        room == Min({height - 1, PinnedMax, text})
        most == text - room
    IN IF id = 0 \/ room = 0 THEN NoPin
       ELSE [entry |-> id, height |-> room, max |-> most,
             offset |-> IF p.pinned.entry = id THEN Min({p.pinned.offset, most}) ELSE 0]

Cached(row) ==
    {c \in layouts : /\ c.id = row.id /\ c.revision = row.revision
                     /\ c.wide = wide /\ c.open = Expanded(row)}
Layout(row) ==
    IF Cached(row) # {} THEN CHOOSE c \in Cached(row) : TRUE
    ELSE [id |-> row.id, revision |-> row.revision, wide |-> wide, open |-> Expanded(row)]

\* Every frame plans for the whole pane, then for what the hint row and the
\* pinned prompt leave of it.
render ==
    /\ layout_rows # <<>> /\ viewed > 0
    /\ \E flat \in {Flat} : \E one \in render_plan(flat, viewport, Window) :
       \E height \in {IF one.pane.follow THEN Window ELSE Window - 1} :
       \E two \in (IF one.pane.follow THEN {one} ELSE render_plan(flat, one.pane, height)) :
       \E pin \in {prepare_pinned_prompt(two.pane, pinned_prompt_entry(two.pane, two.lines), height)} :
       \E three \in (IF pin = NoPin THEN {two} ELSE render_plan(flat, two.pane, height - pin.height)) :
          /\ viewport' = [three.pane EXCEPT !.height = height - pin.height, !.pinned = pin,
                !.hits = {[entry |-> three.lines[i].entry, row |-> height - Len(three.lines) + i - 1] :
                            i \in {j \in DOMAIN three.lines : three.lines[j].line = 0
                                     /\ Expandable(layout_rows[Index(three.lines[j].entry)])}}]
          /\ shown' = [i \in DOMAIN three.lines |->
                         [line |-> three.lines[i],
                          drawn |-> Layout(layout_rows[Index(three.lines[i].entry)])]]
          /\ layouts' = {Layout(layout_rows[i]) : i \in DOMAIN layout_rows}
    /\ UNCHANGED <<layout_rows, unreported, opened, all, wide, timers, made, viewed>>

-----------------------------------------------------------------------------
(* The events of the component *)

Viewing == viewed < MaxViewed /\ viewed' = viewed + 1

Forgotten(p, ids) ==
    LET q == [p EXCEPT !.hits = {h \in @ : h.entry \notin ids},
                       !.selected = IF @ \in ids THEN 0 ELSE @,
                       !.top = IF @.entry \in ids THEN NoAnchor ELSE @,
                       !.request = IF @.entry \in ids THEN NoAnchor ELSE @]
    IN IF ~q.follow /\ q.anchor.entry \in ids THEN [q EXCEPT !.follow = TRUE, !.anchor = NoAnchor] ELSE q
Counted(p) == IF p.follow THEN p ELSE [p EXCEPT !.updates = Min({2, @ + 1})]
RunningRows(seq) == {seq[i].id : i \in {j \in DOMAIN seq : seq[j].running}}
\* sync_running_tool_timers
Synced(gone) == timers' = RunningRows(layout_rows')

\* update_record: the rows after it, and those it removed.
record(after, gone) ==
    /\ Viewing /\ layout_rows' = after
    /\ viewport' = Counted(Forgotten(viewport, gone \cup unreported)) /\ unreported' = {}
    /\ layouts' = {c \in layouts : c.id \notin gone \cup unreported}
    /\ opened' = {o \in opened : o.id \notin gone \cup unreported}
    /\ Synced(gone) /\ UNCHANGED <<all, shown, wide>>

Crowded == Len(layout_rows) >= Capacity_
Grown(kind) == Append(IF Crowded THEN Tail(layout_rows) ELSE layout_rows, NewRow(made + 1, kind, 1))
LostRows == IF Crowded THEN {layout_rows[1].id} ELSE {}

record_new ==
    /\ made < MaxRowId /\ made' = made + 1
    /\ \E kind \in {"user", "text", "tool"} : record(Grown(kind), LostRows)
record_changed ==
    /\ \E i \in DOMAIN layout_rows, size \in 0..2 :
         /\ layout_rows[i].kind \in {"text", "tool"} /\ layout_rows[i].size # size
         /\ layout_rows[i].kind = "tool" => size # 0
         /\ record([layout_rows EXCEPT ![i].size = size, ![i].revision = @ + 1, ![i].running = FALSE], {})
    /\ UNCHANGED made
record_discarded ==
    /\ \E i \in DOMAIN layout_rows : layout_rows[i].kind = "tool" /\ record(RemoveAt(layout_rows, i), {layout_rows[i].id})
    /\ UNCHANGED made

\* update_message: the row evicted by its push is not among the removed ones.
message ==
    /\ Viewing /\ made < MaxRowId /\ made' = made + 1
    /\ layout_rows' = Grown("message") /\ unreported' = unreported \cup LostRows
    /\ viewport' = Counted(viewport)
    /\ UNCHANGED <<layouts, opened, all, shown, wide, timers>>

paneOnly == UNCHANGED <<layout_rows, unreported, layouts, opened, all, shown, wide, timers, made>>
page_size == Max({1, viewport.height - 2})
update_scroll ==
    /\ Viewing /\ paneOnly
    /\ \/ \E command \in {"home", "end"} : viewport' = [viewport EXCEPT !.pending = command]
       \/ \E command \in {"up", "down"}, n \in {page_size, 3} :
            viewport' = [viewport EXCEPT !.pending = command, !.by = n]
       \/ \E offset \in {viewport.pinned.offset - 1, viewport.pinned.offset + 1} \cap 0..viewport.pinned.max :
            viewport' = [viewport EXCEPT !.pinned.offset = offset]

jump_to_pinned_prompt ==
    /\ Viewing /\ paneOnly /\ viewport.pinned # NoPin
    /\ viewport' = [Detached(viewport, LineAt(viewport.pinned.entry, 0)) EXCEPT !.pending = "none", !.pinned = NoPin]
follow_tail ==
    /\ Viewing /\ paneOnly /\ viewport' = [Following(viewport) EXCEPT !.pending = "none"]
blur_expandables ==
    /\ Viewing /\ paneOnly /\ viewport.focused /\ viewport' = [viewport EXCEPT !.focused = FALSE]

select_expandable ==
    /\ Viewing /\ paneOnly /\ viewport.focused
    /\ LET here == IF viewport.selected \in RowIds THEN Index(viewport.selected) ELSE 0
           targets == {i \in DOMAIN layout_rows : Expandable(layout_rows[i])}
           back == {i \in targets : here = 0 \/ i < here}
           forth == IF here = 0 THEN targets ELSE {i \in targets : i > here}
           pick == {Max(s) : s \in {back} \ {{}}} \cup
                   {IF here = 0 THEN Max(s) ELSE Min(s) : s \in {forth} \ {{}}}
       IN \E i \in pick :
            viewport' = [viewport EXCEPT !.selected = layout_rows[i].id,
                       !.request = IF \E h \in viewport.hits : h.entry = layout_rows[i].id THEN @
                                   ELSE LineAt(layout_rows[i].id, 0)]

\* toggle_selected_expandable, from the keyboard or a click on a summary row.
toggle(p) ==
    LET row == layout_rows[Index(p.selected)]
        hit == {h.row : h \in {g \in p.hits : g.entry = p.selected}}
    IN /\ opened' = (opened \ Override(row.id)) \cup {[id |-> row.id, open |-> ~Expanded(row)]}
       /\ layouts' = {c \in layouts : c.id # row.id}
       /\ viewport' = [p EXCEPT !.request = LineAt(row.id, IF hit = {} THEN 0 ELSE Max(hit))]
toggle_selected_expandable ==
    /\ Viewing
    /\ \/ viewport.focused /\ viewport.selected \in RowIds /\ toggle(viewport)
       \/ \E h \in viewport.hits : h.entry \in RowIds
             /\ toggle([viewport EXCEPT !.focused = TRUE, !.selected = h.entry])
    /\ UNCHANGED <<layout_rows, unreported, all, shown, wide, timers, made>>
toggle_all ==
    /\ Viewing /\ all' = (IF all = "all" THEN "none" ELSE "all") /\ opened' = {} /\ layouts' = {}
    /\ UNCHANGED <<layout_rows, unreported, viewport, shown, wide, timers, made>>
resize ==
    /\ Viewing /\ wide' = ~wide
    /\ UNCHANGED <<layout_rows, unreported, layouts, opened, all, viewport, shown, timers, made>>

ViewNext ==
    \/ render \/ record_new \/ record_changed \/ record_discarded \/ message
    \/ update_scroll \/ jump_to_pinned_prompt \/ follow_tail \/ blur_expandables
    \/ select_expandable \/ toggle_selected_expandable \/ toggle_all \/ resize

-----------------------------------------------------------------------------
(* Properties *)

ViewTypeOK ==
    /\ Len(layout_rows) <= Capacity_ /\ made \in 0..MaxRowId /\ viewed \in 0..MaxViewed
    /\ viewport.height \in 0..Window /\ viewport.updates \in 0..2
    /\ viewport.pinned.height <= PinnedMax /\ viewport.pinned.offset <= viewport.pinned.max

\* A frame is a run of consecutive lines of the transcript that fills the rows
\* left to it whenever there are that many lines, wherever it was scrolled to
\* and whatever was evicted, collapsed or rewrapped since the last one. It is
\* blank only when the row it is anchored at is gone unreported or has no lines.
ViewportFull ==
    layout_rows' = layout_rows /\ viewed' = viewed =>
      \E flat \in {Flat} :
        IF shown' = <<>>
          THEN flat = <<>> \/ (~viewport'.follow /\ resolve_anchor(flat, viewport'.anchor) = NoAnchor)
          ELSE /\ \E k \in DOMAIN flat : \A i \in DOMAIN shown' :
                     k + i - 1 \in DOMAIN flat /\ shown'[i].line = flat[k + i - 1]
               /\ Len(shown') = Min({Len(flat), viewport'.height})

\* A pane that shows the last line follows it: it does not stay detached there,
\* counting updates that are on the screen. (A pane sent back to the tail by the
\* eviction of its anchor keeps the count, unseen until it is scrolled again.)
EndFollows ==
    layout_rows' = layout_rows /\ viewed' = viewed /\ shown' # <<>> /\ Last(shown').line = last_anchor(Flat)
      => viewport'.follow /\ (viewport.follow \/ viewport'.updates = 0)

\* What is drawn is the row as it is: its last revision at this width, open or
\* closed as the user left it.
DrawnFresh ==
    (viewed' = viewed) => \A i \in DOMAIN shown' :
       LET row == layout_rows[Index(shown'[i].line.entry)] IN
       shown'[i].drawn = [id |-> row.id, revision |-> row.revision,
                          wide |-> wide, open |-> Expanded(row)]

\* No step leaves an anchor, the selection or a hit region at a row the view was
\* told of, except a click on a pinned prompt that was evicted since the frame;
\* and a timer runs for every running row.
EvictedRow == (1..made) \ (RowIds \cup unreported)
Pointed == {viewport.anchor.entry, viewport.top.entry, viewport.request.entry, viewport.selected}
             \cup {h.entry : h \in viewport.hits}
NothingStale ==
    /\ Pointed' \cap EvictedRow' \subseteq (Pointed \cap EvictedRow) \cup {viewport.pinned.entry}
    /\ timers' \ unreported' = RunningRows(layout_rows')
=============================================================================
