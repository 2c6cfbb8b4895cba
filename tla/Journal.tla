------------------------------ MODULE Journal ------------------------------
(***************************************************************************)
(* The durable journal of the host (store.rs): one hash-linked sequence of *)
(* events per session and per task, the materialised row and the sparse    *)
(* checkpoints kept beside it, and the migrations that bring the file of   *)
(* an older build up to date.  A command is appended in one transaction; a *)
(* host may stop between two transactions of `open`.                       *)
(*                                                                         *)
(* Abstractions.  A digest is what it is a digest of: the hash of an event *)
(* is the sequence of events up to it, the fingerprint of a command is the *)
(* command.  A tool output is its number of pieces, and an event holds one *)
(* piece.  One task stands for the tasks of all sessions.                  *)
(***************************************************************************)
EXTENDS Integers, Sequences, FiniteSets, SequencesExt, FiniteSetsExt, TLC

CONSTANTS
    JSessions,    \* session identities
    CallsIn,        \* tool call identities a provider may use
    Prices,       \* costs a provider may report for one call
    CheckpointEvery, \* revisions between two checkpoints (128 in the code)
    PageBytes,    \* MAX_JOURNAL_PAGE_BYTES, in pieces
    MaxCommands   \* bound on the commands and task events of a behaviour

ASSUME JournalAssumption ==
    /\ CheckpointEvery \in Nat \ {0} /\ MaxCommands \in Nat
    /\ PageBytes \in Nat /\ PageBytes >= 2
    /\ Prices \subseteq Nat

SCHEMA_VERSION == 12
NoSession == [absent |-> TRUE]
Pinned == 99                 \* the operation of pin_session_admission

VARIABLES
    schema,       \* PRAGMA user_version
    host,         \* "closed", "opening" or "open": the holder of owner.lock
    journal,       \* session -> its events, in order of revision
    table,         \* session -> its materialised row, or NoSession
    checkpoints,  \* session -> the checkpoints of the session
    jtask,        \* the task: its events, its row, its checkpoints
    sequence,     \* the events of all aggregates, in order of insertion
    nextOperation,\* the next fresh operation identity
    acked         \* the commands whose sender was answered with success

jVars == <<schema, host, journal, table, checkpoints, jtask, sequence,
           nextOperation, acked>>

(***************************************************************************)
(* The state of a session and the effect of an event on it.                *)
(***************************************************************************)
CreatedState(id, e) ==
    [id |-> id, rev |-> 1, settled |-> 1, admission |-> e.admission,
     parent |-> e.parent, fresh |-> e.fresh, history |-> e.history,
     view |-> "none", ops |-> <<>>, task |-> <<>>, pending |-> FALSE,
     calls |-> <<>>, buffers |-> <<>>, active |-> 0]

\* ToolOutputBuffers::append: the parts of an output come in order.
Buffered(s, c) ==
    IF c.call \in DOMAIN s.buffers THEN s.buffers[c.call] ELSE 0

\* The fields a command sets.  The logical tool result of a fragmented one
\* is applied when its end arrives.
Effect(s, op, c) ==
    CASE c.type = "input" -> [s EXCEPT !.active = op, !.history = Append(@, <<"in", op>>)]
      [] c.type = "response" ->
            [s EXCEPT !.calls = @ @@ (c.call :> [request |-> c.request, output |-> 0]),
                      !.history = Append(@, <<"call", c.call>>)]
      [] c.type = "part" -> [s EXCEPT !.buffers = (c.call :> Buffered(s, c) + 1) @@ @]
      [] c.type = "result" ->
            [s EXCEPT !.calls = (c.call :> [request |-> c.request, output |-> c.output]) @@ @,
                      !.buffers = [k \in DOMAIN @ \ {c.call} |-> @[k]],
                      !.history = Append(@, <<"out", c.output>>)]
      [] c.type = "link" -> [s EXCEPT !.task = (c.request :> "t") @@ @, !.pending = TRUE]
      [] c.type = "saved" -> [s EXCEPT !.pending = FALSE]
      [] c.type = "settle" -> [s EXCEPT !.active = 0, !.buffers = <<>>]
      [] c.type = "pin" -> [s EXCEPT !.admission = "profile"]
      [] c.type = "project" -> [s EXCEPT !.view = c.view]
      [] OTHER -> s

\* ToolResultEnd re-applies the ToolResult it frames: the logical command
\* owns the identity of a retry.
Logical(c) ==
    IF c.type = "end"
    THEN [type |-> "result", request |-> c.request, call |-> c.call, output |-> c.digest]
    ELSE c

Recorded(t, op, c) ==
    [t EXCEPT !.ops = (op :> c) @@ @, !.rev = @ + 1,
              !.settled = IF t.active = 0 THEN t.rev + 1 ELSE @]

apply_event(s, op, c) == Recorded(Effect(s, op, Logical(c)), op, Logical(c))

\* A ContextProjected of an older build carries the projected items; read
\* back, the command has lost them, so its own bytes keep its fingerprint.
Wrapped(c) == c.type = "project" /\ c.view = "wrapped"
legacy_context_command(e) == Wrapped(e.command)

Parsed(c) == IF Wrapped(c) THEN [c EXCEPT !.view = "manifest"] ELSE c

\* The step of load_session_state over one event.
replayed(s, e) ==
    LET t == apply_event(s, e.operation, Parsed(e.command))
    IN  IF legacy_context_command(e)
        THEN [t EXCEPT !.ops = (e.operation :> e.command) @@ @]
        ELSE t

\* The whole journal of a session up to a revision, from its creation: the
\* reference every load is compared with.
Authoritative(id, r) ==
    FoldLeft(replayed, CreatedState(id, journal[id][1]), SubSeq(journal[id], 2, r))

\* A row or a checkpoint as it is read: a wrapped view is its manifest.
Decoded(s) == IF s.view = "wrapped" THEN [s EXCEPT !.view = "manifest"] ELSE s

\* session_cache_matches
session_cache_matches(s, cached) == Decoded(cached) = s

\* The newest checkpoint at or before a revision.
Newest(cps, r) ==
    LET fit == {c \in cps : c.rev <= r}
    IN  IF fit = {} THEN NoSession ELSE CHOOSE c \in fit : \A d \in fit : d.rev <= c.rev

\* load_session_state(id, through): the checkpoint, then the events after it.
Replay(id, r, cp) ==
    IF cp = NoSession THEN Authoritative(id, r)
    ELSE FoldLeft(replayed, Decoded(cp.state), SubSeq(journal[id], cp.rev + 1, r))

Consistent(id, r, s, cp) ==
    /\ cp = NoSession \/ cp.head = SubSeq(journal[id], 1, cp.rev)
    /\ s.rev = r
    /\ r = table[id].rev =>
          /\ table[id].head = journal[id]
          /\ session_cache_matches(s, table[id].state)

load_session_state(id, r) ==
    IF table[id] = NoSession \/ r = 0 \/ (table[id] # NoSession /\ r > table[id].rev)
    THEN NoSession
    ELSE CHOOSE out \in {IF Consistent(id, r, s, Newest(checkpoints[id], r)) THEN s ELSE NoSession :
                            s \in {Replay(id, r, Newest(checkpoints[id], r))}} : TRUE

load_session(id) ==
    IF table[id] = NoSession THEN NoSession ELSE load_session_state(id, table[id].rev)

\* load_session_cursor: a cursor from before the admission is not trusted.
load_session_cursor(id, r) ==
    CHOOSE out \in {IF s # NoSession /\ s.admission = "none" THEN NoSession ELSE s :
                       s \in {load_session_state(id, r)}} : TRUE

(***************************************************************************)
(* Appending.                                                              *)
(***************************************************************************)
TotalCost == Len(sequence)

store_checkpoint_bug(cps, r, s, head) ==
    cps \cup {[rev |-> r, state |-> [s EXCEPT !.buffers = <<>>], head |-> head]}
store_checkpoint(cps, r, s, head) ==
    {c \in cps : c.rev # r} \cup {[rev |-> r, state |-> s, head |-> head]}

\* An output that does not fit one event: its parts, then its end.
Fragments(op, c) ==
    IF c.type = "result" /\ c.output > 1
    THEN [i \in 1..c.output |-> [operation |-> 1000 * op + i,
            command |-> [type |-> "part", request |-> c.request, call |-> c.call,
                         offset |-> i - 1]]]
         \o <<[operation |-> op,
               command |-> [type |-> "end", request |-> c.request, call |-> c.call,
                            digest |-> c.output]]>>
    ELSE <<[operation |-> op, command |-> c]>>

\* One event of append_session_command, on the tables of one session.
Appended(tbl, e) ==
    LET s == apply_event(tbl.row.state, e.operation, e.command)
        log == Append(tbl.log, e)
    IN  [log |-> log,
         row |-> [rev |-> s.rev, state |-> s, head |-> log],
         cps |-> IF s.rev % CheckpointEvery = 0
                 THEN store_checkpoint(tbl.cps, s.rev, s, log) ELSE tbl.cps]

\* append_session_command: every fragment in one transaction.
append_session_command(id, s, op, c) ==
    LET es == Fragments(op, c)
        start == [log |-> journal[id], cps |-> checkpoints[id],
                  row |-> [rev |-> s.rev, state |-> s, head |-> table[id].head]]
    IN  \E tbl \in {FoldLeft(Appended, start, es)} :
            /\ journal' = [journal EXCEPT ![id] = tbl.log]
            /\ table' = [table EXCEPT ![id] = tbl.row]
            /\ checkpoints' = [checkpoints EXCEPT ![id] = tbl.cps]
            /\ sequence' = sequence \o [i \in 1..Len(es) |-> [of |-> id, rev |-> s.rev + i]]

(***************************************************************************)
(* The task: load_state and append_task_event.                             *)
(***************************************************************************)
TaskStep(t, e) ==
    [t EXCEPT !.rev = @ + 1, !.done = @ \/ e = "finish"]

TaskCreated == [rev |-> 1, done |-> FALSE]

load_state ==
    LET cp == Newest(jtask.cps, Len(jtask.log))
        s == IF cp = NoSession THEN FoldLeft(TaskStep, TaskCreated, SubSeq(jtask.log, 2, Len(jtask.log)))
             ELSE FoldLeft(TaskStep, cp.state, SubSeq(jtask.log, cp.rev + 1, Len(jtask.log)))
    IN  IF jtask.row = NoSession \/ jtask.row # s THEN NoSession ELSE s

append_task_event(e) ==
    \E s \in {IF e = "create" THEN TaskCreated ELSE TaskStep(load_state, e)} :
        \E log \in {Append(jtask.log, e)} :
            /\ jtask' = [log |-> log, row |-> s,
                         cps |-> IF s.rev = 1 \/ s.rev % CheckpointEvery = 0
                                 THEN store_checkpoint(jtask.cps, s.rev, s, log) ELSE jtask.cps]
            /\ sequence' = Append(sequence, [of |-> "task", rev |-> s.rev])

\* What is sent to the host is bounded.
Few == Cardinality(acked) + Len(jtask.log) < MaxCommands

\* Store::create
create ==
    /\ host = "open" /\ jtask.row = NoSession /\ Few
    /\ append_task_event("create")
    /\ UNCHANGED <<schema, host, journal, table, checkpoints, nextOperation, acked>>

\* The event of the task that sessions look at: it ends, its candidate
\* frozen (commit_event).
commit_event ==
    /\ host = "open" /\ jtask.row # NoSession /\ Few
    /\ ~jtask.row.done
    /\ append_task_event("finish")
    /\ UNCHANGED <<schema, host, journal, table, checkpoints, nextOperation, acked>>

(***************************************************************************)
(* session_command                                                         *)
(***************************************************************************)
LateKinds == {"response", "usage", "saved", "result", "link", "settle"}

\* A result of a request that no longer runs.
Late(s, c) == c.type \in LateKinds /\ s.active # c.request

Admitted(s, c) ==
    CASE c.type = "input" -> s.active = 0
      [] c.type = "response" -> c.call \notin DOMAIN s.calls
                                /\ \A i \in 1..Len(s.history) : s.history[i] # <<"call", c.call>>
      [] c.type = "result" -> /\ c.call \in DOMAIN s.calls
                              /\ s.calls[c.call] = [request |-> c.request, output |-> 0]
      [] c.type = "link" -> load_state # NoSession
      [] c.type = "saved" -> c.request \in DOMAIN s.task /\ load_state.done
      [] c.type = "settle" -> c.outcome => c.request \in DOMAIN s.task /\ load_state.done
      [] c.type = "project" -> c.source = s.rev
      [] c.type = "pin" -> s.admission = "none"
      [] OTHER -> TRUE

\* The answer to a command: what it was, a retry of it, or a refusal.
JournalAnswer(s, r, op, c) ==
    IF op \in DOMAIN s.ops
    THEN IF s.ops[op] = c THEN "again" ELSE "reused"
    ELSE IF s.rev # r THEN "revision"
    ELSE IF Late(s, c) THEN "late"
    ELSE IF Admitted(s, c) THEN "append" ELSE "invalid"

\* What clients and the controller send; a request is the running one or an
\* earlier one whose result comes late.
RequestsIn(s) == {s.active, 1}

Commands(s) ==
    {[type |-> "input"]}
    \cup {[type |-> "response", request |-> q, call |-> k] : q \in RequestsIn(s), k \in CallsIn}
    \cup {[type |-> "result", request |-> q, call |-> k, output |-> n] :
             q \in RequestsIn(s), k \in CallsIn, n \in 1..2}
    \cup {[type |-> "link", request |-> s.active], [type |-> "saved", request |-> s.active]}
    \cup {[type |-> "settle", request |-> q, outcome |-> o] : q \in RequestsIn(s), o \in BOOLEAN}
    \cup {[type |-> "project", source |-> s.rev, view |-> "manifest"]}
    \cup {[type |-> "usage", request |-> s.active, provider |-> 1]}
    \cup {[type |-> "cost", provider |-> 1, price |-> p] : p \in Prices}

session_command(id, back, op, c) ==
    /\ host = "open" /\ Few
    /\ \E s \in {load_session(id)} :
          /\ s # NoSession
          /\ JournalAnswer(s, s.rev - back, op, c) = "append"
          /\ append_session_command(id, s, op, c)
    /\ acked' = acked \cup {<<id, op, c>>}
    /\ nextOperation' = IF op = nextOperation THEN op + 1 ELSE nextOperation
    /\ UNCHANGED <<schema, host, jtask>>

\* pin_session_admission: a session of an older build is bound to a profile.
pin_session_admission(id) ==
    session_command(id, 0, Pinned, [type |-> "pin"])

(***************************************************************************)
(* create_session_seeded                                                   *)
(***************************************************************************)
\* The parent a child may be forked from, at a cursor.
Forkable(p) ==
    /\ p # NoSession /\ p.active = 0
    /\ ~p.pending
    /\ p.admission = "profile"

InsertSession(id, e, s) ==
    /\ journal' = [journal EXCEPT ![id] = <<e>>]
    /\ table' = [table EXCEPT ![id] = [rev |-> 1, state |-> s, head |-> <<e>>]]
    /\ checkpoints' = [checkpoints EXCEPT ![id] = store_checkpoint({}, 1, s, <<e>>)]
    /\ sequence' = Append(sequence, [of |-> id, rev |-> 1])

\* A root session, a fork (fresh = FALSE) or a handoff (fresh = TRUE).
create_session_seeded(id, parent, fresh) ==
    /\ host = "open" /\ Few
    /\ table[id] = NoSession
    /\ \E p \in {IF parent = <<>> THEN NoSession ELSE load_session_cursor(parent[1], parent[2])} :
          /\ parent # <<>> => Forkable(p)
          /\ \E e \in {[admission |-> "profile", parent |-> parent, fresh |-> fresh,
                        history |-> IF parent = <<>> \/ fresh THEN <<>> ELSE p.history]} :
                InsertSession(id, e, CreatedState(id, e))
    /\ acked' = acked \cup {<<id, 0, <<parent, fresh>>>>}
    /\ UNCHANGED <<schema, host, jtask, nextOperation>>

\* The answer when the identity exists already.
Recreated(s, parent, fresh) ==
    s.admission = "profile" /\ s.fresh = fresh /\ s.parent = parent

Root == CHOOSE x \in JSessions : TRUE    \* the session without a parent

Fork(id) ==
    \/ id = Root /\ create_session_seeded(id, <<>>, FALSE)
    \/ \E p \in JSessions \ {id}, fresh \in BOOLEAN :
          \E r \in 1..Len(journal[p]) : create_session_seeded(id, <<p, r>>, fresh)

(***************************************************************************)
(* Opening, migrating, crashing.                                           *)
(***************************************************************************)
\* The file is locked; the schema decides which migrations run, each in a
\* transaction of its own.
open ==
    /\ host = "closed"
    /\ host' = "opening"
    /\ UNCHANGED <<schema, journal, table, checkpoints, jtask, sequence, nextOperation, acked>>

initialize_schema ==
    /\ host = "opening" /\ schema = 0
    /\ schema' = 9
    /\ UNCHANGED <<host, journal, table, checkpoints, jtask, sequence, nextOperation, acked>>

\* migrate_v1_to_v8 and retire_legacy_schema add an empty table of
\* checkpoints; migrate_v7_to_v8 fills it with the rows.
migrate_to_v8 ==
    /\ host = "opening" /\ schema \in 1..7
    /\ schema' = 8
    /\ checkpoints' = IF schema = 7
                      THEN [id \in JSessions |->
                              IF table[id] = NoSession THEN {} ELSE {table[id]}]
                      ELSE checkpoints
    /\ UNCHANGED <<host, journal, table, jtask, sequence, nextOperation, acked>>

\* migrate_v8_to_v9 replays the whole journal of a session.
Migrated(id, r) ==
    FoldLeft(LAMBDA s, e : apply_event(s, e.operation, Parsed(e.command)),
             CreatedState(id, journal[id][1]), SubSeq(journal[id], 2, r))

\* The checkpoints migrate_v8_to_v9 rebuilds from the journal of a session.
RebuiltView(id) ==
    {[rev |-> r, state |-> Migrated(id, r), head |-> SubSeq(journal[id], 1, r)] :
        r \in {k \in 1..Len(journal[id]) : k = 1 \/ k % CheckpointEvery = 0}}

migrate_v8_to_v9 ==
    /\ host = "opening" /\ schema = 8
    /\ \A id \in JSessions : table[id] # NoSession => table[id].head = journal[id]
    /\ checkpoints' = [id \in JSessions |-> IF table[id] = NoSession THEN {} ELSE RebuiltView(id)]
    /\ table' = [id \in JSessions |-> IF table[id] = NoSession THEN NoSession
                  ELSE [table[id] EXCEPT !.state = Migrated(id, Len(journal[id]))]]
    /\ schema' = SCHEMA_VERSION
    /\ UNCHANGED <<host, journal, jtask, sequence, nextOperation, acked>>

\* The tables of intake and monitor are created where they are missing, and
\* the store is open.
finish_open ==
    /\ host = "opening" /\ schema >= 9
    /\ schema' = SCHEMA_VERSION /\ host' = "open"
    /\ UNCHANGED <<journal, table, checkpoints, jtask, sequence, nextOperation, acked>>

\* The host dies while it opens the file.  An open store keeps nothing in
\* memory, so the end of one changes nothing a later host would read.
stop ==
    /\ host = "opening"
    /\ host' = "closed"
    /\ UNCHANGED <<schema, journal, table, checkpoints, jtask, sequence, nextOperation, acked>>

(***************************************************************************)
(* The files a host may find: none, or one an older build wrote.  A build  *)
(* before version 9 replaced the history of the row by the projection; one *)
(* after it kept the projected items with the view; a file of this build   *)
(* may hold a turn that waits for a tool.                                  *)
(***************************************************************************)
OldEvents(kind) ==
    <<[admission |-> IF kind = "current" THEN "profile" ELSE "none",
       parent |-> <<>>, fresh |-> FALSE, history |-> <<>>],
      [operation |-> 1, command |-> [type |-> "input"]],
      [operation |-> 2, command |->
          CASE kind = "early" -> [type |-> "project", source |-> 2, view |-> "none"]
            [] kind = "late" -> [type |-> "project", source |-> 2, view |-> "wrapped"]
            [] kind = "current" -> [type |-> "response", request |-> 1,
                                    call |-> CHOOSE k \in CallsIn : TRUE]]>>

OldApply(s, e) ==
    LET t == apply_event(s, e.operation, e.command)
    IN  IF e.command.type = "project" /\ e.command.view = "none"
        THEN [t EXCEPT !.history = <<<<"view", 0>>>>] ELSE t

OldState(id, kind, r) ==
    FoldLeft(OldApply, CreatedState(id, OldEvents(kind)[1]), SubSeq(OldEvents(kind), 2, r))

OldRow(id, kind, r) ==
    [rev |-> r, state |-> OldState(id, kind, r), head |-> SubSeq(OldEvents(kind), 1, r)]

OldFile(v) ==
    LET id == Root
        kind == IF v < 9 THEN "early" ELSE IF v < SCHEMA_VERSION THEN "late" ELSE "current"
    IN  /\ schema = v
        /\ journal = [x \in JSessions |-> IF x = id THEN OldEvents(kind) ELSE <<>>]
        /\ table = [x \in JSessions |-> IF x = id THEN OldRow(id, kind, 3) ELSE NoSession]
        /\ checkpoints = [x \in JSessions |->
              IF x = id /\ v >= 8
              THEN {OldRow(id, kind, r) : r \in {k \in 1..3 : k = 1 \/ k % CheckpointEvery = 0}}
              ELSE {}]
        /\ sequence = [i \in 1..3 |-> [of |-> id, rev |-> i]]

NewFile ==
    /\ schema = 0
    /\ journal = [x \in JSessions |-> <<>>] /\ table = [x \in JSessions |-> NoSession]
    /\ checkpoints = [x \in JSessions |-> {}] /\ sequence = <<>>

JInit ==
    /\ NewFile \/ \E v \in {5, 7, 8, 10, SCHEMA_VERSION} : OldFile(v)
    /\ host = "closed"
    /\ jtask = [log |-> <<>>, row |-> NoSession, cps |-> {}]
    /\ nextOperation = 4 /\ acked = {}

JNext ==
    \/ open \/ initialize_schema \/ migrate_to_v8 \/ migrate_v8_to_v9
    \/ finish_open \/ stop
    \/ create \/ commit_event
    \/ \E id \in JSessions :
          \/ Fork(id) \/ pin_session_admission(id)
          \/ table[id] # NoSession /\ \E c \in Commands(table[id].state) :
                session_command(id, 0, nextOperation, c)

(***************************************************************************)
(* Readers of the journal.                                                 *)
(***************************************************************************)
\* scoped_history(actor, source, revision): the parents, each as the child
\* was forked from it.
Step(w, i) ==
    IF w.found \/ w.scope = NoSession \/ w.scope.id = w.source THEN [w EXCEPT !.found = TRUE]
    ELSE IF w.scope.parent = <<>> THEN [w EXCEPT !.scope = NoSession, !.found = TRUE]
    ELSE [w EXCEPT !.scope = load_session_cursor(w.scope.parent[1], w.scope.parent[2])]

scoped_history(actor, source, r) ==
    LET n == Cardinality(JSessions)
        w == FoldLeft(Step, [found |-> FALSE, scope |-> load_session(actor), source |-> source],
                      [i \in 1..n + 1 |-> i])
    IN  IF w.scope = NoSession \/ w.scope.id # source \/ r > w.scope.rev THEN NoSession
        ELSE load_session_cursor(source, r)

Size(x) == IF x.of = "task" \/ x.rev = 1 THEN 1
           ELSE IF journal[x.of][x.rev].command.type = "part" THEN 2 ELSE 1

PageEnd(after) ==
    Max({k \in after..TotalCost :
            MapThenSumSet(LAMBDA i : Size(sequence[i]), (after + 1)..k) <= PageBytes})

\* session_cost: the first receipt of the call counts; one that differs, or
\* a call without a receipt, makes the total uncertain.
Of(log, kind) == SelectSeq(Tail(log), LAMBDA e : e.command.type = kind)

session_cost(log) ==
    LET costs == Of(log, "cost")
    IN  [total |-> IF costs = <<>> THEN 0 ELSE costs[1].command.price,
         uncertain |-> \/ \E i \in 1..Len(costs) : costs[i].command # costs[1].command
                       \/ costs = <<>> /\ Of(log, "usage") # <<>>]

(***************************************************************************)
(* Properties                                                              *)
(***************************************************************************)
Live == {id \in JSessions : table[id] # NoSession}

JTypeOK ==
    /\ schema \in 0..SCHEMA_VERSION
    /\ host \in {"closed", "opening", "open"}
    /\ Cardinality(acked) + Len(jtask.log) <= MaxCommands
    /\ \A id \in Live : table[id].rev = Len(journal[id]) /\ table[id].state.id = id
    /\ nextOperation \in Nat

\* Whatever build wrote the file, wherever the checkpoints fell (between the
\* parts of an output too) and whichever migrations were cut short: an open
\* store reads every session at every cursor, as the journal alone gives it.
ReplayExact ==
    host = "open" => \A id \in Live : \A r \in 1..table[id].rev :
        load_session_state(id, r) = Authoritative(id, r)

\* A sender who repeats an acknowledged command gets its success again and
\* nothing is appended, however the command was stored; the same identity
\* with another command is refused.  A creation may be repeated as well.
RetryExact ==
    host = "open" => \A a \in acked :
        \E s \in {load_session(a[1])} :
            IF a[2] = 0 THEN Recreated(s, a[3][1], a[3][2])
            ELSE /\ JournalAnswer(s, 0, a[2], a[3]) = "again"
                 /\ JournalAnswer(s, s.rev, a[2], [type |-> "other"]) = "reused"

\* A child starts from what its parent had settled at the cursor, and what it
\* may read of its ancestors is a part of what it started from: nothing that
\* they did afterwards.
ForkIsolated ==
    host = "open" => \A id \in Live : table[id].state.parent # <<>> =>
        /\ \E p \in {Authoritative(table[id].state.parent[1], table[id].state.parent[2])} :
              p.active = 0 /\ (table[id].state.fresh \/ journal[id][1].history = p.history)
        /\ \A src \in Live \ {id} : \A r \in 1..table[src].rev :
              \E seen \in {scoped_history(id, src, r)} :
                  seen # NoSession /\ (\A x \in Live : ~table[x].state.fresh) =>
                      IsPrefix(seen.history, table[id].state.history)

\* A reader of the journal that has not reached the end gets a record: every
\* event fits a page of its own.
PageProgress == \A after \in 0..(TotalCost - 1) : PageEnd(after) > after

\* A cost once reported as certain stays, or is reported as uncertain.
CostStable ==
    \A id \in Live :
       LET b == session_cost(journal[id])
           a == session_cost(journal'[id])
       IN  b.total > 0 /\ ~b.uncertain => a.uncertain \/ a.total = b.total
=============================================================================
