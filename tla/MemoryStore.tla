---------------------------- MODULE MemoryStore ----------------------------
(***************************************************************************)
(* The local memory store (memory/src/store/local.rs) and the sessions     *)
(* that use it (tool.rs, archive.rs): versioned records on probation until *)
(* they are read, compare-and-swap writes, the identity allocator, the     *)
(* paged export, the import of an archive and an authoritative sync.       *)
(* Every operation is one immediate SQLite transaction.                    *)
(***************************************************************************)
EXTENDS Naturals, Sequences, SequencesExt, FiniteSets

CONSTANTS
    Contents,           \* texts a record may hold, already normalized
    MemorySessions,     \* tool sessions
    MaxRecords,         \* limits.records
    Probation,          \* limits.probation_duration_ms
    MaxId, MaxVersion, MaxNow   \* bounds on identities, versions and time

ASSUME MemoryAssumption ==
    {MaxRecords, Probation, MaxId, MaxVersion, MaxNow} \subseteq Nat \ {0}

VARIABLES
    memories,       \* the rows, by id
    nextId,         \* memory_metadata.next_id
    owners,         \* ownership identities drawn so far
    now,
    searched,       \* MemorySession::searched
    held,           \* the record each session read last, and its key
    exporting,      \* export_all: cursor and records so far
    archive,        \* the records of the archive written last
    born,           \* history: inserts per id
    lasting,        \* history: ids stored unchanged since the export began
    overtaken       \* history: sessions whose last read is older than the last sync

memoryVars == <<memories, nextId, owners, now, searched, held, exporting, archive, born, lasting,
                overtaken>>

RecordIds == 1..MaxId
Stored == DOMAIN memories
Nothing == [id |-> 0]
Idle_ == [on |-> FALSE, after |-> 0, records |-> <<>>]

MemoryTypeOK ==
    /\ Stored \subseteq RecordIds /\ nextId \in 1..(MaxId + 1) /\ now \in 0..MaxNow
    /\ \A i \in Stored :
        /\ memories[i].content \in Contents /\ memories[i].version \in 1..MaxVersion
        /\ memories[i].used \in BOOLEAN /\ memories[i].owner \in 1..owners
    /\ searched \in [MemorySessions -> BOOLEAN] /\ born \in [RecordIds -> Nat]
    /\ overtaken \subseteq MemorySessions
    /\ Cardinality(Stored) <= MaxRecords

MemoryInit ==
    /\ memories = [i \in {} |-> Nothing] /\ nextId = 1 /\ owners = 0 /\ now = 0
    /\ searched = [s \in MemorySessions |-> FALSE] /\ held = [s \in MemorySessions |-> Nothing]
    /\ exporting = Idle_ /\ archive = <<>> /\ born = [i \in RecordIds |-> 0] /\ lasting = {}
    /\ overtaken = {}

-----------------------------------------------------------------------------
(* Rows *)

\* prune_expired: probation ends a record nobody read.
Pruned(db) == [i \in {j \in DOMAIN db : db[j].used \/ db[j].until > now} |-> db[i]]

With(db, i, m) == [j \in DOMAIN db \cup {i} |-> IF j = i THEN m ELSE db[j]]

TransferIdentity(m) == <<IF m.from = <<>> THEN m.owner ELSE m.from[1].owner, m.content>>

\* MemoryMetadata::identity, the UNIQUE column.
Identity(m) == IF m.from = <<>> THEN <<0, m.content>> ELSE TransferIdentity(m)
IdentityFree(db, m, i) == \A j \in DOMAIN db \ {i} : Identity(db[j]) # Identity(m)

\* allocate_id: ids of deleted and pruned rows are not used again.
AllocateId(db, n) == n

NewRecord(c, o) == [content |-> c, version |-> 1, used |-> FALSE, until |-> now + Probation,
                    owner |-> o, from |-> <<>>]

\* Mutant: the version is left alone when only the content changes.
Replaced_bug(m, c) == [m EXCEPT !.content = c, !.used = FALSE, !.until = now + Probation]
\* replace: a new version, on probation again; ownership and sources stay.
Replaced(m, c) ==
    [m EXCEPT !.content = c, !.version = @ + 1, !.used = FALSE, !.until = now + Probation]

\* The rows whose record the step leaves as it was.
Untouched(db) == {i \in lasting \cap DOMAIN db : i \in Stored /\ db[i] = memories[i]}
Commit(db) == memories' = db /\ lasting' = Untouched(db)

-----------------------------------------------------------------------------
(* Sessions *)

\* MemorySession::scan, and list: the transaction prunes first.
memory_scan(s) ==
    /\ Commit(Pruned(memories)) /\ searched' = [searched EXCEPT ![s] = TRUE]
    /\ UNCHANGED <<nextId, owners, now, held, exporting, archive, born, overtaken>>

Used(m) == [m EXCEPT !.used = TRUE]

\* read_filtered of one id: the record is in use from now on.
memory_read(s, i) ==
    LET db == Pruned(memories) IN
    /\ IF i \in DOMAIN db
       THEN /\ Commit(With(db, i, Used(db[i])))
            /\ held' = [held EXCEPT ![s] = [id |-> i, version |-> db[i].version,
                                            content |-> db[i].content]]
            /\ overtaken' = overtaken \ {s}
       ELSE Commit(db) /\ UNCHANGED <<held, overtaken>>
    /\ UNCHANGED <<nextId, owners, now, searched, exporting, archive, born>>

\* ensure_capacity
Room(db) == Cardinality(DOMAIN db) < MaxRecords

\* put without a key: insert.  A refused put has used up the scan.
memory_insert(s, c) ==
    LET db == Pruned(memories)  m == NewRecord(c, owners + 1)  i == AllocateId(db, nextId) IN
    /\ searched[s] /\ searched' = [searched EXCEPT ![s] = FALSE]
    /\ IF IdentityFree(db, m, 0) /\ Room(db)
       THEN /\ i \in RecordIds /\ Commit(With(db, i, m)) /\ nextId' = i + 1 /\ owners' = owners + 1
            /\ born' = [born EXCEPT ![i] = @ + 1]
       ELSE UNCHANGED <<memories, lasting, nextId, owners, born>>
    /\ UNCHANGED <<now, held, exporting, archive, overtaken>>

\* The key of a compare-and-swap names the row and the version it was read at.
Holds(db, k) == k.id \in DOMAIN db /\ db[k.id].version = k.version

\* put with the key the session holds: replace.
memory_replace(s, c) ==
    LET db == Pruned(memories)  k == held[s]  IN
    /\ searched[s] /\ k.id # 0 /\ searched' = [searched EXCEPT ![s] = FALSE]
    /\ IF Holds(db, k) /\ IdentityFree(db, Replaced(db[k.id], c), k.id)
       THEN db[k.id].version < MaxVersion /\ Commit(With(db, k.id, Replaced(db[k.id], c)))
       ELSE UNCHANGED <<memories, lasting>>
    /\ UNCHANGED <<nextId, owners, now, held, exporting, archive, born, overtaken>>

\* delete_local: nothing is pruned, and an absent row is success.
memory_delete(s) ==
    /\ held[s].id # 0 /\ Holds(memories, held[s])
    /\ Commit([i \in Stored \ {held[s].id} |-> memories[i]])
    /\ UNCHANGED <<nextId, owners, now, searched, held, exporting, archive, born, overtaken>>

-----------------------------------------------------------------------------
(* Export, import and sync *)

\* export_local_page with a limit of one record, called by export_all; one
\* archive per behaviour.
export_start ==
    /\ archive = <<>> /\ ~exporting.on /\ exporting' = [Idle_ EXCEPT !.on = TRUE] /\ lasting' = Stored
    /\ UNCHANGED <<memories, nextId, owners, now, searched, held, archive, born, overtaken>>

\* The cursor of the next page is the last record of this one.
ExportCursor(rest, i) == i

export_page ==
    LET db == Pruned(memories)
        rest == {i \in DOMAIN db : i > exporting.after}
        i == CHOOSE j \in rest : \A k \in rest : j <= k IN
    /\ exporting.on /\ Commit(db)
    /\ LET page == IF rest = {} THEN exporting.records
                   ELSE Append(exporting.records, [key |-> i, record |-> db[i]]) IN
       IF Len(page) > MaxRecords
       THEN exporting' = Idle_ /\ UNCHANGED archive
       ELSE IF Cardinality(rest) <= 1
       THEN exporting' = Idle_ /\ archive' = page
       ELSE /\ exporting' = [on |-> TRUE, after |-> ExportCursor(rest, i), records |-> page]
            /\ UNCHANGED archive
    /\ UNCHANGED <<nextId, owners, now, searched, held, born, overtaken>>

\* One record of import_records_local: a record with the same transfer
\* identity gains the source, any other one is inserted under a new id and a
\* new owner; version, use and probation are those of the archive.
ImportOne(st, e) ==
    LET source == [owner |-> e.record.owner, id |-> e.key, version |-> e.record.version]
        from == IF source \in {e.record.from[n] : n \in DOMAIN e.record.from}
                THEN e.record.from ELSE Append(e.record.from, source)
        same == {i \in DOMAIN st.db : TransferIdentity(st.db[i]) = TransferIdentity(e.record)}
        i == CHOOSE j \in same : \A k \in same : j <= k
        known == {st.db[i].from[n] : n \in DOMAIN st.db[i].from}
        merged == [st.db[i] EXCEPT !.from = @ \o SelectSeq(from, LAMBDA x : x \notin known)]
        fresh == [e.record EXCEPT !.owner = st.owners + 1, !.from = from]
        id == AllocateId(st.db, st.next)
    IN  IF ~st.ok THEN st
        ELSE IF same # {}
        THEN IF merged = st.db[i] THEN st
             ELSE [st EXCEPT !.db = With(st.db, i, [merged EXCEPT !.version = @ + 1]),
                             !.ok = IdentityFree(st.db, merged, i)]
        ELSE [ok |-> IdentityFree(st.db, fresh, 0) /\ Room(st.db),
              db |-> With(st.db, id, fresh), next |-> id + 1, owners |-> st.owners + 1,
              born |-> st.born \cup {id}]

\* The fold of ImportOne over the archive.
Imported(st0, records) ==
    LET f[n \in 0..Len(records)] == IF n = 0 THEN st0 ELSE ImportOne(f[n - 1], records[n])
    IN  f[Len(records)]

Database == [ok |-> TRUE, db |-> Pruned(memories), next |-> nextId, owners |-> owners, born |-> {}]

\* MemoryArchive::import: all records or none.
import_archive ==
    LET st == Imported(Database, archive) IN
    /\ archive # <<>> /\ st.ok /\ st.next <= MaxId + 1
    /\ \A i \in DOMAIN st.db : st.db[i].version <= MaxVersion
    /\ Commit(st.db) /\ nextId' = st.next /\ owners' = st.owners
    /\ born' = [i \in RecordIds |-> born[i] + (IF i \in st.born THEN 1 ELSE 0)]
    /\ UNCHANGED <<now, searched, held, exporting, archive, overtaken>>

\* sync_local_snapshot_blocking: the snapshot replaces every row, under the
\* ids and versions it gives them; validate_authored_snapshot refuses one that
\* repeats an identity.  Keys that sessions hold are not touched.
sync_snapshot ==
    /\ archive # <<>>
    /\ \A m, n \in DOMAIN archive :
        Identity(archive[m].record) = Identity(archive[n].record) => m = n
    /\ LET ids == {archive[n].key : n \in DOMAIN archive}
           db == [i \in ids |-> (CHOOSE e \in {archive[n] : n \in DOMAIN archive} : e.key = i).record]
       IN  Commit(db)
    /\ overtaken' = MemorySessions
    /\ UNCHANGED <<nextId, owners, now, searched, held, exporting, archive, born>>

pass_time ==
    /\ now < MaxNow /\ now' = now + 1
    /\ UNCHANGED <<memories, nextId, owners, searched, held, exporting, archive, born, lasting,
                   overtaken>>

MemoryNext ==
    \/ \E s \in MemorySessions :
        \/ memory_scan(s) \/ memory_delete(s) \/ \E i \in RecordIds : memory_read(s, i)
        \/ \E c \in Contents : memory_insert(s, c) \/ memory_replace(s, c)
    \/ export_start \/ export_page \/ import_archive \/ sync_snapshot \/ pass_time

-----------------------------------------------------------------------------
(* Properties *)

\* A session overwrites or deletes only what it read: the key it read since
\* the last sync matches a row only while the content is the one it saw,
\* whoever wrote, imported or let a record expire meanwhile.  (A sync may bring
\* back a version number, and with it the match of a key read before.)
NothingOverwrittenUnseen ==
    \A s \in MemorySessions \ overtaken : held[s].id # 0 /\ Holds(memories, held[s]) =>
        memories[held[s].id].content = held[s].content

\* An identity is handed out once, also after the row that had it was
\* deleted, pruned or replaced by a snapshot.
IdentityOnce == \A i \in RecordIds : born[i] <= 1

\* What a session read does not expire: a record whose key a session has read
\* since the last sync and still holds disappears only by a delete or by
\* another sync.
ReadRecordsStay ==
    \A s \in MemorySessions \ overtaken :
     held[s].id # 0 /\ Holds(memories, held[s]) /\ held[s].id \notin DOMAIN memories' =>
         sync_snapshot \/ \E t \in MemorySessions : memory_delete(t)

\* Importing an archive again, with the prune every import starts with, is
\* accepted and changes no record that anybody can still read: a record whose
\* probation is over is inserted anew each time and pruned each time.
ImportIdempotent ==
    LET once == Imported(Database, archive)
        again == Imported([once EXCEPT !.db = Pruned(@), !.born = {}], archive) IN
    once.ok => again.ok /\ Pruned(again.db) = Pruned(once.db)

\* An export that is read page by page while the store changes holds every
\* record that was there all the time, once.
ExportComplete ==
    /\ exporting.on => \A i \in lasting : i <= exporting.after =>
        \E n \in DOMAIN exporting.records : exporting.records[n].key = i
    /\ \A m, n \in DOMAIN archive : archive[m].key = archive[n].key => m = n

-----------------------------------------------------------------------------
(***************************************************************************)
(* The memory of a team: runs that nominate and finalize a lesson          *)
(* (memory/src/lessons.rs) through the remote client                       *)
(* (store/remote/client.rs) and the server (server/router.rs), and an      *)
(* export of a namespace page by page.  A database behind the server may   *)
(* answer reads from a replica; the bookmark of a client says how far it   *)
(* has to be.  One lesson, of one namespace; answers may be lost, and an   *)
(* operation that timed out in the server may still be applied later.      *)
(***************************************************************************)
CONSTANTS
    Runs,           \* runs of agents: each nominates, finalizes and may delete
    RemoteClients,  \* clients they use; a client and its clones are one session
    NoRun,
    SendAttempts,   \* attempts of a request: 3 in the code
    MaxWrites,      \* bound on writes of the database
    MaxFaults,      \* bound on faults of the network and the server
    DumpIds,        \* records of the namespace that is exported
    DumpLimit       \* records of a page of the export

ASSUME MemoryRemoteAssumption ==
    /\ NoRun \notin Runs /\ DumpIds \subseteq Nat \ {0}
    /\ {SendAttempts, MaxWrites, DumpLimit} \subseteq Nat \ {0} /\ MaxFaults \in Nat

VARIABLES
    history,    \* the states of the database, the last one the current one
    lesson,     \* by run: what it is doing, the record it saw, what it was told
    requests,\* by client: the request under way, the bookmark it holds
    late,       \* operations that timed out in the server
    counters,   \* next record id, faults
    applied,    \* by run: how often its last put took effect
    dump        \* the export

remoteVars == <<history, lesson, requests, late, counters, applied, dump>>

None == [id |-> 0, version |-> 0, pending |-> NoRun, traces |-> {}]
Position == Len(history)
CurrentRecord == history[Position]

Stages == {"idle", "page", "put", "nominated", "failed",
           "final_page", "final_put", "finalized", "delete", "ended"}

RemoteTypeOK ==
    /\ Position \in 1..(MaxWrites + 1)
    /\ \A r \in Runs : lesson[r].stage \in Stages /\ lesson[r].client \in RemoteClients
                       /\ lesson[r].told \in {"", "ok", "refused", "unknown"}
    /\ \A c \in RemoteClients : requests[c].run \in Runs \cup {NoRun}
                                /\ requests[c].attempt \in 1..SendAttempts
                                /\ requests[c].bookmark <= Position
    /\ \A o \in late : o.run \in Runs
    /\ counters.faults <= MaxFaults /\ counters.next <= MaxWrites + 1
    /\ dump.present \subseteq DumpIds /\ Len(dump.visible) <= DumpLimit

NoExport == [on |-> FALSE, present |-> {}, hidden |-> {}, stayed |-> {}, cursor |-> 0,
             visible |-> <<>>, got |-> <<>>, done |-> TRUE]

RemoteInit ==
    /\ history = <<None>>
    /\ \E use \in [Runs -> RemoteClients] :
         lesson = [r \in Runs |-> [stage |-> "idle", client |-> use[r], seen |-> None,
                                   told |-> "", putAt |-> 0, readAt |-> 0]]
    /\ requests = [c \in RemoteClients |-> [run |-> NoRun, attempt |-> 1, bookmark |-> 1]]
    /\ late = {}
    /\ counters = [next |-> 1, faults |-> 0]
    /\ applied = [r \in Runs |-> 0]
    /\ dump \in {NoExport} \cup
         {[NoExport EXCEPT !.on = TRUE, !.present = p, !.hidden = h, !.stayed = p, !.done = FALSE] :
            p \in SUBSET DumpIds, h \in SUBSET DumpIds}

\* propose_lesson: look for the lesson first; then put it, on top of what was
\* found.  finalize_lessons: for every record pending on this run.
Begin(r, from, to) ==
    /\ ~dump.on
    /\ lesson[r].stage \in from
    /\ lesson' = [lesson EXCEPT ![r].stage = to]
    /\ UNCHANGED <<history, requests, late, counters, applied, dump>>

propose_lesson(r) == Begin(r, {"idle"}, "page")
finalize_lessons(r) == Begin(r, {"nominated", "failed"}, "final_page")
delete_lesson(r) == lesson[r].told = "ok" /\ Begin(r, {"finalized"}, "delete")

\* send: the guard of the bookmark is held for the whole exchange.
send_request(c, r) ==
    /\ ~dump.on
    /\ requests[c].run = NoRun /\ lesson[r].client = c
    /\ lesson[r].stage \in {"page", "put", "final_page", "final_put", "delete"}
    /\ requests' = [requests EXCEPT ![c].run = r, ![c].attempt = 1]
    /\ applied' = IF lesson[r].stage \in {"put", "final_put"} THEN [applied EXCEPT ![r] = 0] ELSE applied
    /\ UNCHANGED <<history, lesson, late, counters, dump>>

\* Replay::Safe: a put is replayed only if the connection was refused.
ReplaySafe(stage) == stage \notin {"put", "final_put"}

\* The record of the request: nothing is taken from what is current when it is
\* applied but the id of a new one.
PutRecord(r, stage, seen) ==
    IF stage = "final_put" THEN [seen EXCEPT !.version = @ + 1, !.pending = NoRun]
    ELSE IF seen = None THEN [id |-> counters.next, version |-> 1, pending |-> r, traces |-> {r}]
    ELSE [seen EXCEPT !.version = @ + 1, !.pending = r, !.traces = @ \cup {r}]

\* Duplicate; NotFound or Conflict.
PutRefused(seen) ==
    IF seen = None THEN CurrentRecord # None
    ELSE CurrentRecord.id # seen.id \/ CurrentRecord.version # seen.version

\* A record that is gone was deleted already.
DeleteRefused(seen) == CurrentRecord.id = seen.id /\ CurrentRecord.version # seen.version

\* The effect of a write, by the handler in time or by a thread left behind.
ApplyWrite(r, stage, seen) ==
    /\ Position <= MaxWrites
    /\ IF stage = "delete"
       THEN /\ history' = IF CurrentRecord.id = seen.id THEN Append(history, None) ELSE history
            /\ UNCHANGED <<counters, applied>>
       ELSE /\ history' = Append(history, PutRecord(r, stage, seen))
            /\ counters' = [counters EXCEPT !.next = IF seen = None THEN @ + 1 ELSE @]
            /\ applied' = [applied EXCEPT ![r] = @ + 1]

Refused(stage, seen) == IF stage = "delete" THEN DeleteRefused(seen) ELSE PutRefused(seen)

\* What the operation does with the end of its request.
Told(r, answer, position) ==
    LET l == lesson[r] IN
    CASE l.stage \in {"page", "final_page"} /\ answer # "ok" ->
           [l EXCEPT !.stage = IF @ = "page" THEN "failed" ELSE "ended"]
      [] l.stage = "page" /\ answer = "ok" ->
           [l EXCEPT !.stage = "put", !.seen = history[position], !.readAt = position]
      [] l.stage = "final_page" /\ answer = "ok" ->
           IF history[position].pending = r
           THEN [l EXCEPT !.stage = "final_put", !.seen = history[position], !.readAt = position]
           ELSE [l EXCEPT !.stage = "finalized", !.readAt = position]
      [] l.stage = "put" ->
           [l EXCEPT !.stage = IF answer = "ok" THEN "nominated" ELSE "failed",
                     !.told = answer, !.seen = None, !.putAt = IF answer = "ok" THEN position ELSE 0]
      [] l.stage = "final_put" ->
           [l EXCEPT !.stage = IF answer = "unknown" THEN "ended" ELSE "finalized",
                     !.told = answer,
                     !.seen = IF answer = "ok" THEN PutRecord(r, "final_put", l.seen) ELSE None]
      [] OTHER -> [l EXCEPT !.stage = "ended", !.told = ""]

Finish(c, r, answer, position) ==
    /\ lesson' = [lesson EXCEPT ![r] = Told(r, answer, position)]
    /\ requests' = [requests EXCEPT ![c].run = NoRun]

KeepBookmark(c, position) ==
    requests' = [requests EXCEPT ![c].run = NoRun, ![c].bookmark = position]

\* A read: at a replica that is as far as the bookmark.
answer_read(c, r) ==
    /\ lesson[r].stage \in {"page", "final_page"}
    /\ \E p \in requests[c].bookmark..Position :
         lesson' = [lesson EXCEPT ![r] = Told(r, "ok", p)] /\ KeepBookmark(c, p)
    /\ UNCHANGED <<history, counters, applied>>

answer_write(c, r) ==
    LET l == lesson[r] IN
    /\ l.stage \in {"put", "final_put", "delete"}
    /\ IF Refused(l.stage, l.seen)
       THEN Finish(c, r, "refused", Position) /\ UNCHANGED <<history, counters, applied>>
       ELSE /\ ApplyWrite(r, l.stage, l.seen)
            /\ lesson' = [lesson EXCEPT ![r] = Told(r, "ok", Len(history'))]
            /\ KeepBookmark(c, Len(history'))

handle(c) ==
    /\ requests[c].run # NoRun
    /\ answer_read(c, requests[c].run) \/ answer_write(c, requests[c].run)
    /\ UNCHANGED <<late, dump>>

\* The connection is refused: another attempt, for every request.
connect_error(c) ==
    /\ requests[c].run # NoRun /\ counters.faults < MaxFaults
    /\ counters' = [counters EXCEPT !.faults = @ + 1]
    /\ IF requests[c].attempt < SendAttempts
       THEN requests' = [requests EXCEPT ![c].attempt = @ + 1] /\ UNCHANGED lesson
       ELSE Finish(c, requests[c].run, "unknown", Position)
    /\ UNCHANGED <<history, late, applied, dump>>

\* What the server was asked is not done, done already or done later.
LeaveBehind(r) ==
    LET l == lesson[r] IN
    late' \in {late} \cup (IF l.stage \in {"page", "final_page"} THEN {}
                           ELSE {late \cup {[run |-> r, stage |-> l.stage, seen |-> l.seen]}})

\* run_store: the operation timed out or the database is busy: 503.
unavailable(c) ==
    /\ requests[c].run # NoRun /\ counters.faults < MaxFaults
    /\ counters' = [counters EXCEPT !.faults = @ + 1]
    /\ LeaveBehind(requests[c].run)
    /\ IF ReplaySafe(lesson[requests[c].run].stage) /\ requests[c].attempt < SendAttempts
       THEN requests' = [requests EXCEPT ![c].attempt = @ + 1] /\ UNCHANGED lesson
       ELSE Finish(c, requests[c].run, "unknown", Position)
    /\ UNCHANGED <<history, applied, dump>>

\* The answer is lost or cannot be read.
transport_error(c) ==
    /\ requests[c].run # NoRun /\ counters.faults < MaxFaults
    /\ counters' = [counters EXCEPT !.faults = @ + 1]
    /\ LeaveBehind(requests[c].run)
    /\ Finish(c, requests[c].run, "unknown", Position)
    /\ UNCHANGED <<history, applied, dump>>

\* The thread that the handler stopped waiting for comes to its end.
late_operation(o) ==
    /\ late' = late \ {o}
    /\ IF Refused(o.stage, o.seen)
       THEN UNCHANGED <<history, counters, applied>>
       ELSE ApplyWrite(o.run, o.stage, o.seen)
    /\ UNCHANGED <<lesson, requests, dump>>

-----------------------------------------------------------------------------
(* The export of a namespace.  A record that looks like a secret is hidden. *)

\* The last record of the page, hidden or not.
ExportNext(page) == Last(page)

StorePage(after, limit) ==
    LET rest == SetToSortSeq({i \in dump.present : i > after}, <)
    IN  SubSeq(rest, 1, IF Len(rest) < limit THEN Len(rest) ELSE limit)

\* export_visible_page: pages of the store until the last visible record is
\* the cursor; then the client takes them and asks for the next page.
export_page_step ==
    /\ dump.on /\ ~dump.done
    /\ LET page == StorePage(dump.cursor, DumpLimit - Len(dump.visible))
           visible == dump.visible \o SelectSeq(page, LAMBDA i : i \notin dump.hidden)
           more == \E i \in dump.present : i > dump.cursor /\ i \notin ToSet(page)
           cursor == ExportNext(page)
       IN  dump' = IF ~more
                   THEN [dump EXCEPT !.got = @ \o visible, !.visible = <<>>, !.done = TRUE]
                   ELSE IF visible # <<>> /\ Last(visible) = cursor
                   THEN [dump EXCEPT !.got = @ \o visible, !.visible = <<>>, !.cursor = cursor]
                   ELSE [dump EXCEPT !.visible = visible, !.cursor = cursor]
    /\ UNCHANGED <<history, lesson, requests, late, counters, applied>>

\* A record is deleted during the export.
export_forget(i) ==
    /\ dump.on /\ i \in dump.present
    /\ dump' = [dump EXCEPT !.present = @ \ {i}, !.stayed = @ \ {i}]
    /\ UNCHANGED <<history, lesson, requests, late, counters, applied>>

RemoteNext ==
    \/ \E r \in Runs : propose_lesson(r) \/ finalize_lessons(r) \/ delete_lesson(r)
    \/ \E c \in RemoteClients : \/ \E r \in Runs : send_request(c, r)
                                \/ handle(c) \/ connect_error(c) \/ unavailable(c) \/ transport_error(c)
    \/ \E o \in late : late_operation(o)
    \/ export_page_step
    \/ \E i \in DumpIds : export_forget(i)

-----------------------------------------------------------------------------
(* Properties *)

\* A run that is told that its put was refused did not change the memory, one
\* that is told that it was done changed it exactly once, and no put is ever
\* applied twice.
PutAnswerTrue ==
    \A r \in Runs :
        /\ applied[r] <= 1
        /\ (lesson[r].told = "ok" /\ lesson[r].stage # "put") =>
              (requests[lesson[r].client].run = r \/ applied[r] = 1)
        /\ lesson[r].told = "refused" =>
              (requests[lesson[r].client].run = r \/ applied[r] = 0)

\* Only the run a lesson is pending on finalizes it: a nomination made since
\* then is not finalized by the run before.
FinalizedByItsRun ==
    \A r \in Runs :
       (CurrentRecord.pending = r /\ CurrentRecord'.id = CurrentRecord.id /\ CurrentRecord'.pending = NoRun)
          => applied'[r] = applied[r] + 1

\* Runs that nominate the same lesson at the same time do not forget each
\* other: no trace is lost as long as the lesson is there.
TracesSurvive ==
    CurrentRecord'.id = CurrentRecord.id => CurrentRecord.traces \subseteq CurrentRecord'.traces

\* A run that finalizes reads the memory as of its own nomination or later,
\* whatever replica answers it.
ReadsOwnWrites ==
    \A r \in Runs : lesson[r].stage \in {"final_put", "finalized", "delete"}
                       => lesson[r].readAt >= lesson[r].putAt

\* An export is in order, without a hidden record and without repetition, and
\* has every visible record that was there all the time.
ExportWhole ==
    /\ \A i \in 1..(Len(dump.got) - 1) : dump.got[i] < dump.got[i + 1]
    /\ ToSet(dump.got) \cap dump.hidden = {}
    /\ dump.done => dump.stayed \ dump.hidden \subseteq ToSet(dump.got)
=============================================================================
