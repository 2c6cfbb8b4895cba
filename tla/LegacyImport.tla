---------------------------- MODULE LegacyImport ----------------------------
(***************************************************************************)
(* The import of a session of an older program: LegacyArchive (harness     *)
(* import.rs), the publication of its export as artifacts and the paged    *)
(* reads of it (import/publish.rs), and the binding of the operation to a  *)
(* session (store/imports.rs, controller/imports.rs).  The older program   *)
(* may keep writing its database, requests are repeated and run side by    *)
(* side, and the host may stop between any two artifacts.                  *)
(***************************************************************************)
EXTENDS Naturals, Sequences, SequencesExt, FiniteSets

CONSTANTS
    Cutoffs,        \* the sequences at which sessions were forked
    ImportTries, ImportOps,
    Wanted,         \* the sessions a request names
    MaxLineage,     \* limits.max_lineage_depth
    PerIndex,       \* limits.records_per_index
    PageRecords, PageBytes, \* the limits of a page a client asks for
    MaxAppends      \* bound on records the older program still writes

ASSUME LegacyImportAssumption ==
    /\ {MaxLineage, PerIndex} \cup PageRecords \cup PageBytes \subseteq Nat \ {0}
    /\ {MaxAppends} \cup Cutoffs \subseteq Nat

VARIABLES
    database,    \* the database of the older program: session -> row and events
    blobs,      \* ArtifactStore: content is its own name
    importing,    \* what each import_legacy_request knows
    imported,   \* the journal: session (by its target) -> how it was bound
    answers,    \* what was returned, for the properties
    reader,     \* a client that pages through an imported session
    appended    \* records the older program wrote so far

importVars == <<database, blobs, importing, imported, answers, reader, appended>>

NoSession == "none"
Whole == 9      \* through: NoSession, a session that is read to its end
IdleAttempt == [pc |-> "idle", op |-> NoSession, wanted |-> NoSession, export |-> NoSession, at |-> 0]
NoReader == [manifest |-> {}, next |-> 0, seen |-> <<>>, error |-> FALSE]

ImportTypeOK ==
    /\ \A a \in ImportTries : importing[a].pc \in {"idle", "open", "put", "commit"}
    /\ \A m \in DOMAIN imported : imported[m].ops # {}
    /\ reader.next \in Nat /\ appended \in 0..MaxAppends

\* The databases: c was forked from b and b from a, or from a session that is
\* gone, or from c itself; a row and the first event may disagree.
Row(parent, started, cutoff, records, resume) ==
    [parent |-> parent, started |-> started, cutoff |-> cutoff, records |-> records, resume |-> resume]
Archives ==
    {[a |-> Row(NoSession, NoSession, 0, ra, NoSession), b |-> Row(pb, sb, cb, rb, NoSession),
      c |-> Row("b", "b", cc, <<1>>, "state")] :
        ra \in {<<1, 3>>}, rb \in {<<1, 2>>, <<2, 1>>},
        pb \in {"a", "gone", "c"}, sb \in {"a", "c"}, cb \in Cutoffs, cc \in Cutoffs}

ImportInit ==
    /\ database \in Archives /\ blobs = {} /\ imported = <<>> /\ answers = {}
    /\ importing = [a \in ImportTries |-> IdleAttempt]
    /\ reader = NoReader /\ appended = 0

-----------------------------------------------------------------------------
(* LegacyArchive *)

\* What sessions and export show of a row; updated_at_ms moves with every
\* record.
Metadata(db, s) == [session |-> s, parent |-> db[s].parent, updated |-> Len(db[s].records)]

Increasing(seqs) ==
    \A i \in DOMAIN seqs : seqs[i] > 0 /\ (i > 1 => seqs[i] > seqs[i - 1])

\* The events that are read: up to the first one at or beyond the cutoff; a
\* cutoff of 0 reads the first one, only for its parent.
ReadTo(seqs, through) ==
    LET beyond == {i \in DOMAIN seqs : seqs[i] >= through}
    IN  IF through = 0 THEN SubSeq(seqs, 1, Min({1, Len(seqs)}))
        ELSE IF beyond = {} THEN seqs ELSE SubSeq(seqs, 1, Min(beyond))

RecordsError(db, s, through) ==
    LET read == ReadTo(db[s].records, through)
    IN  IF ~Increasing(read) THEN "CorruptRecord"
        ELSE IF read = <<>> \/ db[s].started # db[s].parent THEN "InvalidLineage"
        ELSE IF through \notin {Whole, 0} /\ Last(read) # through THEN "InvalidForkCutoff"
        ELSE NoSession

LocalRecords(db, s, through) ==
    LET read == ReadTo(db[s].records, through)
    IN  IF through = 0 THEN <<>>
        ELSE [i \in DOMAIN read |-> [session |-> s, sequence |-> read[i]]]

\* Nothing before a fork at 0 is part of the history.
NextCutoff(through, cutoff) == IF through = 0 THEN 0 ELSE cutoff

\* One turn of the loop of export: from the session to its ancestors.
WalkStep(db, w) ==
    LET s == w.at
        error == IF s \in w.visited THEN "LineageCycle"
                 ELSE IF Cardinality(w.visited) = MaxLineage THEN "Limit"
                 ELSE IF s \notin DOMAIN db
                 THEN IF w.visited = {} THEN "SessionNotFound" ELSE "MissingAncestor"
                 ELSE RecordsError(db, s, w.through)
    IN  IF w.done THEN w
        ELSE IF error # NoSession THEN [w EXCEPT !.error = error, !.done = TRUE]
        ELSE [w EXCEPT
                !.visited = @ \cup {s}, !.at = db[s].parent, !.done = db[s].parent = NoSession,
                !.through = NextCutoff(@, db[s].cutoff),
                !.segments = <<[metadata |-> Metadata(db, s), cutoff |-> db[s].cutoff,
                                through |-> w.through, local |-> LocalRecords(db, s, w.through)]>> \o @]

Walk(db, s) ==
    LET start == [at |-> s, through |-> Whole, visited |-> {}, segments |-> <<>>,
                  error |-> NoSession, done |-> FALSE]
        walk[n \in 0..(MaxLineage + 1)] == IF n = 0 THEN start ELSE WalkStep(db, walk[n - 1])
    IN  walk[MaxLineage + 1]

\* first_record_index and record_count of every segment.
Lineage(segments) ==
    [i \in DOMAIN segments |->
        [metadata |-> segments[i].metadata, cutoff |-> segments[i].cutoff,
         through |-> segments[i].through, count |-> Len(segments[i].local),
         first |-> FoldSeq(LAMBDA g, n : n + Len(g.local), 0, SubSeq(segments, 1, i - 1))]]

\* export: the content, whatever else the database holds.
ExportSession(db, s) ==
    LET w == Walk(db, s)
        local == [i \in DOMAIN w.segments |-> w.segments[i].local]
    IN  [error |-> w.error, session |-> s, lineage |-> Lineage(w.segments),
         records |-> FlattenSeq(local), resume |-> IF w.error = NoSession THEN db[s].resume ELSE NoSession]

-----------------------------------------------------------------------------
(* prepare_import: immutable artifacts, the manifest last *)

\* The ordinals of an index document.
IndexDocs(x) ==
    LET n == (Len(x.records) + PerIndex - 1) \div PerIndex
    IN  [k \in 1..n |->
            LET first == (k - 1) * PerIndex
                count == IF first + PerIndex > Len(x.records) THEN Len(x.records) - first ELSE PerIndex
            IN  [kind |-> "index", import |-> x.import, first |-> first,
                 records |-> [i \in 1..count |->
                                [ordinal |-> first + i - 1, record |-> x.records[first + i]]]]]

Manifest(x) ==
    [kind |-> "manifest", import |-> x.import, session |-> x.session, snapshot |-> x.snapshot,
     lineage |-> [kind |-> "lineage", segments |-> x.lineage], count |-> Len(x.records),
     indexes |-> IndexDocs(x), resume |-> x.resume]

Raws(x) == {[kind |-> "raw", record |-> r] : r \in Range(x.records)}
ResumeBlobs(x) == IF x.resume = NoSession THEN {} ELSE {[kind |-> "resume", of |-> x.resume]}

\* Blobs are put one by one; nothing names one before the manifest is there,
\* so the steps are as large as an attempt can be told to have got.
PutOrder(x) ==
    <<{[kind |-> "snapshot", db |-> x.snapshot]} \cup Raws(x) \cup ResumeBlobs(x),
      {[kind |-> "lineage", segments |-> x.lineage]} \cup Range(IndexDocs(x)), {Manifest(x)}>>

-----------------------------------------------------------------------------
(* Store: the operation and the session it is bound to *)

\* lookup scans every session's journal for a binding of the operation.
BoundTo(op) == {t \in DOMAIN imported : \E b \in imported[t].ops : b.op = op}

\* An operation that is bound with another input is refused.
Reused(op, wanted) == \E t \in BoundTo(op) : [op |-> op, wanted |-> wanted] \notin imported[t].ops

BoundAtCommit(op) == BoundTo(op)

AnswerImport(a, target) ==
    /\ answers' = answers \cup {[op |-> importing[a].op, session |-> target]}
    /\ importing' = [importing EXCEPT ![a] = IdleAttempt]

Fails(a) == importing' = [importing EXCEPT ![a] = IdleAttempt] /\ UNCHANGED answers

-----------------------------------------------------------------------------
(* Host::import_legacy_request *)

import_legacy_request(a, op, wanted) ==
    /\ importing[a].pc = "idle" /\ ~Reused(op, wanted)
    /\ IF BoundTo(op) = {}
       THEN /\ importing' = [importing EXCEPT ![a].pc = "open", ![a].op = op, ![a].wanted = wanted]
            /\ UNCHANGED answers
       ELSE /\ UNCHANGED importing
            /\ answers' = answers \cup {[op |-> op, session |-> t] : t \in BoundTo(op)}
    /\ UNCHANGED <<database, blobs, imported, reader, appended>>

\* The database is read in one transaction; a version, a schema, a limit or
\* the lineage of the session may refuse it.
open(a) ==
    /\ importing[a].pc = "open"
    /\ LET x == ExportSession(database, importing[a].wanted) IN
       IF x.error # NoSession THEN Fails(a)
       ELSE /\ importing' = [importing EXCEPT ![a].pc = "put", ![a].at = 1,
                  ![a].export = [import |-> [session |-> x.session, lineage |-> x.lineage,
                                             records |-> x.records, resume |-> x.resume],
                                 session |-> x.session, lineage |-> x.lineage, records |-> x.records,
                                 resume |-> x.resume, snapshot |-> database]]
            /\ UNCHANGED answers
    /\ UNCHANGED <<database, blobs, imported, reader, appended>>

put(a) ==
    /\ importing[a].pc = "put"
    /\ LET order == PutOrder(importing[a].export) IN
       /\ blobs' = blobs \cup order[importing[a].at]
       /\ importing' = [importing EXCEPT ![a].at = @ + 1,
                        ![a].pc = IF importing[a].at = Len(order) THEN "commit" ELSE "put"]
    /\ UNCHANGED <<database, imported, answers, reader, appended>>

\* The deadline passes, a limit is met, or the host stops: what was put stays.
import_dies(a) ==
    /\ importing[a].pc # "idle" /\ Fails(a)
    /\ UNCHANGED <<database, blobs, imported, reader, appended>>

\* commit_bound_legacy_import: the operation, then the content decide.
commit_bound_legacy_import(a) ==
    LET op == importing[a].op
        found == BoundAtCommit(op)
        target == importing[a].export.import
        binding == [op |-> op, wanted |-> importing[a].wanted]
    IN  /\ importing[a].pc = "commit"
        /\ IF found # {} /\ Reused(op, importing[a].wanted) THEN Fails(a) /\ UNCHANGED imported
           ELSE IF found # {} THEN (\E t \in found : AnswerImport(a, t)) /\ UNCHANGED imported
           ELSE /\ AnswerImport(a, target)
                /\ imported' = [t \in DOMAIN imported \cup {target} |->
                      IF t # target THEN imported[t]
                      ELSE IF t \in DOMAIN imported THEN [imported[t] EXCEPT !.ops = @ \cup {binding}]
                      ELSE [manifest |-> Manifest(importing[a].export), ops |-> {binding}]]
        /\ UNCHANGED <<database, blobs, reader, appended>>

-----------------------------------------------------------------------------
(* read_import_page *)

ManifestValid(m) ==
    /\ \A k \in DOMAIN m.indexes :
          m.indexes[k].first = FoldSeq(LAMBDA d, n : n + Len(d.records), 0, SubSeq(m.indexes, 1, k - 1))
    /\ FoldSeq(LAMBDA d, n : n + Len(d.records), 0, m.indexes) = m.count

LineageValid(m) ==
    LET g == m.lineage.segments IN
    /\ g # <<>>
    /\ \A i \in DOMAIN g :
          /\ \A j \in 1..(i - 1) : g[j].metadata.session # g[i].metadata.session
          /\ g[i].first = FoldSeq(LAMBDA h, n : n + h.count, 0, SubSeq(g, 1, i - 1))
          /\ IF i = 1 THEN g[i].metadata.parent = NoSession
             ELSE /\ g[i].metadata.parent = g[i - 1].metadata.session
                  /\ g[i - 1].through = IF g[i].through = 0 THEN 0 ELSE g[i].cutoff
    /\ m.count = g[Len(g)].first + g[Len(g)].count
    /\ g[Len(g)].metadata.session = m.session /\ g[Len(g)].through = Whole

ReferenceValid(m, ref) ==
    \E i \in DOMAIN m.lineage.segments :
        LET g == m.lineage.segments[i] IN
        /\ ref.ordinal \in g.first..(g.first + g.count - 1)
        /\ ref.record.session = g.metadata.session
        /\ ref.record.sequence <= g.through

\* Every document read for the page is there and fits the manifest.
DocumentsValid(m, docs) ==
    /\ {m, m.lineage} \cup docs \subseteq blobs /\ ManifestValid(m) /\ LineageValid(m)
    /\ \A d \in docs : \A i \in DOMAIN d.records :
          /\ d.records[i].ordinal = d.first + i - 1 /\ d.import = m.import
          /\ ReferenceValid(m, d.records[i])

\* A reference costs 1, a record its sequence; raw text is charged six times
\* before it is read and left out when it might not fit.
WithRaw(charged, ref, bytes) == charged + 1 + 6 * ref.record.sequence <= bytes
Charge(charged, ref, bytes) == charged + 1 + IF WithRaw(charged, ref, bytes) THEN ref.record.sequence ELSE 0

\* How many references from the start fit: at most the records asked for.
Refs(m) == FlattenSeq([k \in DOMAIN m.indexes |-> m.indexes[k].records])
PageEnd(m, start, limits) ==
    LET refs == Refs(m)
        charged[n \in 0..m.count] == IF n <= start THEN 0 ELSE Charge(charged[n - 1], refs[n], limits.bytes)
        fits == {n \in start..m.count : n - start <= limits.records
                    /\ \A k \in (start + 1)..n : charged[k - 1] + 1 <= limits.bytes}
    IN  CHOOSE n \in fits : \A k \in fits : k <= n

legacy_page(target, limits) ==
    /\ target \in DOMAIN imported /\ ~reader.error
    /\ reader.manifest \subseteq {imported[target].manifest}
    /\ LET m == imported[target].manifest
           start == reader.next
           end == PageEnd(m, start, limits)
           docs == {m.indexes[k] : k \in {k \in DOMAIN m.indexes :
                        m.indexes[k].first + Len(m.indexes[k].records) > start /\ m.indexes[k].first <= end}}
           raws == {[kind |-> "raw", record |-> Refs(m)[n].record] : n \in (start + 1)..end}
       IN  /\ reader.next < m.count /\ start <= m.count
           /\ reader' = [reader EXCEPT !.manifest = {m}, !.next = end,
                 !.seen = @ \o [i \in 1..(end - start) |-> Refs(m)[start + i].record],
                 !.error = ~DocumentsValid(m, docs) \/ ~(raws \subseteq blobs)]
    /\ UNCHANGED <<database, blobs, importing, imported, answers, appended>>

-----------------------------------------------------------------------------
(* The surroundings *)

legacy_appends(s) ==
    /\ appended < MaxAppends /\ appended' = appended + 1
    /\ database[s].records # <<>>
    /\ database' = [database EXCEPT ![s].records = Append(@, Last(@) + 1)]
    /\ UNCHANGED <<blobs, importing, imported, answers, reader>>

ImportNext ==
    \/ \E a \in ImportTries, op \in ImportOps, s \in Wanted : import_legacy_request(a, op, s)
    \/ \E a \in ImportTries : open(a) \/ put(a) \/ import_dies(a) \/ commit_bound_legacy_import(a)
    \/ \E t \in DOMAIN imported, l \in [records : PageRecords, bytes : PageBytes] : legacy_page(t, l)
    \/ \E s \in Wanted : legacy_appends(s)

-----------------------------------------------------------------------------
(* Properties *)

\* A repeated request, on a source that changed in between, after a restart
\* or side by side with the first, gets the session the operation was first
\* bound to (store/imports.rs: the lookup is repeated under the lock).
OperationBoundOnce ==
    \A x, y \in answers : x.op = y.op => x.session = y.session

\* "The manifest is published last" (publish.rs:140): a manifest that is in
\* the store has every blob it names there, wherever an importing ended.
ManifestWhole ==
    \A m \in {b \in blobs : b.kind = "manifest"} :
        /\ {m.lineage} \cup Range(m.indexes) \subseteq blobs
        /\ \A d \in Range(m.indexes) : \A i \in DOMAIN d.records :
              [kind |-> "raw", record |-> d.records[i].record] \in blobs
        /\ [kind |-> "snapshot", db |-> m.snapshot] \in blobs

\* The history of a session up to one of its sequences, from the database's
\* own meaning: nothing at 0, else the parent's up to the fork and the own.
HistoryTo(db, s, k) ==
    LET own(t, through) == SelectSeq(db[t].records, LAMBDA q : q <= through)
        h[d \in 0..MaxLineage, t \in DOMAIN db, through \in 0..Whole] ==
            IF through = 0 THEN <<>>
            ELSE (IF d = 0 \/ db[t].parent = NoSession THEN <<>> ELSE h[d - 1, db[t].parent, db[t].cutoff])
                 \o [i \in DOMAIN own(t, through) |-> [session |-> t, sequence |-> own(t, through)[i]]]
    IN  h[MaxLineage, s, k]

\* A client that follows the cursors sees the history of the session, every
\* record once and in order, whatever the limits of its pages and the forks
\* of the lineage; and what an import published is never called corrupt.
PagesCover ==
    /\ ~reader.error
    /\ \A m \in reader.manifest :
          LET whole == HistoryTo(m.snapshot, m.session, Whole)
          IN  /\ IsPrefix(reader.seen, whole)
              /\ reader.next = m.count => reader.seen = whole
=============================================================================
