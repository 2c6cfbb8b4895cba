----------------------------- MODULE MemoryPanel -----------------------------
(***************************************************************************)
(* The memory browser of the terminal client (tui/components/memory.rs):   *)
(* a filtered, sorted list over the records a load answered, a detail and  *)
(* a two-step deletion.  Loads and deletions run as jobs of their own      *)
(* (event_loop.rs), so their answers arrive late, in the order the jobs    *)
(* end, and even in a browser that was opened after they were asked for.   *)
(*                                                                         *)
(* A memory is a number; its record carries its version.  Local memories   *)
(* have no namespace; shared ones belong to the client's or another one.   *)
(***************************************************************************)
EXTENDS Integers, Sequences, FiniteSets, SequencesExt

CONSTANTS
    Notes,          \* memories, numbers
    MaxJobs,        \* loads and deletions asked for
    MaxUpdates,     \* changes of the memory by others
    MaxHeight       \* lines of the list, for the table's window

VARIABLES
    shared,         \* whether the configured memory is a remote one
    kept,           \* the memory itself: the version of every note, 0 if gone
    updates,        \* changes by others so far
    jobs,           \* jobs that have not reached the memory
    asked_jobs,          \* jobs asked for so far
    answers,        \* answers on their way to the browser, in order
    browser         \* the open browser, or Closed

mbVars == <<shared, kept, updates, jobs, asked_jobs, answers, browser>>

-----------------------------------------------------------------------------
(* Records.                                                                *)

Own(note) == note # 2
Uses(note) == IF note = 3 THEN 0 ELSE 1
Updated(note) == IF note = 1 THEN 1 ELSE 2
Namespace(note) == IF ~shared THEN 0 ELSE IF Own(note) THEN 1 ELSE 2

\* What a query of one character finds.
record_matches(note, query) == query = 0 \/ note # 3

compare_newest(a, b) ==
    \/ Updated(a) > Updated(b)
    \/ Updated(a) = Updated(b) /\ Namespace(a) < Namespace(b)
    \/ Updated(a) = Updated(b) /\ Namespace(a) = Namespace(b) /\ a > b

compare_oldest(a, b) ==
    \/ Updated(a) < Updated(b)
    \/ Updated(a) = Updated(b) /\ Namespace(a) < Namespace(b)
    \/ Updated(a) = Updated(b) /\ Namespace(a) = Namespace(b) /\ a < b

Sorts == <<"most_useful", "newest", "oldest", "least_useful">>

\* SortMode::compare
compare(sort, a, b) ==
    CASE sort = "most_useful" -> Uses(a) > Uses(b) \/ (Uses(a) = Uses(b) /\ compare_newest(a, b))
      [] sort = "newest" -> compare_newest(a, b)
      [] sort = "oldest" -> compare_oldest(a, b)
      [] sort = "least_useful" -> Uses(a) < Uses(b) \/ (Uses(a) = Uses(b) /\ compare_oldest(a, b))

NextSort(sort) ==
    LET i == CHOOSE i \in 1 .. Len(Sorts) : Sorts[i] = sort
    IN Sorts[IF i = Len(Sorts) THEN 1 ELSE i + 1]

-----------------------------------------------------------------------------
(* The browser.  A key is a note and the version its record had.           *)

NoKey == <<0, 0>>
Closed == [view |-> "closed"]

\* MemoryBrowser::new
NewBrowser ==
    [view |-> "loading", access |-> "none", remote |-> FALSE, records |-> <<>>,
     query |-> 0, matches |-> <<>>, selected |-> NoKey, sort |-> "most_useful",
     scope |-> "all", key |-> NoKey, back |-> "list"]

is_remote(b) == b.access \in {"reader", "writer"} \/ b.remote

can_delete(b, key) ==
    CASE b.access = "local" -> Namespace(key[1]) = 0
      [] b.access = "writer" -> Namespace(key[1]) = 1
      [] OTHER -> FALSE

namespace_matches(b, note) ==
    \/ b.scope = "all"
    \/ ~is_remote(b)
    \/ b.access \in {"reader", "writer"} /\ Namespace(note) = 1

\* The positions of the records the list shows, in the order it shows them.
PanelShown(b) ==
    SetToSortSeq({i \in 1 .. Len(b.records) :
                    /\ namespace_matches(b, b.records[i][1])
                    /\ record_matches(b.records[i][1], b.query)},
                 LAMBDA i, j : compare(b.sort, b.records[i][1], b.records[j][1]))

\* selected_match_index, 0 when the selected record is not in the list.
SelectedAt(b, matches) ==
    LET at == {p \in 1 .. Len(matches) : b.records[matches[p]] = b.selected}
    IN IF at = {} THEN 0 ELSE CHOOSE p \in at : TRUE

\* rebuild_matches: a selection that is gone moves to what took its place.
RebuiltList(b, fallback, matches) ==
    [b EXCEPT !.matches = matches,
        !.selected = IF SelectedAt(b, matches) # 0 THEN b.selected
                     ELSE IF matches = <<>> THEN NoKey
                     ELSE b.records[matches[IF fallback = 0 THEN 1
                            ELSE IF fallback > Len(matches) THEN Len(matches)
                            ELSE fallback]]]

rebuild_matches(old, new) == RebuiltList(new, SelectedAt(old, old.matches), PanelShown(new))

\* replace_records and remove_record end in the list, whatever was open.
replace_records(b, access, records) ==
    rebuild_matches(b, [b EXCEPT !.access = access, !.remote = (access \in {"reader", "writer"}),
                                 !.records = records, !.view = "list", !.key = NoKey])

remove_record(b, key) ==
    rebuild_matches(b, [b EXCEPT !.records = SelectSeq(@, LAMBDA r : r # key),
                                 !.view = "list", !.key = NoKey])

-----------------------------------------------------------------------------
(* Jobs of the event loop and the memory they reach.                       *)

SpawnJob(job) ==
    /\ asked_jobs < MaxJobs
    /\ asked_jobs' = asked_jobs + 1
    /\ jobs' = jobs \cup {[job EXCEPT !.id = asked_jobs + 1]}
    /\ UNCHANGED <<shared, kept, updates, answers>>

\* A new browser, and its first load.
open_browser ==
    /\ browser.view = "closed"
    /\ browser' = NewBrowser
    /\ SpawnJob([kind |-> "load", key |-> NoKey, id |-> 0])

\* set_memory_enabled(false), a reset or another overlay closes the browser.
close_browser ==
    /\ browser.view # "closed"
    /\ browser' = Closed
    /\ UNCHANGED <<shared, kept, updates, jobs, asked_jobs, answers>>

Listed == SetToSeq({<<note, kept[note]>> : note \in {n \in Notes : kept[n] # 0}})

\* RootEffect::LoadMemories: the access, then the list, or an error.
load_memories(job) ==
    /\ job.kind = "load"
    /\ \E access \in (IF shared THEN {"reader", "writer"} ELSE {"local"}) \cup {"none"} :
        answers' = Append(answers,
            IF access = "none" THEN [kind |-> "load_failed", remote |-> shared]
            ELSE [kind |-> "loaded", access |-> access, records |-> Listed])
    /\ UNCHANGED kept

\* RootEffect::DeleteMemory: the version decides; a remote memory may fail.
delete_memory(job) ==
    /\ job.kind = "delete"
    /\ \/ /\ kept[job.key[1]] = job.key[2]
          /\ kept' = [kept EXCEPT ![job.key[1]] = 0]
          /\ answers' = Append(answers, [kind |-> "deleted", key |-> job.key])
       \/ /\ kept[job.key[1]] # job.key[2]
          /\ UNCHANGED kept
          /\ answers' = Append(answers, [kind |-> "delete_failed", conflict |-> TRUE])
       \/ /\ UNCHANGED kept
          /\ answers' = Append(answers, [kind |-> "delete_failed", conflict |-> FALSE])

run_job ==
    \E job \in jobs :
        /\ load_memories(job) \/ delete_memory(job)
        /\ jobs' = jobs \ {job}
        /\ UNCHANGED <<shared, updates, asked_jobs, browser>>

\* An agent or another client writes a new version of a memory.
memory_moves ==
    /\ updates < MaxUpdates
    /\ updates' = updates + 1
    /\ \E note \in Notes : kept[note] # 0 /\ kept' = [kept EXCEPT ![note] = @ + 1]
    /\ UNCHANGED <<shared, jobs, asked_jobs, answers, browser>>

-----------------------------------------------------------------------------
(* Answers: MemoryBrowser::update.                                         *)

Applied(b, answer) ==
    CASE answer.kind = "loaded" -> replace_records(b, answer.access, answer.records)
      [] answer.kind = "load_failed" ->
            [b EXCEPT !.access = "none", !.remote = answer.remote, !.view = "load_error",
                      !.key = NoKey]
      [] answer.kind = "deleted" -> remove_record(b, answer.key)
      [] answer.kind = "delete_failed" ->
            IF b.view # "deleting" THEN b
            ELSE [b EXCEPT !.view = IF answer.conflict THEN "loading" ELSE "delete_error",
                           !.key = IF answer.conflict THEN NoKey ELSE @]

\* A conflict asks for a load of its own.
PanelReloads(b, answer) ==
    b.view = "deleting" /\ answer.kind = "delete_failed" /\ answer.conflict

\* update_memory: an answer for a browser that was closed is dropped.
deliver ==
    /\ answers # <<>>
    /\ LET answer == Head(answers) IN
       IF browser.view = "closed"
       THEN UNCHANGED <<browser, jobs, asked_jobs>>
       ELSE /\ browser' = Applied(browser, answer)
            /\ IF PanelReloads(browser, answer)
               THEN /\ asked_jobs' = asked_jobs + 1
                    /\ jobs' = jobs \cup {[kind |-> "load", key |-> NoKey, id |-> asked_jobs + 1]}
               ELSE UNCHANGED <<asked_jobs, jobs>>
    /\ answers' = Tail(answers)
    /\ UNCHANGED <<shared, kept, updates>>

-----------------------------------------------------------------------------
(* Keys and the mouse.                                                     *)

In(views) == browser.view \in views
Shows(b) == browser' = b /\ UNCHANGED <<shared, kept, updates, jobs, asked_jobs, answers>>

\* Esc in the list and while loading.
dismiss == In({"loading", "load_error", "list"}) /\ Shows(Closed)

\* r while loading, after an error and in the detail; Ctrl+R in the list.
refresh ==
    /\ In({"loading", "load_error", "delete_error", "list", "detail"})
    /\ browser' = [browser EXCEPT !.view = "loading", !.key = NoKey]
    /\ SpawnJob([kind |-> "load", key |-> NoKey, id |-> 0])

\* Up, Down and the wheel.
move_selection(step) ==
    /\ In({"list"}) /\ browser.matches # <<>>
    /\ LET here == SelectedAt(browser, browser.matches)
           at == IF here = 0 THEN 1 ELSE here
           last == Len(browser.matches)
           to == IF at + step < 1 THEN 1 ELSE IF at + step > last THEN last ELSE at + step
       IN Shows([browser EXCEPT !.selected = browser.records[browser.matches[to]]])

\* A character typed or pasted, and Backspace.
edit_query ==
    /\ In({"list"})
    /\ Shows(rebuild_matches(browser, [browser EXCEPT !.query = 1 - @]))

cycle_sort ==
    /\ In({"list"})
    /\ Shows(rebuild_matches(browser, [browser EXCEPT !.sort = NextSort(@)]))

\* Ctrl+N and a click on a tab.
cycle_namespace_scope ==
    /\ In({"list"}) /\ is_remote(browser)
    /\ Shows(rebuild_matches(browser,
            [browser EXCEPT !.scope = IF @ = "all" THEN "own" ELSE "all"]))

inspect_selected ==
    /\ In({"list"}) /\ browser.selected # NoKey
    /\ Shows([browser EXCEPT !.view = "detail", !.key = browser.selected])

leave_detail == In({"detail"}) /\ Shows([browser EXCEPT !.view = "list", !.key = NoKey])

\* The first press of the delete key, in the list or in the detail.
confirm_selected ==
    /\ In({"list", "detail"})
    /\ LET key == IF In({"detail"}) THEN browser.key ELSE browser.selected IN
       /\ key # NoKey /\ can_delete(browser, key)
       /\ Shows([browser EXCEPT !.view = "confirm", !.key = key, !.back = browser.view])

\* restore: Esc goes back to the list or to the detail of the selection.
RestoredFocus(b) ==
    IF b.back = "list" \/ b.selected = NoKey
    THEN [b EXCEPT !.view = "list", !.key = NoKey]
    ELSE [b EXCEPT !.view = "detail", !.key = b.selected]

restore == In({"confirm", "delete_error"}) /\ Shows(RestoredFocus(browser))

\* The second press, and the retry after an error.
delete ==
    /\ In({"confirm", "delete_error"})
    /\ \E i \in 1 .. Len(browser.records) : browser.records[i] = browser.key
    /\ browser' = [browser EXCEPT !.view = "deleting"]
    /\ SpawnJob([kind |-> "delete", key |-> browser.key, id |-> 0])

-----------------------------------------------------------------------------
(* The table: rows of two lines, as many as fit, around the selected one.  *)

TableRows(height) == IF height \div 2 = 0 THEN 1 ELSE height \div 2

TableOffset(selected, total, visible) ==
    LET above == IF selected > visible - 1 THEN selected - (visible - 1) ELSE 0
        last == IF total > visible THEN total - visible ELSE 0
    IN IF above < last THEN above ELSE last

-----------------------------------------------------------------------------
MemoryPanelInit ==
    /\ shared \in BOOLEAN
    /\ kept = [note \in Notes |-> 1]
    /\ updates = 0 /\ jobs = {} /\ asked_jobs = 0 /\ answers = <<>>
    /\ browser = Closed

MemoryPanelNext ==
    \/ open_browser \/ close_browser \/ run_job \/ memory_moves \/ deliver
    \/ dismiss \/ refresh \/ edit_query \/ cycle_sort \/ cycle_namespace_scope
    \/ inspect_selected \/ leave_detail \/ confirm_selected \/ restore \/ delete
    \/ \E step \in {-1, 1} : move_selection(step)

-----------------------------------------------------------------------------
Deletable(key) == ~shared \/ Own(key[1])

MemoryPanelTypeOK ==
    /\ asked_jobs <= MaxJobs + 1 /\ Cardinality(jobs) + Len(answers) <= asked_jobs
    /\ browser.view # "closed" => browser.sort \in Range(Sorts) /\ browser.query \in 0 .. 1

\* What the list shows is what its records, filter, namespace and order ask
\* for, and every position is one of a record it holds: answers that replace
\* or remove records while the user types, sorts or confirms always rebuild it.
ListExact ==
    browser.view \in {"list", "detail", "confirm", "deleting", "delete_error"} =>
        browser.matches = PanelShown(browser)

\* The memory a detail, a question or a deletion is about is the selected one
\* and is among the records, so Esc comes back to it and never to another.
FocusKept ==
    browser.view \in {"detail", "confirm", "deleting", "delete_error"} =>
        /\ browser.key = browser.selected
        /\ browser.key \in Range(browser.records)

\* A deletion is asked for only of a memory this client may delete, whatever
\* access an answer that arrived in between has told (can_delete is asked at
\* the first press, the deletion is sent at the second).
DeletesOwn ==
    /\ \A job \in jobs : job.kind = "delete" => Deletable(job.key)
    /\ browser.view \in {"confirm", "deleting", "delete_error"} =>
        browser.access \in {"local", "writer"}

\* The selected record is always in the window of the table, and the window is
\* full when there are records for it, at every height.
SelectedInTable ==
    browser.view = "list" /\ browser.matches # <<>> =>
        \A height \in 1 .. MaxHeight :
            LET selected == SelectedAt(browser, browser.matches) - 1
                visible == TableRows(height)
                offset == TableOffset(selected, Len(browser.matches), visible)
            IN /\ offset <= selected /\ selected < offset + visible
               /\ offset + visible <= Len(browser.matches) \/ offset = 0
=============================================================================
