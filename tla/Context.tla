------------------------------ MODULE Context ------------------------------
(***************************************************************************)
(* The view of a session that a provider call carries                      *)
(* (crates/harness/src/context.rs, context/transitions.rs,                 *)
(* context_render.rs and their callers in controller.rs).                  *)
(*                                                                         *)
(* A session's history only grows.  Before every provider call the host    *)
(* projects it into a bounded input: calls that were interrupted get an    *)
(* answer, old items give way to a notice, and what one request appends    *)
(* stays an extension of what was sent before.  The agent may have settled *)
(* ranges replaced by a summary.  A reader pages through one long rowText, a  *)
(* renderer lays one out as bitmap pages.                                  *)
(***************************************************************************)
EXTENDS Naturals, FiniteSets, Sequences, SequencesExt

CONSTANTS MaxBytes,        \* projection_byte_limit of the window
          MaxOutput,       \* MAX_OUTPUT_TOKENS, the allowance of one epoch
          MaxItems,        \* items of the history
          MaxText          \* length of the rowText a reader or a renderer works on

ASSUME ContextAssumption == {MaxBytes, MaxOutput, MaxItems, MaxText} \subseteq Nat

VARIABLES aim,          \* "session", "read" or "render": what the behaviour is about
          history,      \* items: [t, id, size]
          settled,      \* settled_history_items
          active,       \* a request is running
          transitions,  \* accepted ranges: <<first, last>>
          view,         \* the projection of the last provider call, or why there is none
          rowText,         \* the rowText that is read or rendered
          needle,       \* what the reader searches
          at, found,    \* its offset and the matches so far
          reading       \* it has not reached the end

contextVars == <<aim, history, settled, active, transitions, view,
                 rowText, needle, at, found, reading>>

----------------------------------------------------------------------------
(* Projection (project_native).                                            *)

Reserve == 2     \* OMISSION_NOTICE_RESERVE_BYTES, in the units of MaxBytes
Notice == 1      \* what a notice takes of it
Huge == 1000     \* usize::MAX

Less(a, b) == IF a > b THEN a - b ELSE 0   \* saturating_sub
Least(S) == CHOOSE x \in S : \A y \in S : x <= y

Item(t, id, size) == [t |-> t, id |-> id, size |-> size]

\* Calls among h[from+1 .. to] without an answer there.
Open(h, from, to) ==
    {h[k].id : k \in {j \in from + 1 .. to :
        /\ h[j].t = "call"
        /\ ~\E m \in j + 1 .. to : h[m].t = "output" /\ h[m].id = h[j].id}}

\* The calls a user message at i finds unanswered since the one before it.
Pending(h, i) ==
    LET since == Least({j \in 0 .. i - 1 : \A k \in j + 1 .. i - 1 : h[k].t # "user"})
    IN  Open(h, since, i - 1)

AnswerOf(ids, stable) ==
    [k \in 1 .. Cardinality(ids) |->
        [t |-> "output", id |-> SetToSortSeq(ids, LAMBDA a, b : a < b)[k], size |-> 1,
         source |-> 0, stable |-> stable]]

\* The history with repair_pending's answers before a user message and at
\* the end.
repaired_bug(h, s) ==
    FlattenSeq([i \in 1 .. Len(h) + 1 |->
        IF i <= Len(h)
        THEN <<[t |-> h[i].t, id |-> h[i].id, size |-> h[i].size,
                source |-> i, stable |-> i <= s]>>
        ELSE AnswerOf(Pending(h, i), s = Len(h))])
repaired(h, s) ==
    FlattenSeq([i \in 1 .. Len(h) + 1 |->
        IF i <= Len(h)
        THEN (IF h[i].t = "user" THEN AnswerOf(Pending(h, i), i - 1 <= s) ELSE <<>>)
             \o <<[t |-> h[i].t, id |-> h[i].id, size |-> h[i].size,
                   source |-> i, stable |-> i <= s]>>
        ELSE AnswerOf(Pending(h, i), s = Len(h))])

\* sizes: the bytes of the first n items.
Sizes(items) == [n \in 0 .. Len(items) |->
                    FoldLeft(LAMBDA sum, x : sum + x.size, 0, SubSeq(items, 1, n))]

\* The first cut from start on that fits the budget and splits no pair.
suffix_start(items, sizes, start, end, budget) ==
    Least({i \in start .. end :
        i = end \/ (Less(sizes[end], sizes[i]) <= budget /\ Open(items, start, i) = {})})

\* Where the epoch of the latest items starts: complete units are added to
\* it until the next one would exceed the allowance.
cache_epoch_start(items, sizes, start, budget) ==
    FoldLeft(LAMBDA acc, i :
                IF Open(items, start, i) # {} THEN acc
                ELSE LET unit == sizes[i] - sizes[acc.unit]
                         full == acc.bytes > 0 /\ acc.bytes + unit > budget
                     IN  [epoch |-> IF full THEN acc.unit ELSE acc.epoch,
                          bytes |-> IF full THEN unit ELSE acc.bytes + unit,
                          unit |-> i],
             [epoch |-> start, bytes |-> 0, unit |-> start],
             [k \in 1 .. Len(items) - start |-> start + k]).epoch

LastSource(items, n) ==
    LET known == {items[k].source : k \in 1 .. n}
    IN  IF n = 0 THEN 0 ELSE CHOOSE x \in known : \A y \in known : x >= y

\* What the input holds: history items, answers for interrupted calls,
\* notices and summaries, with the history they stand for.
RowsShown(x) == [k |-> IF x.source = 0 THEN "answer" ELSE "item", id |-> x.id, t |-> x.t,
             from |-> x.source, to |-> x.source]
Omitted(count, first, last) ==
    [k |-> "notice", id |-> count, t |-> "developer", from |-> first, to |-> last]

reserved_tail(tail, retained, budget) == IF tail > budget THEN retained ELSE budget

base_budget(max, kept, cut) ==
    Less(Less(Less(max, kept), Reserve), IF cut THEN Reserve ELSE 0)

\* The cuts of one projection.
Cuts(items, sizes, max) ==
    LET n == Len(items)
        stable == Cardinality({k \in 1 .. n : \A j \in 1 .. k : items[j].stable})
        allowance == Less(max, Reserve)
        budget == IF allowance < MaxOutput THEN allowance ELSE MaxOutput
        epoch == cache_epoch_start(items, sizes, stable, budget)
        tail == sizes[n] - sizes[epoch]
        live == IF tail > budget
                THEN suffix_start(items, sizes, epoch, n, Less(max, 2 * Reserve)) ELSE epoch
        kept == reserved_tail(tail, sizes[n] - sizes[live], budget)
        room == base_budget(max, kept, live > epoch)
    IN  [epoch |-> epoch, live |-> live, fits |-> tail <= budget,
         base |-> suffix_start(items, sizes, 0, epoch, room)]

Assembled(items, c) ==
    LET shown == [k \in 1 .. Len(items) |-> RowsShown(items[k])]
        older == IF c.base > 0 THEN <<Omitted(c.base, 1, LastSource(items, c.base))>> ELSE <<>>
        newer == IF c.live > c.epoch
                 THEN <<Omitted(c.live - c.epoch, LastSource(items, c.epoch) + 1,
                                LastSource(items, c.live))>> ELSE <<>>
    IN  [stable |-> SubSeq(shown, c.base + 1, c.epoch),
         rest |-> older \o newer \o SubSeq(shown, c.live + 1, Len(items)),
         bytes |-> Notice * (Len(older) + Len(newer)) + 1
                   + FoldLeft(LAMBDA sum, x : sum + x.size, 0,
                              SubSeq(items, c.base + 1, c.epoch)
                                \o SubSeq(items, c.live + 1, Len(items)))]

Failure(why) == [err |-> why, input |-> <<>>, settled |-> 0, epoch |-> 0, fits |-> FALSE,
                 of |-> 0, ranges |-> {}]

\* A call of the running request has no output yet.
InFlight(h, s, a) == a /\ Open(h, s, Len(h)) # {}

project_native(h, s, max) ==
    LET items == repaired(h, s)
        c == Cuts(items, Sizes(items), max)
        out == Assembled(items, c)
    IN  IF out.bytes > max THEN Failure("Limit")
        ELSE [err |-> "", input |-> out.stable \o out.rest, settled |-> s, epoch |-> c.epoch,
              fits |-> c.fits, of |-> Len(h), ranges |-> {}]

----------------------------------------------------------------------------
(* Transitions (context/transitions.rs).                                   *)

Covers(r, i) == r[1] <= i /\ i <= r[2]

\* validate_proposal: settled, apart from the others, and on both sides at
\* a place where every call has its output.
validate_proposal(h, s, ts, r) ==
    /\ r[1] <= r[2] /\ r[2] <= s
    /\ \A prior \in ts : r[2] < prior[1] \/ prior[2] < r[1]
    /\ Open(h, 0, r[1] - 1) = {} /\ Open(h, 0, r[2]) = {}

SummarySize == 1

\* transitions::project: the stable items of the native projection, each
\* range by its summary and its user messages, then the live ones.
derive(h, s, ts, max) ==
    LET items == repaired(h, s)
        c == Cuts(items, Sizes(items), Huge)
        native == Assembled(items, c)
        covering(x) == {r \in ts : x.k = "item" /\ Covers(r, x.from)}
        kept(x) ==
            (IF \E r \in covering(x) : x.from = r[1]
             THEN <<[k |-> "summary", id |-> 0, t |-> "developer", from |-> x.from,
                     to |-> (CHOOSE r \in covering(x) : TRUE)[2]]>> ELSE <<>>)
            \o (IF covering(x) # {} /\ x.t # "user" THEN <<>> ELSE <<x>>)
        stable == FlattenSeq([k \in 1 .. Len(native.stable) |-> kept(native.stable[k])])
        input == stable \o native.rest
        size(x) == IF x.k = "item" THEN h[x.from].size ELSE SummarySize
    IN  IF FoldLeft(LAMBDA sum, x : sum + size(x), 1, input) > max THEN Failure("Limit")
        ELSE [err |-> "", input |-> input, settled |-> s, epoch |-> c.epoch,
              fits |-> c.fits, of |-> Len(h), ranges |-> ts]

\* context::project
project(h, s, a, ts, max) ==
    IF InFlight(h, s, a) THEN Failure("PendingCall")
    ELSE IF ts = {} THEN project_native(h, s, max) ELSE derive(h, s, ts, max)

----------------------------------------------------------------------------
(* Texts: reading and rendering.                                           *)

Matches(t, n, i) == i + Len(n) <= Len(t) /\ SubSeq(t, i + 1, i + Len(n)) = n

\* find_iter from an offset: the leftmost matches that do not overlap.
FindFrom(t, n) ==
    LET f[i \in 0 .. Len(t) + 1] ==
            IF i >= Len(t) THEN <<>>
            ELSE IF Matches(t, n, i) THEN <<i>> \o f[IF i + Len(n) > Len(t) THEN Len(t) ELSE i + Len(n)]
            ELSE f[i + 1]
    IN  f

MaxMatches == 2   \* 64 in read_text_page

next_search(all) == all[MaxMatches + 1]

Columns == 4      \* COLUMNS, a multiple of TAB_COLUMNS
TabColumns == 2
BodyRows == 2     \* rows of a page

row_end(t) ==
    LET f[i \in 0 .. Len(t), column \in 0 .. Columns + TabColumns] ==
            IF i = Len(t) THEN i
            ELSE IF t[i + 1] = "n" THEN i + 1 ELSE IF t[i + 1] = "r" THEN i + 2
            ELSE IF column = Columns THEN i
            ELSE f[i + 1, IF t[i + 1] = "t" THEN column + (TabColumns - (column % TabColumns))
                          ELSE column + 1]
    IN  f

\* render's pages: the offset after each of them.
page_end(t, i) ==
    FoldLeft(LAMBDA end, r : IF end < Len(t) THEN row_end(t)[end, 0] ELSE end, i,
             [r \in 1 .. BodyRows |-> r])

\* paint_row: the column after a row's rowText; the last glyph must fit.
CellWidth(t, i, end) ==
    FoldLeft(LAMBDA column, c : IF c \in {"n", "r"} THEN column
                                ELSE IF c = "t" THEN column + (TabColumns - (column % TabColumns))
                                ELSE column + 1,
             0, SubSeq(t, i + 1, end))

Words(S, n) == UNION {[1 .. k -> S] : k \in 1 .. n}
Renderable(t) == \A i \in 1 .. Len(t) : t[i] = "r" => i < Len(t) /\ t[i + 1] = "n"

----------------------------------------------------------------------------
(* Operations.                                                             *)

NoView == Failure("none")

ContextInit ==
    /\ history = <<>> /\ settled = 0 /\ active = FALSE /\ transitions = {} /\ view = NoView
    /\ at = 0 /\ found = {}
    /\ \/ aim = "session" /\ rowText = <<>> /\ needle = <<>> /\ reading = FALSE
       \/ /\ aim = "read" /\ rowText \in Words({"a", "b"}, MaxText)
          /\ needle \in Words({"a", "b"}, 2) /\ reading = TRUE
       \/ /\ aim = "render" /\ rowText \in {t \in Words({"x", "n", "r", "t"}, MaxText) : Renderable(t)}
          /\ needle = <<>> /\ reading = TRUE

textVars == <<aim, rowText, needle, at, found, reading>>
sessionVars == <<aim, history, settled, active, transitions, view>>

Room(n) == Len(history) + n <= MaxItems

\* RequestStarted: the user's message opens a request.
begin_request ==
    /\ aim = "session" /\ ~active /\ Room(1)
    /\ history' = Append(history, Item("user", 0, 1)) /\ active' = TRUE
    /\ UNCHANGED <<settled, transitions, view>> /\ UNCHANGED textVars

\* One provider turn: every call has its output, the session is projected
\* and the answer recorded.  A projection that fails fails the turn.
provider_turn ==
    /\ aim = "session" /\ active /\ ~InFlight(history, settled, active)
    /\ view' = project(history, settled, active, transitions, MaxBytes)
    /\ \/ /\ view'.err = "" /\ Room(1)
          /\ \/ \E size \in {1, 3} : history' = Append(history, Item("rowText", 0, size))
             \/ history' = Append(history, Item("call", Len(history) + 1, 1))
             \/ /\ Room(2)
                /\ history' = history \o <<Item("call", Len(history) + 1, 1),
                                           Item("call", Len(history) + 2, 1)>>
          /\ UNCHANGED <<settled, active>>
       \/ /\ view'.err # ""
          /\ active' = FALSE /\ settled' = Len(history) /\ UNCHANGED history
    /\ UNCHANGED transitions /\ UNCHANGED textVars

\* record_tool_result
record_tool_result ==
    /\ aim = "session" /\ active /\ Room(1)
    /\ \E id \in Open(history, settled, Len(history)), size \in {1, 5, 9} :
          history' = Append(history, Item("output", id, size))
    /\ UNCHANGED <<settled, active, transitions, view>> /\ UNCHANGED textVars

\* The request ends: it is done, or it is stopped with calls unanswered.
end_request ==
    /\ aim = "session" /\ active
    /\ active' = FALSE /\ settled' = Len(history)
    /\ UNCHANGED <<history, transitions, view>> /\ UNCHANGED textVars

\* transition_context: the proposal is checked, and so is the size of the
\* view that would follow.
transition_context ==
    /\ aim = "session" /\ active
    /\ \E id \in Open(history, settled, Len(history)),
          r \in (1 .. MaxItems) \X (1 .. MaxItems) :
          /\ validate_proposal(history, settled, transitions, r)
          /\ project(Append(history, Item("output", id, 1)), settled, active,
                     transitions \cup {r}, MaxBytes).err = ""
          /\ transitions' = transitions \cup {r}
    /\ UNCHANGED <<history, settled, active, view>> /\ UNCHANGED textVars

\* The reader asks for the next page of matches.
read_text_page ==
    /\ aim = "read" /\ reading
    /\ LET all == FindFrom(rowText, needle)[at]
       IN  IF Len(all) > MaxMatches
           THEN /\ found' = found \cup {all[k] : k \in 1 .. MaxMatches}
                /\ at' = next_search(all) /\ UNCHANGED reading
           ELSE /\ found' = found \cup ToSet(all)
                /\ reading' = FALSE /\ UNCHANGED at
    /\ UNCHANGED <<rowText, needle>> /\ UNCHANGED sessionVars

\* The renderer lays out the next page; found holds where pages started.
render_page ==
    /\ aim = "render" /\ reading
    /\ at' = page_end(rowText, at) /\ found' = found \cup {at}
    /\ reading' = (at' < Len(rowText))
    /\ UNCHANGED <<rowText, needle>> /\ UNCHANGED sessionVars

ContextNext ==
    \/ begin_request \/ provider_turn \/ record_tool_result \/ end_request
    \/ transition_context \/ read_text_page \/ render_page

----------------------------------------------------------------------------
(* Properties.                                                             *)

\* Sessions and readers stay within their types.
ContextTypeOK ==
    /\ settled <= Len(history) /\ Len(history) <= MaxItems
    /\ view.err \in {"", "none", "Limit"} /\ at \in 0 .. MaxText
    /\ active \in BOOLEAN /\ reading \in BOOLEAN

Input == view.input

\* The provider never sees half of a tool exchange: an output follows its
\* call, and a call has its output or a stand-in, whatever was interrupted,
\* dropped or summarised (repair_pending, suffix_start, validate_proposal).
PairsWhole ==
    \A k \in 1 .. Len(Input) :
        /\ Input[k].t = "output" => \E j \in 1 .. k - 1 : Input[j].t = "call" /\ Input[j].id = Input[k].id
        /\ Input[k].t = "call" => \E j \in k + 1 .. Len(Input) :
                                     Input[j].t = "output" /\ Input[j].id = Input[k].id

\* Nothing is left out silently: every history item is sent, or lies in the
\* range a notice or a summary names so that it can be read back.
OmissionsNamed ==
    view.err = "" => \A i \in 1 .. view.of : \E k \in 1 .. Len(Input) :
        /\ Input[k].k # "answer" /\ Input[k].from <= i /\ i <= Input[k].to

\* Dropping whole units always makes a projection without transitions fit:
\* ContextError::Limit is left for sessions the agent has summarised.
AlwaysFits == view.err = "Limit" => transitions # {}

\* Within one epoch of a request, and with the same transitions, the input
\* only grows at its end, so the provider's prompt cache stays valid (the
\* comments in project_native).
PrefixKept ==
    /\ view'.err = "" /\ view.err = "" /\ view'.settled = view.settled
    /\ view'.epoch = view.epoch /\ view'.fits /\ view.fits /\ view'.ranges = view.ranges
    => IsPrefix(view.input, view'.input)

\* A search continued from next_search finds what one search would have.
SearchResumes == aim = "read" /\ ~reading => found = ToSet(FindFrom(rowText, needle)[0])

\* Rendered rows stay on the page: no row is wider than its columns and
\* every page takes some rowText, so the pages tile the source as
\* bitmap_matches_source demands.
RowsFit ==
    aim = "render" => /\ at <= Len(rowText) /\ at \notin found
                      /\ \A i \in 0 .. Len(rowText) - 1 :
                            i < row_end(rowText)[i, 0] /\ CellWidth(rowText, i, row_end(rowText)[i, 0]) <= Columns
=============================================================================
