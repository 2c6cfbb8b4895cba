------------------------------ MODULE Composer -------------------------------
(***************************************************************************)
(* The text editor of a pane: a draft with image markers in it, a cursor,  *)
(* soft wrapping with a cached layout, scrolling, and the prompt history   *)
(* (tui/components/composer.rs, composer/layout.rs, composer/history.rs).  *)
(*                                                                         *)
(* A cell of the draft is one column wide: a letter, "!", a space, a       *)
(* newline, or one of the three cells an image marker "[Image #1]" is      *)
(* reduced to, the space in it kept. A position counts the cells before it.*)
(***************************************************************************)
EXTENDS Integers, Sequences, FiniteSets

CONSTANTS
    Width,       \* columns of the content
    Rows,        \* rows of it that are visible
    MaxCells,    \* the length of a draft
    MaxKeys,     \* how many keys change something
    MaxPrompts   \* MAX_RECENT_PROMPTS

ASSUME ComposerAssumption ==
    /\ {Width, Rows, MaxCells, MaxPrompts} \subseteq Nat \ {0} /\ MaxKeys \in Nat

VARIABLES
    draft, images, cursor,
    preferred,    \* preferred_column, -1 when there is none
    scroll, follow,
    layout,       \* the cached layout: the draft and the cursor it was made for
    entries, browsing,   \* PromptHistory
    sent,      \* the submission the pane awaits an acknowledgement for
    aside,        \* a draft put aside with take_draft
    rendered,     \* the frame on the screen shows this state
    keys

composerVars == <<draft, images, cursor, preferred, scroll, follow, layout,
                  entries, browsing, sent, aside, rendered, keys>>
text == <<draft, images>>
asides == <<entries, browsing, sent, aside>>

Marker == <<"I", "_", "#">>
Typed == {"x", "!", "s", "n"}
White == {"s", "n", "_"}
Blank == [cells |-> <<>>, images |-> {}]
None == <<>>   \* nothing cached, browsed, sent or put aside

ComposerInit ==
    /\ draft = <<>> /\ images = {} /\ cursor = 0 /\ preferred = -1
    /\ scroll = 0 /\ follow = TRUE /\ layout = None
    /\ entries = <<>> /\ browsing = None /\ sent = None /\ aside = None
    /\ rendered = FALSE /\ keys = 0

-----------------------------------------------------------------------------
(* Wrapping (layout.rs) *)

NewlineFrom(d, p) ==
    LET after == {i \in p..Len(d) - 1 : d[i + 1] = "n"}
    IN IF after = {} THEN Len(d) ELSE CHOOSE i \in after : \A j \in after : i <= j

\* wrap_logical_line: a line that overflows ends behind its last white space.
LineEnd(d, start, end) ==
    LET full == IF start + Width < end THEN start + Width ELSE end
        breaks == {i \in start + 1..full : d[i] \in White}
    IN IF full < end /\ breaks # {} THEN CHOOSE i \in breaks : \A j \in breaks : j <= i ELSE full

Texts == UNION {[1..n -> Typed \cup {"I", "_", "#"}] : n \in 0..MaxCells}
Empty(p) == [start |-> p, end |-> p]

\* wrap_text, from a position where a line starts.
LinesFrom[d \in Texts, s \in 0..MaxCells] ==
    LET end == NewlineFrom(d, s)
        stop == LineEnd(d, s, end)
    IN <<[start |-> s, end |-> stop]>>
         \o (IF stop < end THEN LinesFrom[d, stop]
             ELSE IF stop = Len(d) THEN (IF stop = s + Width THEN <<Empty(stop)>> ELSE <<>>)
             ELSE IF stop + 1 = Len(d) THEN <<Empty(stop + 1)>>
             ELSE LinesFrom[d, stop + 1])
Lines(d) == LinesFrom[d, 0]

\* locate_cursor: at the seam of two lines the cursor is on the lower one.
Holds(ls, r, at) ==
    \/ at < ls[r].end
    \/ at = ls[r].start /\ ls[r].start = ls[r].end
    \/ at = ls[r].end /\ ~(r < Len(ls) /\ ls[r + 1].start = at)
RowOf[d \in Texts, at \in 0..MaxCells] ==
    CHOOSE r \in 1..Len(Lines(d)) :
        Holds(Lines(d), r, at) /\ \A q \in 1..r - 1 : ~Holds(Lines(d), q, at)
CursorRow(d, at) == RowOf[d, at]
CursorColumn(d, at) == at - Lines(d)[RowOf[d, at]].start

\* byte_at_column
AtColumn(line, column) ==
    IF line.start + column < line.end THEN line.start + column ELSE line.end

-----------------------------------------------------------------------------
(* The draft and its images *)

ImageEnd(i) == i.at + Len(Marker)
Inside(p) == {i \in images : i.at < p /\ p < ImageEnd(i)}

\* A cursor inside a marker, where Home or a soft wrap can leave it, moves
\* behind it before anything is inserted.
OutOfImage(p) == IF Inside(p) = {} THEN p ELSE ImageEnd(CHOOSE i \in Inside(p) : TRUE)

Shifted(is, p, by) == {IF i.at >= p THEN [i EXCEPT !.at = @ + by] ELSE i : i \in is}
Spliced(p, cells) == SubSeq(draft, 1, p) \o cells \o SubSeq(draft, p + 1, Len(draft))
Key == keys < MaxKeys /\ keys' = keys + 1 /\ rendered' = FALSE
Edited == follow' = TRUE /\ preferred' = -1 /\ layout' = None

insert(cells) ==
    LET p == OutOfImage(cursor)
    IN /\ Len(draft) + Len(cells) <= MaxCells
       /\ draft' = Spliced(p, cells) /\ images' = Shifted(images, p, Len(cells))
       /\ cursor' = p + Len(cells) /\ Edited /\ UNCHANGED scroll

\* The images that go with the removed cells have been taken out before.
removed(start, end, is) ==
    /\ draft' = SubSeq(draft, 1, start) \o SubSeq(draft, end + 1, Len(draft))
    /\ images' = Shifted(is, end, start - end)
    /\ cursor' = start /\ preferred' = -1

remove_range(start, end, is) ==
    removed(start, end, is) /\ layout' = None /\ follow' = TRUE /\ UNCHANGED scroll

replace_draft(cells) ==
    /\ draft' = cells /\ images' = {} /\ cursor' = Len(cells) /\ scroll' = 0 /\ Edited

detach == browsing' = None /\ UNCHANGED <<entries, sent, aside>>

\* A character, a newline or pasted text, which is not one cell of a marker.
insert_text == Key /\ (\E c \in Typed : insert(<<c>>)) /\ detach

insert_image ==
    LET p == OutOfImage(cursor)
    IN /\ Key /\ Len(draft) + Len(Marker) <= MaxCells
       /\ draft' = Spliced(p, Marker)
       /\ images' = Shifted(images, p, Len(Marker)) \cup {[at |-> p, url |-> keys]}
       /\ cursor' = p + Len(Marker) /\ Edited /\ UNCHANGED scroll /\ detach

backspace ==
    LET whole == {i \in images : i.at < cursor /\ cursor <= ImageEnd(i)}
    IN /\ Key /\ detach
       /\ \/ \E i \in whole : remove_range(i.at, ImageEnd(i), images \ {i})
          \/ whole = {} /\ cursor > 0 /\ remove_range(cursor - 1, cursor, images)

delete ==
    LET whole == {i \in images : i.at <= cursor /\ cursor < ImageEnd(i)}
    IN /\ Key /\ detach
       /\ \/ \E i \in whole : remove_range(i.at, ImageEnd(i), images \ {i})
          \/ whole = {} /\ cursor < Len(draft) /\ remove_range(cursor, cursor + 1, images)

\* White space before the cursor, then the word before it; an image that is
\* touched goes as a whole up to the cursor.
WordStart(p) ==
    LET words == {i \in 1..p : draft[i] \notin White}
        last == CHOOSE i \in words : \A j \in words : j <= i
        gaps == {i \in 1..last : draft[i] \in White}
    IN IF words = {} \/ gaps = {} THEN 0 ELSE CHOOSE i \in gaps : \A j \in gaps : j <= i
delete_word_before_cursor ==
    LET word == WordStart(cursor)
        hit == {i \in images : i.at < cursor /\ word < ImageEnd(i)}
        start == IF hit = {} THEN word ELSE CHOOSE p \in {i.at : i \in hit} : \A i \in hit : p <= i.at
    IN /\ Key /\ detach /\ start # cursor
       /\ remove_range(start, cursor, {i \in images : ImageEnd(i) <= start \/ i.at >= cursor})

\* The choice of a finder replaces what was typed up to the cursor.
replace_range ==
    /\ Key /\ detach /\ Inside(cursor) = {}
    /\ \E start \in 0..cursor :
          /\ \A i \in images : ImageEnd(i) <= start \/ i.at >= cursor
          /\ draft' = SubSeq(draft, 1, start) \o <<"x">> \o SubSeq(draft, cursor + 1, Len(draft))
          /\ Len(draft') <= MaxCells
          /\ images' = Shifted(images, cursor, 1 + start - cursor)
          /\ cursor' = start + 1 /\ Edited /\ UNCHANGED scroll

-----------------------------------------------------------------------------
(* Moving *)

goto(p) == p # cursor /\ cursor' = p /\ preferred' = -1
Moves == Key /\ detach /\ follow' = TRUE /\ UNCHANGED <<text, scroll, layout>>

move_left ==
    /\ cursor > 0 /\ Moves
    /\ LET hit == {i \in images : i.at <= cursor - 1 /\ cursor - 1 < ImageEnd(i)}
       IN goto(IF hit = {} THEN cursor - 1 ELSE (CHOOSE i \in hit : TRUE).at)

move_right == cursor < Len(draft) /\ Moves /\ goto(OutOfImage(cursor + 1))

Word(i) == draft[i] \notin White \cup {"!"}
move_by_word ==
    /\ Moves
    /\ \/ LET ends == {p \in cursor + 1..Len(draft) : Word(p) /\ (p = Len(draft) \/ ~Word(p + 1))}
          IN goto(OutOfImage(IF ends = {} THEN Len(draft) ELSE CHOOSE p \in ends : \A q \in ends : p <= q))
       \/ LET starts == {p \in 0..cursor - 1 : Word(p + 1) /\ (p = 0 \/ ~Word(p))}
              target == IF starts = {} THEN 0 ELSE CHOOSE p \in starts : \A q \in starts : q <= p
          IN goto(IF Inside(target) = {} THEN target ELSE (CHOOSE i \in Inside(target) : TRUE).at)

move_to_visual_edge ==
    /\ Moves
    /\ LET line == Lines(draft)[CursorRow(draft, cursor)] IN goto(line.start) \/ goto(line.end)

move_to_logical_edge ==
    /\ Moves
    /\ \/ goto(NewlineFrom(draft, cursor))
       \/ LET before == {i \in 1..cursor : draft[i] = "n"}
          IN goto(IF before = {} THEN 0 ELSE CHOOSE i \in before : \A j \in before : j <= i)

\* Up and down keep the column they started from.
CanMove(direction) == CursorRow(draft, cursor) + direction \in 1..Len(Lines(draft))
move_vertical(direction) ==
    LET column == IF preferred >= 0 THEN preferred ELSE CursorColumn(draft, cursor)
        target == AtColumn(Lines(draft)[CursorRow(draft, cursor) + direction], column)
    IN /\ CanMove(direction) /\ preferred' = column
       /\ cursor' = IF Inside(target) = {} THEN target
                    ELSE LET i == CHOOSE i \in Inside(target) : TRUE
                         IN IF direction < 0 THEN i.at ELSE ImageEnd(i)
       /\ follow' = TRUE /\ UNCHANGED <<text, scroll, layout, asides>>

-----------------------------------------------------------------------------
(* The prompt history (history.rs) *)

record(cells) ==
    /\ entries' = Append(IF Len(entries) = MaxPrompts THEN Tail(entries) ELSE entries, cells)
    /\ browsing' = None

\* Up at the first row, or while browsing.
previous ==
    LET at == IF browsing = None THEN Len(entries) ELSE browsing.index
        saved == IF browsing = None THEN draft ELSE browsing.saved
    IN /\ entries # <<>> /\ at > 0
       /\ browsing' = [index |-> at - 1, saved |-> saved]
       /\ replace_draft(entries[at]) /\ UNCHANGED <<entries, sent, aside>>
move_up == Key /\ IF browsing = None /\ CanMove(-1) THEN move_vertical(-1) ELSE previous

next ==
    /\ IF browsing.index + 1 < Len(entries)
       THEN /\ browsing' = [browsing EXCEPT !.index = @ + 1] /\ replace_draft(entries[browsing.index + 2])
       ELSE /\ browsing' = None /\ replace_draft(browsing.saved)
    /\ UNCHANGED <<entries, sent, aside>>
move_down == Key /\ IF browsing = None THEN move_vertical(1) ELSE next

-----------------------------------------------------------------------------
(* Submitting, and drafts put aside *)

\* submission(): the draft without the white space around it, and the images
\* that are still in it.
Trimmed ==
    LET solid == {i \in 1..Len(draft) : draft[i] \notin {"s", "n"}}
        first == CHOOSE i \in solid : \A j \in solid : i <= j
        last == CHOOSE i \in solid : \A j \in solid : j <= i
    IN IF solid = {} THEN Blank
       ELSE [cells |-> SubSeq(draft, first, last),
             images |-> {[i EXCEPT !.at = @ - first + 1] :
                           i \in {im \in images : im.at >= first - 1 /\ ImageEnd(im) <= last}}]

\* Enter: the draft stays until the submission is acknowledged.
IsShell == images = {} /\ draft # <<>> /\ draft[1] = "!"
submit_draft ==
    /\ Key /\ ~IsShell /\ sent = None /\ Trimmed # Blank /\ sent' = Trimmed
    /\ follow' = TRUE /\ UNCHANGED <<text, cursor, preferred, scroll, layout, entries, browsing, aside>>

\* A draft that starts with "!" and has a command in it is run at once.
run_shell ==
    /\ Key /\ IsShell /\ \E i \in 1..Len(draft) : draft[i] \notin White \cup {"!"}
    /\ record(Trimmed.cells) /\ replace_draft(<<>>) /\ UNCHANGED <<sent, aside>>

acknowledge_bug ==
    sent # None /\ record(sent.cells) /\ sent' = None /\ replace_draft(<<>>)
acknowledge_submission ==
    /\ sent # None /\ record(sent.cells) /\ sent' = None
    /\ IF Trimmed = sent THEN replace_draft(<<>>)
       ELSE UNCHANGED <<text, cursor, preferred, scroll, follow, layout>>
acknowledged == acknowledge_submission /\ rendered' = FALSE /\ UNCHANGED <<aside, keys>>

take_draft ==
    /\ Key /\ draft # <<>> /\ aside' = [cells |-> draft, images |-> images, cursor |-> cursor]
    /\ draft' = <<>> /\ images' = {} /\ cursor' = 0 /\ browsing' = None
    /\ preferred' = -1 /\ scroll' = 0 /\ layout' = None /\ UNCHANGED <<follow, entries, sent>>

restore_draft ==
    /\ Key /\ draft = <<>> /\ aside # None
    /\ draft' = aside.cells /\ images' = aside.images /\ cursor' = aside.cursor /\ aside' = None
    /\ browsing' = None /\ scroll' = 0 /\ Edited /\ UNCHANGED <<entries, sent>>

-----------------------------------------------------------------------------
(* Drawing *)

Clamped(s, visible) ==
    LET maximum == IF Len(Lines(draft)) > visible THEN Len(Lines(draft)) - visible ELSE 0
    IN IF s < maximum THEN s ELSE maximum

keep_cursor_visible(row) ==
    Clamped(IF row < scroll THEN row ELSE IF row >= scroll + Rows THEN row + 1 - Rows ELSE scroll, Rows)

\* visual_layout: what is cached for this cursor is used as it is.
Shown == IF layout # None /\ layout.cursor = cursor THEN layout ELSE [cursor |-> cursor, cells |-> draft]
render ==
    /\ ~rendered /\ rendered' = TRUE /\ layout' = Shown
    /\ scroll' = IF follow THEN keep_cursor_visible(CursorRow(Shown.cells, cursor) - 1)
                 ELSE Clamped(scroll, Rows)
    /\ UNCHANGED <<text, cursor, preferred, follow, asides, keys>>

\* The wheel: the view leaves the cursor until the next key.
scroll_selection ==
    /\ Key /\ scroll' \in {Clamped(scroll + 1, Rows), scroll - 1} /\ scroll' # scroll /\ scroll' >= 0
    /\ follow' = FALSE /\ layout' = Shown /\ UNCHANGED <<text, cursor, preferred, asides>>

-----------------------------------------------------------------------------

ComposerNext ==
    \/ insert_text \/ insert_image \/ backspace \/ delete \/ delete_word_before_cursor \/ replace_range
    \/ move_left \/ move_right \/ move_by_word \/ move_to_visual_edge \/ move_to_logical_edge
    \/ move_up \/ move_down \/ submit_draft \/ run_shell \/ acknowledged \/ take_draft \/ restore_draft
    \/ render \/ scroll_selection

ComposerTypeOK ==
    /\ Len(draft) <= MaxCells /\ \A i \in 1..Len(draft) : draft[i] \in Typed \cup {"I", "_", "#"}
    /\ cursor \in 0..Len(draft) /\ preferred \in -1..Width /\ scroll \in 0..MaxCells
    /\ follow \in BOOLEAN /\ rendered \in BOOLEAN /\ keys \in 0..MaxKeys
    /\ Len(entries) <= MaxPrompts
    /\ browsing # None => browsing.index < Len(entries)

\* Every image still has its marker in the draft, whole and where it says,
\* whatever was typed, pasted, deleted or put aside around it.
ImagesWhole ==
    \A i \in images : i.at >= 0 /\ ImageEnd(i) <= Len(draft) /\ SubSeq(draft, i.at + 1, ImageEnd(i)) = Marker

\* Every cell of the draft is on exactly one line of the layout, newlines
\* between the lines, and no line is wider than the composer.
RowsPartition ==
    LET ls == Lines(draft)
    IN /\ \A r \in 1..Len(ls) : ls[r].end - ls[r].start \in 0..Width
       /\ \A i \in 0..Len(draft) - 1 :
             Cardinality({r \in 1..Len(ls) : ls[r].start <= i /\ i < ls[r].end})
               = IF draft[i + 1] = "n" THEN 0 ELSE 1

\* The cached layout is never used for another draft than it was made for.
CacheFresh == layout # None /\ layout.cursor = cursor => layout.cells = draft

\* A frame drawn after a key shows the row of the cursor.
CursorSeen == rendered /\ follow => CursorRow(draft, cursor) - 1 \in scroll..scroll + Rows - 1

\* An acknowledgement takes nothing from the composer but what was sent:
\* text typed or pictures pasted meanwhile stay.
AckTakesSent == acknowledged => Trimmed' \in {Blank, Trimmed} /\ (Trimmed' = Blank => Trimmed \in {Blank, sent})
=============================================================================
