------------------------------- MODULE Screen --------------------------------
(***************************************************************************)
(* One pane of the terminal: RootNode routes keys to the composer, an      *)
(* overlay or a blocking task (tui/components/root.rs), its effects become *)
(* jobs of the event loop, and the answers of the jobs arrive later, when  *)
(* the pane may have moved on (tui/event_loop.rs).                         *)
(*                                                                         *)
(* A draft is a sequence of pieces, the cursor is at its end: what the     *)
(* user typed, an image marker, a mention being typed, the text of a       *)
(* review, or text put there by a choice of the user.                      *)
(***************************************************************************)
EXTENDS Naturals, Sequences, FiniteSets

CONSTANTS
    MaxPieces,   \* the length of a draft
    MaxInputs    \* how many things the user does that change or start something

ASSUME ScreenAssumption == MaxPieces \in Nat \ {0} /\ MaxInputs \in Nat

VARIABLES
    composer,     \* the draft: its pieces, the images attached to it, its reviews
    discarded,    \* discarded_draft, for Ctrl+Z
    queue_edit,   \* the draft put aside while a queued message is edited
    pending,      \* pending_submission
    overlay,      \* the overlay, with the start of the mention it completes
    mention,      \* pending_session_mention
    interactive, blocking, reflection,
    jobs,         \* the jobs whose answer this generation still awaits
    used          \* how many of them were done

screenVars == <<composer, discarded, queue_edit, pending, overlay, mention,
                interactive, blocking, reflection, jobs, used>>

Pieces == {"typed", "image", "at", "review", "chosen"}
\* Overlays that only show something, and the ones that lead to an effect.
OverlayKinds == {"none", "panel", "actions", "settings", "finder", "sessions", "recent", "download"}
JobKinds == {"sessions", "recent", "clear", "preserve", "review", "handoff", "edit", "submit"}

EmptyDraft == [text |-> <<>>, images |-> {}, reviews |-> FALSE]
Drafts == [text : UNION {[1..n -> Pieces] : n \in 0..MaxPieces},
           images : SUBSET (1..MaxPieces), reviews : BOOLEAN]
NoOverlay == [kind |-> "none", start |-> 0]
Overlaid(kind) == [kind |-> kind, start |-> 0]

ScreenTypeOK ==
    /\ {composer} \cup discarded \cup queue_edit \cup pending \subseteq Drafts
    /\ \A s \in {discarded, queue_edit, pending} : Cardinality(s) <= 1
    /\ overlay.kind \in OverlayKinds /\ overlay.start \in 0..MaxPieces
    /\ mention \in 0..MaxPieces /\ interactive \in BOOLEAN /\ reflection \in BOOLEAN
    /\ blocking \in {"none", "Review", "Handoff"} /\ jobs \subseteq JobKinds
    /\ used \in 0..MaxInputs

ScreenInit ==
    /\ composer = EmptyDraft /\ discarded = {} /\ queue_edit = {} /\ pending = {}
    /\ overlay = NoOverlay /\ mention = 0
    /\ interactive = TRUE /\ blocking = "none" /\ reflection = FALSE
    /\ jobs = {} /\ used = 0

Use == used < MaxInputs /\ used' = used + 1

-----------------------------------------------------------------------------
(* The composer, as the pane uses it (composer.rs) *)

Size(d) == Len(d.text)
Insert(d, p) == [d EXCEPT !.text = Append(@, p)]
PasteImage(d) == [Insert(d, "image") EXCEPT !.images = @ \cup {Size(d) + 1}]
\* ReplaceRange from a start up to the cursor: remove_range moves the images
\* behind the range, none here, and touches no other.
ReplaceFrom(d, start, p) == [d EXCEPT !.text = Append(SubSeq(@, 1, start - 1), p)]
ReplaceDraft(p) == [EmptyDraft EXCEPT !.text = <<p>>]
\* take_draft leaves the reviews where they are when there is no text.
taken(d) == IF d.text = <<>> THEN {} ELSE {d}

-----------------------------------------------------------------------------
(* Where a key goes (update_terminal, update_terminal_without_confirmation) *)

Editing == queue_edit # {}
KeysReachComposer ==
    interactive /\ blocking = "none" /\ (Editing \/ overlay.kind = "none")
KeysReachOverlay == interactive /\ blocking = "none" /\ ~Editing
Plain == KeysReachComposer /\ ~Editing
Rests == UNCHANGED <<discarded, queue_edit, pending, mention, interactive, blocking, reflection, jobs>>

\* An ordinary key, or pasted text.
type_text ==
    /\ KeysReachComposer /\ Size(composer) < MaxPieces /\ Use
    /\ composer' = Insert(composer, "typed")
    /\ UNCHANGED overlay /\ Rests

\* The image shortcut is handled before the key is routed; the pane takes the
\* image unless it is blocked or something covers the composer.
paste_image ==
    /\ blocking = "none" /\ overlay.kind = "none" /\ Size(composer) < MaxPieces /\ Use
    /\ composer' = PasteImage(composer)
    /\ UNCHANGED overlay /\ Rests

\* An "@" or a "$" at the start of a word: the key is typed and the finder opens.
open_finder ==
    /\ Plain /\ Size(composer) < MaxPieces /\ Use
    /\ composer' = Insert(composer, "at")
    /\ overlay' = [kind |-> "finder", start |-> Size(composer) + 1]
    /\ Rests

\* The choice replaces what was typed since the "@". Draining a range that
\* starts behind the cursor would panic, so only a mention that is still in
\* the draft can be completed.
finder_insert ==
    /\ KeysReachOverlay /\ overlay.kind = "finder" /\ overlay.start \in 1..Size(composer)
    /\ composer' = ReplaceFrom(composer, overlay.start, "chosen")
    /\ overlay' = NoOverlay /\ UNCHANGED used /\ Rests

\* A second "@", part of the same piece, asks for the sessions instead.
load_session_mentions ==
    /\ KeysReachOverlay /\ overlay.kind = "finder"
    /\ mention' = overlay.start /\ overlay' = NoOverlay
    /\ interactive' = FALSE /\ jobs' = jobs \cup {"sessions"}
    /\ UNCHANGED <<composer, discarded, queue_edit, pending, blocking, reflection, used>>

\* "/" in an empty composer.
open_actions ==
    /\ Plain /\ ~reflection /\ composer.text = <<>>
    /\ overlay' = Overlaid("actions")
    /\ UNCHANGED <<composer, used>> /\ Rests

\* Panels and selectors, from the menu or by a shortcut.
open_panel ==
    /\ overlay' \in {Overlaid("panel"), Overlaid("settings")}
    /\ \/ KeysReachOverlay /\ overlay.kind = "actions"
       \/ Plain /\ overlay'.kind = "settings"
    /\ UNCHANGED <<composer, used>> /\ Rests

\* Escape in an overlay; a session picker also forgets its mention.
dismiss_overlay ==
    /\ KeysReachOverlay /\ overlay.kind # "none"
    /\ overlay' = NoOverlay
    /\ mention' = IF overlay.kind = "sessions" THEN 0 ELSE mention
    /\ UNCHANGED <<composer, discarded, queue_edit, pending, interactive, blocking, reflection, jobs, used>>

\* A job whose answer unlocks the pane.
Await(job) == overlay' = NoOverlay /\ interactive' = FALSE /\ jobs' = jobs \cup {job}

\* A changed effort, fast mode or model means a successor session.
begin_settings_successor ==
    /\ KeysReachOverlay /\ overlay.kind = "settings" /\ Use /\ Await("preserve")
    /\ UNCHANGED <<composer, discarded, queue_edit, pending, mention, blocking, reflection>>

\* New session is refused while something is under way.
open_new_session ==
    /\ KeysReachOverlay /\ overlay.kind = "actions" /\ pending = {} /\ Use /\ Await("clear")
    /\ UNCHANGED <<composer, discarded, queue_edit, pending, mention, blocking, reflection>>

load_sessions ==
    /\ KeysReachOverlay /\ overlay.kind = "actions" /\ Await("sessions") /\ mention' = 0
    /\ UNCHANGED <<composer, discarded, queue_edit, pending, blocking, reflection, used>>

load_recent_prompts ==
    /\ Plain /\ Await("recent")
    /\ UNCHANGED <<composer, discarded, queue_edit, pending, mention, blocking, reflection, used>>

-----------------------------------------------------------------------------
(* Lists arrive, and the user chooses (update_session_picker and others) *)

Unlock(job) == job \in jobs /\ jobs' = jobs \ {job} /\ interactive' = TRUE

sessions_loaded ==
    /\ Unlock("sessions") /\ overlay' = Overlaid("sessions")
    /\ UNCHANGED <<composer, discarded, queue_edit, pending, mention, blocking, reflection, used>>

session_load_failed ==
    /\ Unlock("sessions") /\ mention' = 0
    /\ UNCHANGED <<composer, discarded, queue_edit, pending, overlay, blocking, reflection, used>>

recent_prompts_loaded ==
    /\ Unlock("recent") /\ overlay' \in {overlay, Overlaid("recent")}
    /\ UNCHANGED <<composer, discarded, queue_edit, pending, mention, blocking, reflection, used>>

resume_session ==
    /\ KeysReachOverlay /\ overlay.kind = "sessions" /\ mention = 0 /\ Use /\ Await("clear")
    /\ UNCHANGED <<composer, discarded, queue_edit, pending, mention, blocking, reflection>>

\* As for the finder.
mention_session ==
    /\ KeysReachOverlay /\ overlay.kind = "sessions" /\ mention \in 1..Size(composer) + 1
    /\ Size(composer) < MaxPieces \/ mention <= Size(composer)
    /\ composer' = ReplaceFrom(composer, mention, "chosen")
    /\ overlay' = NoOverlay /\ mention' = 0
    /\ UNCHANGED <<discarded, queue_edit, pending, interactive, blocking, reflection, jobs, used>>

insert_recent_prompt ==
    /\ KeysReachOverlay /\ overlay.kind = "recent"
    /\ composer' = ReplaceDraft("chosen") /\ overlay' = NoOverlay /\ UNCHANGED used /\ Rests

-----------------------------------------------------------------------------
(* Drafts put aside *)

\* Ctrl+C, before the key is routed: also in a pane that awaits a list.
discard_draft ==
    /\ blocking = "none" /\ overlay.kind = "none" /\ composer.text # <<>> /\ Use
    /\ discarded' = taken(composer) /\ composer' = EmptyDraft
    /\ UNCHANGED <<queue_edit, pending, overlay, mention, interactive, blocking, reflection, jobs>>

restore_discarded_draft ==
    /\ Plain /\ composer.text = <<>> /\ discarded # {}
    /\ composer' \in discarded /\ discarded' = {}
    /\ UNCHANGED <<queue_edit, pending, overlay, mention, interactive, blocking, reflection, jobs, used>>

\* The user asks to edit a queued message; its text is fetched first.
edit_queued ==
    /\ Plain /\ "edit" \notin jobs /\ Use /\ jobs' = jobs \cup {"edit"}
    /\ UNCHANGED <<composer, discarded, queue_edit, pending, overlay, mention, interactive, blocking, reflection>>

\* QueueEditReady, whatever the pane does by now.
begin_queue_edit ==
    /\ "edit" \in jobs /\ jobs' = jobs \ {"edit"}
    /\ \/ /\ queue_edit' = {IF composer.text = <<>> THEN EmptyDraft ELSE composer}
          /\ composer' = ReplaceDraft("chosen")
       \/ UNCHANGED <<composer, queue_edit>>
    /\ UNCHANGED <<discarded, pending, overlay, mention, interactive, blocking, reflection, used>>

\* Enter saves or removes the queued message, Escape leaves it.
finish_queue_edit ==
    /\ Editing /\ interactive /\ blocking = "none"
    /\ composer' \in queue_edit /\ queue_edit' = {}
    /\ UNCHANGED <<discarded, pending, overlay, mention, interactive, blocking, reflection, jobs, used>>

\* reset_session: a new RootNode that inherits what can be kept of the drafts.
KeptDraft(reset) == IF reset = "preserve" THEN composer ELSE EmptyDraft
SavedDraft(reset) ==
    IF reset = "preserve" \/ composer.text = <<>> THEN discarded ELSE taken(composer)
reset_session(reset, draft) ==
    /\ composer' = draft /\ discarded' = SavedDraft(reset)
    /\ queue_edit' = {} /\ pending' = {} /\ overlay' = NoOverlay /\ mention' = 0
    /\ interactive' = TRUE /\ blocking' = "none" /\ reflection' = FALSE
    /\ jobs' = {}

\* The successor is there, with the jobs of the old generation behind it.
session_ready ==
    /\ \E reset \in jobs \cap {"clear", "preserve"} :
          reset_session(reset, IF composer.text = <<>> THEN EmptyDraft ELSE KeptDraft(reset))
    /\ UNCHANGED used

session_failed ==
    /\ \E job \in {"clear", "preserve"} : Unlock(job)
    /\ UNCHANGED <<composer, discarded, queue_edit, pending, overlay, mention, blocking, reflection, used>>

-----------------------------------------------------------------------------
(* Submissions and reflections (update_composer, submit_reflection) *)

\* Enter: with a submission pending it only asks for that one again.
submit ==
    /\ Plain /\ ~reflection /\ pending = {} /\ composer.text # <<>> /\ Use
    /\ pending' = {composer} /\ jobs' = jobs \cup {"submit"}
    /\ UNCHANGED <<composer, discarded, queue_edit, overlay, mention, interactive, blocking, reflection>>

retry_submission ==
    /\ Plain /\ ~reflection /\ pending # {} /\ "submit" \notin jobs /\ jobs' = jobs \cup {"submit"}
    /\ UNCHANGED <<composer, discarded, queue_edit, pending, overlay, mention, interactive, blocking, reflection, used>>

begin_reflection ==
    /\ KeysReachOverlay /\ overlay.kind = "actions" /\ overlay' = NoOverlay /\ reflection' = TRUE
    /\ UNCHANGED <<composer, discarded, queue_edit, pending, mention, interactive, blocking, jobs, used>>

\* Enter in a reflection asks neither whether a submission is pending nor
\* whether an overlay is open.
submit_reflection ==
    /\ KeysReachOverlay /\ reflection /\ Use
    /\ pending' = {composer} /\ jobs' = jobs \cup {"submit"} /\ reflection' = FALSE
    /\ UNCHANGED <<composer, discarded, queue_edit, overlay, mention, interactive, blocking>>

\* Escape, before the key is routed: whatever is open or blocks the pane.
cancel_reflection ==
    /\ reflection /\ reflection' = FALSE /\ composer' = EmptyDraft
    /\ UNCHANGED <<discarded, queue_edit, pending, overlay, mention, interactive, blocking, jobs, used>>

\* The composer is cleared only of what was submitted.
Acknowledged(d) == IF d \in pending THEN EmptyDraft ELSE d

SubmissionAcknowledged ==
    /\ "submit" \in jobs /\ jobs' = jobs \ {"submit"}
    /\ composer' = Acknowledged(composer) /\ pending' = {}
    /\ UNCHANGED <<discarded, queue_edit, overlay, mention, interactive, blocking, reflection, used>>

\* Uncertain: the request is kept. Otherwise a reflection is asked for again.
SubmissionFailed ==
    /\ "submit" \in jobs /\ jobs' = jobs \ {"submit"}
    /\ \/ UNCHANGED <<pending, reflection>>
       \/ pending' = {} /\ reflection' \in {reflection, TRUE}
    /\ UNCHANGED <<composer, discarded, queue_edit, overlay, mention, interactive, blocking, used>>

-----------------------------------------------------------------------------
(* Reviews and handoffs block the pane (handle_review_effect) *)

\* ReviewStarted comes first; then the assets are looked for, and when they
\* must be downloaded the user is asked before anything is started.
start_review ==
    /\ KeysReachOverlay /\ overlay.kind \in {"actions", "download"} /\ Use
    /\ \/ blocking' = "Review" /\ jobs' = jobs \cup {"review"} /\ overlay' = NoOverlay
       \/ /\ overlay.kind = "actions"
          /\ blocking' = "Review" /\ UNCHANGED jobs /\ overlay' = Overlaid("download")
       \/ UNCHANGED <<blocking, jobs>> /\ overlay' = NoOverlay
    /\ UNCHANGED <<composer, discarded, queue_edit, pending, mention, interactive, reflection>>

ReviewFinished ==
    /\ "review" \in jobs /\ jobs' = jobs \ {"review"} /\ blocking' = "none"
    /\ Size(composer) < MaxPieces
    /\ composer' = [Insert(composer, "review") EXCEPT !.reviews = TRUE]
    /\ UNCHANGED <<discarded, queue_edit, pending, overlay, mention, interactive, reflection, used>>

ReviewFailed ==
    /\ "review" \in jobs /\ jobs' = jobs \ {"review"} /\ blocking' = "none"
    /\ UNCHANGED <<composer, discarded, queue_edit, pending, overlay, mention, interactive, reflection, used>>

start_handoff ==
    /\ KeysReachOverlay /\ overlay.kind = "actions" /\ Use
    /\ overlay' = NoOverlay /\ blocking' = "Handoff" /\ jobs' = jobs \cup {"handoff"}
    /\ UNCHANGED <<composer, discarded, queue_edit, pending, mention, interactive, reflection>>

\* The session is reset and the prompt of the handoff becomes the draft.
HandoffReady == "handoff" \in jobs /\ reset_session("clear", ReplaceDraft("chosen")) /\ UNCHANGED used

\* Cancelled or failed; a prompt that was ready is offered as the draft.
HandoffFailed ==
    /\ "handoff" \in jobs /\ jobs' = jobs \ {"handoff"} /\ blocking' = "none"
    /\ composer' \in {composer, ReplaceDraft("chosen")}
    /\ UNCHANGED <<discarded, queue_edit, pending, overlay, mention, interactive, reflection, used>>

-----------------------------------------------------------------------------

\* The answers of jobs, which no key of the user decides about.
Answers ==
    \/ sessions_loaded \/ session_load_failed \/ recent_prompts_loaded
    \/ begin_queue_edit \/ session_ready \/ session_failed
    \/ SubmissionAcknowledged \/ SubmissionFailed
    \/ ReviewFinished \/ ReviewFailed \/ HandoffReady \/ HandoffFailed

Keys ==
    \/ type_text \/ paste_image \/ open_finder \/ finder_insert \/ load_session_mentions
    \/ open_actions \/ open_panel \/ dismiss_overlay \/ begin_settings_successor
    \/ open_new_session \/ load_sessions \/ load_recent_prompts
    \/ resume_session \/ mention_session \/ insert_recent_prompt
    \/ discard_draft \/ restore_discarded_draft \/ edit_queued \/ finish_queue_edit
    \/ submit \/ retry_submission \/ begin_reflection \/ submit_reflection \/ cancel_reflection
    \/ start_review \/ start_handoff

ScreenNext == Answers \/ Keys
ScreenSpec == ScreenInit /\ [][ScreenNext]_screenVars

-----------------------------------------------------------------------------

\* A pane that takes no keys awaits an answer that unlocks it, and a pane
\* blocked by a handoff or a review has it running (or asks for a download).
PaneAnswers ==
    /\ ~interactive => jobs \cap {"sessions", "recent", "clear", "preserve"} # {}
    /\ blocking = "Handoff" => "handoff" \in jobs
    /\ blocking = "Review" => "review" \in jobs \/ overlay.kind = "download"

\* An answer that arrives late never takes from the user what he typed or
\* pasted: it is in the composer, put aside for Ctrl+Z or a queue edit, or
\* was in the submission that is acknowledged. (A queue edit that is under
\* way when the session is replaced is lost with the draft behind it.)
Written(d) == {d.text[i] : i \in 1..Size(d)} \cap {"typed", "image"}
WrittenIn(drafts) == UNION {Written(d) : d \in drafts}
AnswersKeepDraft ==
    Answers /\ queue_edit = {}
      => Written(composer) \subseteq WrittenIn({composer'} \cup discarded' \cup queue_edit' \cup pending)

\* The dialog that asks for the download of the review page gets the keys.
DialogAnswerable == overlay.kind = "download" => KeysReachOverlay
=============================================================================
