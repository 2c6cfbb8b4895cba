------------------------------ MODULE Terminal ------------------------------
(***************************************************************************)
(* One pane of the terminal: the composer and the root component           *)
(* (tui/components), the pane record and the jobs of the event loop        *)
(* (tui/event_loop.rs, tui/client.rs), and the durable acknowledgement of  *)
(* input (app/submission.rs).  Jobs run concurrently and report back       *)
(* through one channel; every report names the generation of the pane it   *)
(* was started for.  A session of the host is the generation that shows    *)
(* it.  What the pane shows of the queue is module QueueView.              *)
(***************************************************************************)
EXTENDS Naturals, FiniteSets

CONSTANTS
    Prompts,        \* texts the user may type as a prompt
    Shells,         \* texts the user may type as a shell command
    NoDraft,
    Attempts,       \* calls of acknowledge: 3 in the code
    MaxIds,         \* bound on fresh request IDs for one text
    MaxSessions     \* bound on sessions of the pane

ASSUME TerminalAssumption ==
    /\ NoDraft \notin Prompts \cup Shells /\ Prompts \cap Shells = {}
    /\ {Attempts, MaxIds, MaxSessions} \subseteq Nat \ {0}

VARIABLES
    composer,   \* root component: the draft, the prompt waiting for a receipt
    pane,       \* generation, request kept for a retry, shells sent
    sends,      \* submission jobs
    changing,   \* the session replacement under way: "" or its draft reset
    hostInput,  \* requests the host has, requests that may still reach it
    spent       \* texts typed, texts the user overwrote, fresh IDs

terminalVars == <<composer, pane, sends, changing, hostInput, spent>>

Texts == Prompts \cup Shells
NoId == [of |-> NoDraft, n |-> 0]
Ids == [of : Texts, n : 1..MaxIds]

TerminalTypeOK ==
    /\ composer \in [draft : Texts \cup {NoDraft}, saved : Texts \cup {NoDraft},
                     pending : Prompts \cup {NoDraft}, uncertain : BOOLEAN,
                     interactive : BOOLEAN, shells : 0..Cardinality(Shells) * MaxIds]
    /\ pane \in [generation : 1..MaxSessions, pending : Ids \cup {NoId}, shell : BOOLEAN]
    /\ \A j \in sends : j.out \in {"", "ok", "refused", "unknown"} /\ j.tries <= Attempts
    /\ changing \in {"", "new", "resume", "settings"}
    /\ hostInput.has \cup hostInput.sent \cup hostInput.done \subseteq Ids

FreshPane(g) ==
    [generation |-> g, pending |-> NoId, shell |-> FALSE]

TerminalInit ==
    /\ composer = [draft |-> NoDraft, saved |-> NoDraft, pending |-> NoDraft,
                   uncertain |-> FALSE, interactive |-> TRUE, shells |-> 0]
    /\ pane = FreshPane(1) /\ sends = {} /\ changing = ""
    /\ hostInput = [has |-> {}, sent |-> {}, done |-> {}]
    /\ spent = [typed |-> {}, dropped |-> {}, ids |-> [t \in Texts |-> 0]]

-----------------------------------------------------------------------------
(* The composer *)

\* A new text; it may replace the prompt that waits for its receipt, the user
\* having edited it.
type_text(t) ==
    /\ composer.interactive /\ t \in Texts \ spent.typed
    /\ composer.draft \in {NoDraft, composer.pending}
    /\ composer' = [composer EXCEPT !.draft = t]
    /\ spent' = [spent EXCEPT !.typed = @ \cup {t}, !.dropped = @ \cup {composer.draft}]
    /\ UNCHANGED <<pane, sends, changing, hostInput>>

discard_draft ==
    /\ composer.interactive /\ composer.draft # NoDraft
    /\ composer' = [composer EXCEPT !.saved = composer.draft, !.draft = NoDraft]
    /\ spent' = [spent EXCEPT !.dropped = @ \cup {composer.saved}]
    /\ UNCHANGED <<pane, sends, changing, hostInput>>

restore_discarded_draft ==
    /\ composer.interactive /\ composer.draft = NoDraft /\ composer.saved # NoDraft
    /\ composer' = [composer EXCEPT !.draft = composer.saved, !.saved = NoDraft]
    /\ UNCHANGED <<pane, sends, changing, hostInput, spent>>

SubmissionJob(req) == [generation |-> pane.generation, req |-> req, tries |-> 0, out |-> ""]

\* update_composer: Enter while a prompt waits for its receipt retries the
\* kept request if its fate is uncertain, and does nothing else.
retry_submission ==
    /\ composer.interactive /\ composer.pending # NoDraft /\ composer.uncertain
    /\ composer' = [composer EXCEPT !.uncertain = FALSE]
    /\ sends' = IF pane.pending = NoId THEN sends
                ELSE sends \cup {SubmissionJob(pane.pending)}
    /\ UNCHANGED <<pane, changing, hostInput, spent>>

\* Enter on a prompt: the draft stays until the receipt arrives.
submit_prompt ==
    /\ composer.interactive /\ composer.pending = NoDraft /\ composer.draft \in Prompts
    /\ spent.ids[composer.draft] < MaxIds
    /\ composer' = [composer EXCEPT !.pending = composer.draft, !.uncertain = FALSE]
    /\ sends' = sends \cup {SubmissionJob([of |-> composer.draft, n |-> 0])}
    /\ UNCHANGED <<pane, changing, hostInput, spent>>

\* Enter on "!command": the draft is cleared at once, the request is made here
\* and nothing waits for its receipt.
run_shell ==
    /\ composer.interactive /\ composer.pending = NoDraft /\ composer.draft \in Shells
    /\ LET t == composer.draft IN
        /\ spent.ids[t] < MaxIds
        /\ spent' = [spent EXCEPT !.ids[t] = @ + 1]
        /\ sends' = sends \cup {SubmissionJob([of |-> t, n |-> spent.ids[t] + 1])}
    /\ composer' = [composer EXCEPT !.draft = NoDraft, !.shells = @ + 1]
    /\ pane' = [pane EXCEPT !.shell = TRUE]
    /\ UNCHANGED <<changing, hostInput>>

\* ShellFinished: the record of a command the host has run.
shell_finished(r) ==
    /\ r \in hostInput.has \ hostInput.done /\ r.of \in Shells
    /\ hostInput' = [hostInput EXCEPT !.done = @ \cup {r}]
    /\ composer' = [composer EXCEPT !.shells = IF @ = 0 THEN 0 ELSE @ - 1]
    /\ UNCHANGED <<pane, sends, changing, spent>>

-----------------------------------------------------------------------------
(* dispatch_submission and submissions::acknowledge *)

Report(j, out) == sends' = (sends \ {j}) \cup {[j EXCEPT !.out = out]}

\* intent: the lookup of the task fails, or the request is made.
make_request(j) ==
    /\ j.out = "" /\ j.req.n = 0
    /\ \/ Report(j, "refused") /\ UNCHANGED spent
       \/ /\ spent.ids[j.req.of] < MaxIds
          /\ spent' = [spent EXCEPT !.ids[j.req.of] = @ + 1]
          /\ sends' = (sends \ {j}) \cup {[j EXCEPT !.req.n = spent.ids[j.req.of] + 1]}
    /\ UNCHANGED <<composer, pane, changing, hostInput>>

\* After the last attempt the fate of the request is unknown.
Unanswered(j) == IF j.tries + 1 = Attempts THEN "unknown" ELSE ""

\* One attempt: the call is answered with a receipt or a rejection, or it is
\* not answered and the query that follows finds the request or does not.
acknowledge(j) ==
    /\ j.out = "" /\ j.req.n # 0
    /\ \/ /\ Report(j, "ok")
          /\ hostInput' = [hostInput EXCEPT !.has = @ \cup {j.req}]
       \/ /\ j.req \notin hostInput.has /\ Report(j, "refused")
          /\ UNCHANGED hostInput
       \/ /\ sends' = (sends \ {j}) \cup {[j EXCEPT !.tries = @ + 1, !.out = Unanswered(j)]}
          /\ hostInput' = [hostInput EXCEPT !.sent = @ \cup {j.req}]
    /\ UNCHANGED <<composer, pane, changing, spent>>

\* The host reads a call its client no longer waits for.
late_arrival(r) ==
    /\ r \in hostInput.sent \ hostInput.has
    /\ hostInput' = [hostInput EXCEPT !.has = @ \cup {r}]
    /\ UNCHANGED <<composer, pane, sends, changing, spent>>

-----------------------------------------------------------------------------
(* Update::Submission *)

Here(j) == j.generation = pane.generation

\* SubmissionAcknowledged and SubmissionFailed: a receipt counts for the text
\* it names, a failure for whatever is waiting.
Acknowledged(t) ==
    IF composer.pending # t THEN composer
    ELSE [composer EXCEPT !.pending = NoDraft, !.uncertain = FALSE,
                          !.draft = IF @ = t THEN NoDraft ELSE @]

submission_update(j) ==
    /\ j.out # "" /\ sends' = sends \ {j}
    /\ \/ ~Here(j) /\ UNCHANGED <<composer, pane>>
       \/ /\ Here(j) /\ j.out = "ok"
          /\ pane' = [pane EXCEPT !.pending = NoId]
          /\ composer' = Acknowledged(j.req.of)
       \/ /\ Here(j) /\ j.out = "unknown"
          /\ pane' = [pane EXCEPT !.pending = j.req]
          /\ composer' = [composer EXCEPT !.uncertain = TRUE]
       \/ /\ Here(j) /\ j.out = "refused"
          /\ pane' = [pane EXCEPT !.pending = NoId]
          /\ composer' = [composer EXCEPT !.uncertain = FALSE, !.pending = NoDraft]
    /\ UNCHANGED <<changing, hostInput, spent>>

-----------------------------------------------------------------------------
(* Another session in the same pane *)

\* open_new_session refuses while a prompt waits or a command runs; a session
\* may be resumed, and other settings (begin_settings_successor) asked for, at
\* any time.
CanReplace(kind) == kind = "new" => composer.pending = NoDraft /\ composer.shells = 0

\* The next generation is expected; input is refused until it arrives.
replace_session(kind) ==
    /\ composer.interactive /\ pane.generation < MaxSessions /\ CanReplace(kind)
    /\ changing' = kind /\ composer' = [composer EXCEPT !.interactive = FALSE]
    /\ UNCHANGED <<pane, sends, hostInput, spent>>

\* The host refuses, or the settings cannot be saved.
reject_session_replacement ==
    /\ changing # "" /\ changing' = ""
    /\ composer' = [composer EXCEPT !.interactive = TRUE]
    /\ UNCHANGED <<pane, sends, hostInput, spent>>

\* reset_session: the draft stays or becomes the saved one.
Reset ==
    [draft |-> IF changing = "settings" THEN composer.draft ELSE NoDraft,
     saved |-> IF changing = "settings" \/ composer.draft = NoDraft THEN composer.saved
               ELSE composer.draft,
     pending |-> NoDraft, uncertain |-> FALSE, interactive |-> TRUE, shells |-> 0]

\* handle_session_updates: settings are saved, the component is reset, the
\* pane is replaced (install) and its watch starts.
session_update ==
    /\ changing # "" /\ changing' = ""
    /\ composer' = Reset
    /\ spent' = [spent EXCEPT !.dropped = @ \cup
                    (IF changing # "settings" /\ composer.draft # NoDraft
                     THEN {composer.saved} ELSE {})]
    /\ pane' = FreshPane(pane.generation + 1)
    /\ UNCHANGED <<sends, hostInput>>

SendStep == \E j \in sends : make_request(j) \/ acknowledge(j) \/ submission_update(j)

TerminalNext ==
    \/ \E t \in Texts : type_text(t)
    \/ discard_draft \/ restore_discarded_draft
    \/ retry_submission \/ submit_prompt \/ run_shell
    \/ SendStep
    \/ \E r \in hostInput.sent : late_arrival(r)
    \/ \E r \in hostInput.has : shell_finished(r)
    \/ \E kind \in {"new", "resume", "settings"} : replace_session(kind)
    \/ reject_session_replacement \/ session_update

-----------------------------------------------------------------------------
(* Properties *)

\* A prompt leaves the composer only when the host has it or the user replaced
\* it: not by lost answers, rejections, reports of an earlier session or the
\* replacement of the session.
PromptKept ==
    \A p \in (Prompts \cap spent.typed) \ spent.dropped :
        \/ p \in {composer.draft, composer.saved}
        \/ \E r \in hostInput.has : r.of = p

\* While no shell command is sent from the pane, a prompt that waits for its
\* receipt has a job under way, or its exact request is kept for the retry the
\* user is offered: Enter is never refused for good.
PendingTracked ==
    composer.pending # NoDraft /\ ~pane.shell =>
        \/ composer.uncertain /\ pane.pending.of = composer.pending
        \/ \E j \in sends : j.generation = pane.generation /\ j.req.of = composer.pending
=============================================================================
