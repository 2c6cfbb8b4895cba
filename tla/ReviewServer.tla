---------------------------- MODULE ReviewServer ----------------------------
(***************************************************************************)
(* The server of a local review (bin/orvek/src/review/server.rs, mod.rs):  *)
(* a session of pages, overviews and question threads over one version of  *)
(* the workspace, the handlers that browsers call, which read the session, *)
(* wait for the host or an agent and come back to it, and the agent        *)
(* operations that outlive the browser that asked.  The text of a page is  *)
(* represented by the version of the workspace it was collected at, and a  *)
(* version is never taken twice.  There is one question thread.            *)
(***************************************************************************)
EXTENDS Naturals, Sequences, SequencesExt, FiniteSets

CONSTANTS
    Browsers,       \* connections of browsers, one request each
    Ranges, DefaultRange,
    NoRange,
    PrepareAttempts,\* MAX_PREPARATION_ATTEMPTS: 3 in the code
    MaxPages,       \* MAX_CACHED_PAGES: 8 in the code
    MaxEdits,       \* bound on changes of the workspace
    MaxGenerations, \* bound on refreshes
    MaxAsked        \* bound on requests of the browsers

ASSUME ReviewServerAssumption ==
    /\ DefaultRange \in Ranges /\ NoRange \notin Ranges
    /\ {PrepareAttempts, MaxPages, MaxAsked} \subseteq Nat \ {0}
    /\ {MaxEdits, MaxGenerations} \subseteq Nat

VARIABLES
    workspaceVersion,
    review,        \* ReviewSession
    handlers,      \* by browser: the handler that runs for it
    agentJobs,     \* spawned overview and question tasks, which hold the agent
    asked,         \* requests so far
    verdict        \* the outcome of the review

reviewVars == <<workspaceVersion, review, handlers, agentJobs, asked, verdict>>

Page(range, at) == [range |-> range, at |-> at]
NoThread == [status |-> "none", op |-> 0, range |-> NoRange, messages |-> 0]
NoHandler == [kind |-> "none", stage |-> "", range |-> NoRange, gen |-> 0, version |-> 0,
              at |-> 0, tries |-> 0]

Session(gen, version, at) ==
    [gen |-> gen, version |-> version, default |-> Page(DefaultRange, at), pages |-> <<>>,
     selected |-> Page(DefaultRange, at), overviews |-> {}, activeOverview |-> 0, thread |-> NoThread]

ReviewTypeOK ==
    /\ workspaceVersion \in 0..MaxEdits
    /\ review.gen \in 0..MaxGenerations /\ Len(review.pages) <= MaxPages
    /\ review.thread.status \in {"none", "asking", "idle", "error", "cancelled"}
    /\ \A b \in Browsers : handlers[b].kind \in {"none", "refresh", "range", "overview", "question", "submit"}
    /\ asked \in 0..MaxAsked
    /\ verdict.state \in {"open", "decided", "cancelled"}

\* ReviewService::start: the review was prepared before the server starts.
ReviewInit ==
    /\ workspaceVersion = 0
    /\ review = Session(0, 0, 0)
    /\ handlers = [b \in Browsers |-> NoHandler]
    /\ agentJobs = {} /\ asked = 0
    /\ verdict = [state |-> "open", gen |-> 0, page |-> Page(NoRange, 0)]

edit_workspace ==
    /\ workspaceVersion < MaxEdits
    /\ workspaceVersion' = workspaceVersion + 1
    /\ UNCHANGED <<review, handlers, agentJobs, asked, verdict>>

\* generation_shutdown is cancelled by a refresh and by the end of the review.
Shut(gen) == gen # review.gen \/ verdict.state = "cancelled"

CachedPages == {review.default} \cup {review.pages[i] : i \in DOMAIN review.pages}
PageOf(range) == CHOOSE p \in CachedPages : p.range = range

\* matching_page
Matching(gen, range) ==
    gen = review.gen /\ \E p \in CachedPages : p.range = range

\* BoundedCache::insert; the keys of the cache are distinct.
InsertPage(pages, p) ==
    LET same == {n \in DOMAIN pages : pages[n].range = p.range}
        others == IF same = {} THEN pages ELSE RemoveAt(pages, CHOOSE n \in same : TRUE)
        kept == IF Len(others) < MaxPages THEN others ELSE Tail(others)
    IN  Append(kept, p)

Respond(b) == handlers' = [handlers EXCEPT ![b] = NoHandler]
Continue(b, h) == handlers' = [handlers EXCEPT ![b] = h]

\* A request that is about the session as it is; any other is refused at once.
BeginHandler(b, kind, range, stage) ==
    /\ handlers[b].kind = "none" /\ verdict.state = "open" /\ asked < MaxAsked
    /\ asked' = asked + 1
    /\ Continue(b, [kind |-> kind, stage |-> stage, range |-> range, gen |-> review.gen,
                    version |-> review.version, tries |-> 0,
                    at |-> IF Matching(review.gen, range) THEN PageOf(range).at ELSE 0])

-----------------------------------------------------------------------------
(* refresh_review, one at a time *)

begin_refresh(b) ==
    /\ \A c \in Browsers : handlers[c].kind # "refresh"
    /\ BeginHandler(b, "refresh", DefaultRange, "load")
    /\ UNCHANGED <<workspaceVersion, review, agentJobs, verdict>>

Validated(h) == workspaceVersion = h.version

\* ReviewBackend::prepare: the version, the default page, the version again.
refresh_review(b) ==
    LET h == handlers[b] IN
    /\ h.kind = "refresh"
    /\ CASE Shut(h.gen) -> Respond(b) /\ UNCHANGED review
         [] h.stage = "load" /\ ~Shut(h.gen) ->
              Continue(b, [h EXCEPT !.stage = "collect", !.version = workspaceVersion]) /\ UNCHANGED review
         [] h.stage = "collect" /\ ~Shut(h.gen) ->
              Continue(b, [h EXCEPT !.stage = "validate", !.at = workspaceVersion]) /\ UNCHANGED review
         [] h.stage = "validate" /\ ~Shut(h.gen) ->
              IF Validated(h)
              THEN /\ review.gen < MaxGenerations
                   /\ review' = Session(review.gen + 1, h.version, h.at)
                   /\ Respond(b)
              ELSE /\ IF h.tries + 1 < PrepareAttempts
                      THEN Continue(b, [h EXCEPT !.stage = "load", !.tries = @ + 1])
                      ELSE Respond(b)
                   /\ UNCHANGED review
    /\ UNCHANGED <<workspaceVersion, agentJobs, asked, verdict>>

-----------------------------------------------------------------------------
(* load_range *)

StillThere(h) == h.gen = review.gen

\* A range of the session is shown again, or it is loaded.
begin_range(b, range) ==
    /\ IF Matching(review.gen, range)
       THEN review' = [review EXCEPT !.selected = PageOf(range)] /\ UNCHANGED <<handlers, asked>>
       ELSE BeginHandler(b, "range", range, "check") /\ UNCHANGED review
    /\ UNCHANGED <<workspaceVersion, agentJobs, verdict>>

load_range(b) ==
    LET h == handlers[b] IN
    /\ h.kind = "range"
    /\ CASE h.stage \in {"check", "collect"} ->
              /\ IF Shut(h.gen) \/ (h.stage = "check" /\ workspaceVersion # h.version) THEN Respond(b)
                 ELSE Continue(b, IF h.stage = "check" THEN [h EXCEPT !.stage = "collect"]
                                  ELSE [h EXCEPT !.stage = "recheck", !.at = workspaceVersion])
              /\ UNCHANGED review
         [] h.stage = "recheck" ->
              /\ IF Shut(h.gen) \/ ~Validated(h) THEN Respond(b)
                 ELSE Continue(b, [h EXCEPT !.stage = "insert"])
              /\ UNCHANGED review
         [] h.stage = "insert" ->
              /\ Respond(b)
              /\ review' = IF ~StillThere(h) THEN review
                           ELSE [review EXCEPT !.pages = InsertPage(@, Page(h.range, h.at)),
                                               !.selected = Page(h.range, h.at)]
    /\ UNCHANGED <<workspaceVersion, agentJobs, asked, verdict>>

-----------------------------------------------------------------------------
(* load_overview and ask_question *)

NewJob(kind, range) ==
    [kind |-> kind, op |-> asked + 1, range |-> range, gen |-> review.gen, version |-> review.version,
     at |-> PageOf(range).at, stage |-> "check", result |-> "", cancelled |-> FALSE]

\* Mutant: the agent is not reserved.
AgentFree_bug == TRUE
AgentFree == agentJobs = {}

\* The handler waits for the task it spawned.
Spawn(b, kind, range) ==
    /\ Matching(review.gen, range) /\ AgentFree
    /\ BeginHandler(b, kind, range, "waiting")
    /\ agentJobs' = agentJobs \cup {NewJob(kind, range)}
    /\ UNCHANGED <<workspaceVersion, verdict>>

\* A second browser that asks for an overview that is being generated waits for
\* the same task, one that asks for another is refused.
load_overview(b, range) ==
    /\ \A o \in review.overviews : o.range # range
    /\ \/ /\ Spawn(b, "overview", range)
          /\ review' = [review EXCEPT !.activeOverview = asked + 1]
       \/ /\ \E j \in agentJobs : j.kind = "overview" /\ j.range = range /\ j.gen = review.gen
          /\ BeginHandler(b, "overview", range, "waiting")
          /\ UNCHANGED <<workspaceVersion, review, agentJobs, verdict>>

\* begin_stored_question: a new thread, the same question again after an error
\* or a cancellation, or a follow-up.
BeginThread(range) ==
    LET t == review.thread IN
    [status |-> "asking", op |-> asked + 1, range |-> range,
     messages |-> IF t.status \in {"error", "cancelled"} THEN t.messages ELSE t.messages + 1]

Continues(range) ==
    review.thread.status = "none" \/ (review.thread.range = range /\ review.thread.status # "asking")

ask_question(b, range) ==
    /\ Continues(range)
    /\ Spawn(b, "question", range)
    /\ review' = [review EXCEPT !.thread = BeginThread(range)]

\* run_overview and run_question: the version, the agent, the version again;
\* any of them may fail, and be cancelled.
RunResult(j) ==
    IF Shut(j.gen) \/ j.cancelled THEN {"cancelled"}
    ELSE IF j.stage # "agent" /\ workspaceVersion # j.version THEN {"stale"}
    ELSE {"go", "failed"}

run_agent(j) ==
    /\ j.stage \in {"check", "agent", "recheck"}
    /\ \E r \in RunResult(j) :
         agentJobs' = (agentJobs \ {j}) \cup
            {IF r # "go" THEN [j EXCEPT !.stage = "store", !.result = r]
             ELSE CASE j.stage = "check" -> [j EXCEPT !.stage = "agent"]
                    [] j.stage = "agent" -> [j EXCEPT !.stage = "recheck"]
                    [] OTHER -> [j EXCEPT !.stage = "store", !.result = "ready"]}
    /\ UNCHANGED <<workspaceVersion, review, handlers, asked, verdict>>

\* store_overview_result
StoredOverview(j) ==
    LET cleared == IF review.activeOverview = j.op THEN [review EXCEPT !.activeOverview = 0] ELSE review
    IN  IF j.result = "ready" /\ Matching(j.gen, j.range)
        THEN [cleared EXCEPT !.overviews = @ \cup {Page(j.range, j.at)}] ELSE cleared

ItsThread(j) == review.thread.op = j.op /\ review.gen = j.gen /\ review.thread.range = j.range

\* store_question_result: nothing, if the thread is not there any more.
StoredQuestion(j) ==
    IF ~ItsThread(j) THEN review
    ELSE [review EXCEPT !.thread.status = IF j.result = "ready" /\ ~j.cancelled THEN "idle"
                                          ELSE IF j.cancelled \/ j.result = "cancelled" THEN "cancelled"
                                          ELSE "error",
                        !.thread.messages = IF j.result = "ready" /\ ~j.cancelled THEN @ + 1 ELSE @]

\* The answer goes to the session first, then to the browsers that wait.
store_result(j) ==
    /\ j.stage = "store"
    /\ review' = IF j.kind = "overview" THEN StoredOverview(j) ELSE StoredQuestion(j)
    /\ agentJobs' = agentJobs \ {j}
    /\ handlers' = [b \in Browsers |->
                      IF handlers[b].stage = "waiting" /\ handlers[b].kind = j.kind
                      THEN NoHandler ELSE handlers[b]]
    /\ UNCHANGED <<workspaceVersion, asked, verdict>>

\* cancel_question: the token of the active question.
cancel_question(j) ==
    /\ j.kind = "question" /\ ~j.cancelled /\ j.stage # "store"
    /\ agentJobs' = (agentJobs \ {j}) \cup {[j EXCEPT !.cancelled = TRUE]}
    /\ UNCHANGED <<workspaceVersion, review, handlers, asked, verdict>>

\* The page is reloaded: its handler is dropped, the agent goes on.  (A handler
\* dropped earlier is one that does not go on.)
browser_reload(b) ==
    /\ handlers[b].stage = "waiting"
    /\ Respond(b)
    /\ UNCHANGED <<workspaceVersion, review, agentJobs, asked, verdict>>

-----------------------------------------------------------------------------
(* submit and cancel *)

SubmitMatches(h) == Matching(h.gen, h.range)

begin_submit(b, range) ==
    /\ Matching(review.gen, range)
    /\ BeginHandler(b, "submit", range, "validate")
    /\ UNCHANGED <<workspaceVersion, review, agentJobs, verdict>>

\* The decision names the page as it was when the request came in.
submit(b) ==
    LET h == handlers[b] IN
    /\ h.kind = "submit"
    /\ CASE h.stage = "validate" ->
              /\ IF Shut(h.gen) \/ workspaceVersion # h.version THEN Respond(b)
                 ELSE Continue(b, [h EXCEPT !.stage = "take"])
              /\ UNCHANGED verdict
         [] h.stage = "take" ->
              /\ Respond(b)
              /\ verdict' = IF SubmitMatches(h) /\ verdict.state = "open"
                            THEN [state |-> "decided", gen |-> h.gen, page |-> Page(h.range, h.at)]
                            ELSE verdict
    /\ UNCHANGED <<workspaceVersion, review, agentJobs, asked>>

cancel_review ==
    /\ verdict.state = "open"
    /\ verdict' = [verdict EXCEPT !.state = "cancelled"]
    /\ UNCHANGED <<workspaceVersion, review, handlers, agentJobs, asked>>

ReviewNext ==
    \/ edit_workspace \/ cancel_review
    \/ \E b \in Browsers :
         \/ \E range \in Ranges : \/ begin_range(b, range) \/ begin_submit(b, range)
                                 \/ load_overview(b, range) \/ ask_question(b, range)
         \/ begin_refresh(b) \/ refresh_review(b) \/ load_range(b) \/ submit(b) \/ browser_reload(b)
    \/ \E j \in agentJobs : run_agent(j) \/ store_result(j) \/ cancel_question(j)

-----------------------------------------------------------------------------
(* Properties *)

\* Everything a session shows is of one version of the workspace: the default
\* page, every range loaded later and every overview, although the workspace
\* changes and the session is refreshed while they are collected.
OneVersionShown ==
    /\ \A p \in CachedPages \cup review.overviews : p.at = review.version
    /\ review.selected \in CachedPages

\* A decision is taken once, about a page of the session that is current when
\* it is taken.
DecisionAboutCurrent ==
    verdict'.state = "decided" /\ verdict.state # "decided" =>
      /\ verdict.state = "open" /\ verdict'.gen = review.gen
      /\ verdict'.page \in CachedPages

\* One agent operation at a time.
OneAgentOperation == Cardinality(agentJobs) <= 1

\* A thread waits for an answer only as long as its operation runs, has as many
\* answers as questions when it is idle, and one question more otherwise; an
\* overview is being generated only as long as its operation runs.
ThreadsFollowOperations ==
    LET t == review.thread IN
    /\ t.status = "asking" => \E j \in agentJobs : j.kind = "question" /\ j.op = t.op
    /\ t.status \in {"none", "idle"} <=> t.messages % 2 = 0
    /\ review.activeOverview # 0 =>
         \E j \in agentJobs : j.kind = "overview" /\ j.op = review.activeOverview

-----------------------------------------------------------------------------
(***************************************************************************)
(* The page of a review in one browser (web/review/app.ts, review-state.ts,*)
(* question-state.ts): the session it shows, the requests it has under way *)
(* and what their answers do when they arrive late, fail or belong to an   *)
(* older generation.  The server (above) is its generation and one         *)
(* question thread; another browser may refresh it, and ask in the thread. *)
(* Requests are numbered in one sequence: by says whether the number of an *)
(* operation, a thread or a poll is one of this page, or stands for a      *)
(* question taken over from the server (operation 0 in the code).          *)
(***************************************************************************)
CONSTANTS
    Spans, FirstSpan,   \* ranges of commits, the default one
    NoSpan,
    MaxServerGen,       \* bound on generations of the server
    MaxCalls,           \* bound on requests of the browser
    MaxDisturbed        \* bound on lost requests and on steps of other browsers

ASSUME ReviewBrowserAssumption ==
    FirstSpan \in Spans /\ NoSpan \notin Spans /\ {MaxServerGen, MaxCalls, MaxDisturbed} \subseteq Nat

VARIABLES
    reviewServer,  \* generation and question thread [turn, op]
    ui,        \* the fields of ReviewApp
    calls,     \* requests under way and answers on the way back
    disturbed

browserVars == <<reviewServer, ui, calls, disturbed>>

NoOp == 0
QuestionTurns == {"none", "asking", "idle", "error", "cancelled"}
QuietThread == [turn |-> "none", op |-> NoOp, by |-> "server"]
Operation(kind, op, by) == [kind |-> kind, op |-> op, by |-> by]
NoAgent == Operation("none", NoOp, "server")
NoOverview == [span |-> NoSpan, op |-> NoOp]
Asking(op, by) == [turn |-> "asking", op |-> op, by |-> by]

BrowserTypeOK ==
    /\ reviewServer.gen \in 0..MaxServerGen /\ reviewServer.thread.turn \in QuestionTurns
    /\ ui.gen \in 0..MaxServerGen /\ {ui.loading, ui.overview.span} \subseteq Spans \cup {NoSpan}
    /\ ui.thread.turn \in QuestionTurns /\ ui.agent.kind \in {"none", "overview", "question"}
    /\ ui.next <= MaxCalls + 1 /\ disturbed <= MaxDisturbed

BrowserInit ==
    /\ reviewServer = [gen |-> 0, thread |-> QuietThread]
    /\ ui = [gen |-> 0, page |-> [gen |-> 0, span |-> FirstSpan], loading |-> NoSpan, rangeRequest |-> 0,
             agent |-> NoAgent, overview |-> NoOverview, thread |-> QuietThread, timer |-> FALSE,
             refreshing |-> FALSE, checking |-> FALSE, snapshotStale |-> FALSE,
             generationStale |-> FALSE, overlapped |-> FALSE, next |-> 1]
    /\ calls = {} /\ disturbed = 0

\* A request leaves with the generation the page shows.
Call(gen, kind, span, op, by) ==
    [kind |-> kind, id |-> ui.next, gen |-> gen, span |-> span, op |-> op, by |-> by,
     reply |-> "none", rgen |-> 0, thread |-> QuietThread]

Send(v, rest, kind, span, op, by) ==
    /\ ui.next <= MaxCalls
    /\ calls' = rest \cup {Call(v.gen, kind, span, op, by)}
    /\ ui' = [v EXCEPT !.next = ui.next + 1]

Issue(kind, span, op, v) ==
    /\ Send(v, calls, kind, span, op, v.agent.by)
    /\ UNCHANGED <<reviewServer, disturbed>>

-----------------------------------------------------------------------------
(* What the reviewer does *)

selectRange(span) ==
    /\ ui.loading = NoSpan /\ ui.agent = NoAgent /\ ui.page.span # span
    /\ Issue("range", span, NoOp, [ui EXCEPT !.loading = span, !.rangeRequest = ui.next])

\* An overview of the range shown is asked for once.
Overviewing(v) ==
    [v EXCEPT !.agent = Operation("overview", ui.next, "server"),
              !.overview = [span |-> v.page.span, op |-> ui.next]]

loadOverview ==
    /\ ui.agent = NoAgent /\ ui.overview.span # ui.page.span
    /\ Issue("overview", ui.page.span, ui.next, Overviewing(ui))

\* askDraftQuestion, askFollowUp, retryThreadQuestion and startQuestion ask
\* whether the agent is free, not whether the session is being renewed.
startQuestion ==
    /\ ui.agent = NoAgent /\ ui.thread.turn # "asking"
    /\ Issue("question", ui.page.span, ui.next,
             [ui EXCEPT !.agent = Operation("question", ui.next, "page"), !.thread = Asking(ui.next, "page")])

refreshReview ==
    /\ ~ui.refreshing /\ ui.loading = NoSpan /\ ui.agent = NoAgent
    /\ Issue(IF ui.generationStale THEN "review" ELSE "refresh", NoSpan, NoOp, [ui EXCEPT !.refreshing = TRUE])

checkWorkspaceStatus ==
    /\ ~ui.checking /\ ~ui.refreshing
    /\ Issue("status", NoSpan, NoOp, [ui EXCEPT !.checking = TRUE])

Polling == \E c \in calls : c.kind = "poll"

\* The timer of the poll fires; one poll at a time.
pollQuestions ==
    /\ ui.timer
    /\ IF ui.agent.kind = "question" /\ ~Polling
       THEN Issue("poll", NoSpan, ui.agent.op, [ui EXCEPT !.timer = FALSE])
       ELSE ui' = [ui EXCEPT !.timer = FALSE] /\ UNCHANGED <<reviewServer, calls, disturbed>>

-----------------------------------------------------------------------------
(* The server *)

Answered(c, reply) == [c EXCEPT !.reply = reply, !.rgen = reviewServer'.gen,
                                !.thread = reviewServer'.thread]
Answer(c, reply) == calls' = (calls \ {c}) \cup {Answered(c, reply)}

\* The next generation; the questions of the last one are cancelled.
Regenerated(cs) ==
    {IF c.reply = "running" THEN [c EXCEPT !.reply = "operation_cancelled"] ELSE c : c \in cs}

NextGeneration ==
    /\ reviewServer.gen < MaxServerGen
    /\ reviewServer' = [gen |-> reviewServer.gen + 1, thread |-> QuietThread]

serve(c) ==
    /\ c.reply = "none" /\ UNCHANGED <<ui, disturbed>>
    /\ CASE c.kind \in {"review", "status"} -> UNCHANGED reviewServer /\ Answer(c, "ok")
         [] c.kind \notin {"review", "status"} /\ c.gen # reviewServer.gen ->
              UNCHANGED reviewServer /\ Answer(c, "stale_snapshot")
         [] c.kind = "refresh" /\ c.gen = reviewServer.gen ->
              NextGeneration /\ calls' = Regenerated(calls \ {c}) \cup {Answered(c, "ok")}
         [] c.kind \in {"range", "overview"} /\ c.gen = reviewServer.gen ->
              UNCHANGED reviewServer /\ (Answer(c, "ok") \/ Answer(c, "failed"))
         [] c.kind = "poll" /\ c.gen = reviewServer.gen -> UNCHANGED reviewServer /\ Answer(c, "ok")
         [] c.kind = "question" /\ c.gen = reviewServer.gen ->
              \/ /\ reviewServer.thread.turn # "asking"
                 /\ reviewServer' = [reviewServer EXCEPT !.thread = Asking(c.op, "server")]
                 /\ calls' = (calls \ {c}) \cup {[c EXCEPT !.reply = "running"]}
              \/ UNCHANGED reviewServer /\ Answer(c, "failed")

\* The agent answers, fails or is stopped; the handler returns if it is there.
server_settles(turn) ==
    LET waiting == {c \in calls : c.reply = "running" /\ c.op = reviewServer.thread.op} IN
    /\ reviewServer.thread.turn = "asking"
    /\ reviewServer' = [reviewServer EXCEPT !.thread.turn = turn]
    /\ calls' = (calls \ waiting) \cup
          {[c EXCEPT !.reply = IF turn = "idle" THEN "ok"
                               ELSE IF turn = "cancelled" THEN "operation_cancelled" ELSE "failed",
                     !.rgen = reviewServer.gen] : c \in waiting}
    /\ UNCHANGED <<ui, disturbed>>

\* Another browser refreshes the review: a running question is cancelled.
other_refreshes ==
    /\ disturbed < MaxDisturbed /\ disturbed' = disturbed + 1
    /\ NextGeneration /\ calls' = Regenerated(calls)
    /\ UNCHANGED ui

OtherOp == MaxCalls + 1

\* Another browser asks again in the same thread.
other_asks ==
    /\ reviewServer.thread.turn # "asking" /\ disturbed < MaxDisturbed
    /\ disturbed' = disturbed + 1
    /\ reviewServer' = [reviewServer EXCEPT !.thread = Asking(OtherOp, "server")]
    /\ UNCHANGED <<ui, calls>>

network_error(c) ==
    /\ c.reply \in {"none", "running", "ok"} /\ disturbed < MaxDisturbed
    /\ disturbed' = disturbed + 1
    /\ calls' = (calls \ {c}) \cup {[c EXCEPT !.reply = "network_error"]}
    /\ UNCHANGED <<reviewServer, ui>>

-----------------------------------------------------------------------------
(* Answers *)

RangeFits(c) == c.rgen = ui.gen

\* installPage and setRangeReady; an answer that is not awaited any more is
\* dropped.
range_arrives(c) ==
    ui' = IF c.id # ui.rangeRequest THEN ui
          ELSE IF c.reply = "ok" /\ RangeFits(c)
          THEN [ui EXCEPT !.loading = NoSpan, !.page = [gen |-> c.rgen, span |-> c.span]]
          ELSE [ui EXCEPT !.loading = NoSpan]

overview_arrives(c) ==
    ui' = IF c.op # ui.overview.op THEN ui
          ELSE [ui EXCEPT !.overview = NoOverview,
                          !.agent = IF @ = Operation("overview", c.op, "server") THEN NoAgent ELSE @]

\* sendQuestion: the network is not the server; the poll finds out.  A thread
\* that was taken over from the server is another object.
question_arrives(c) ==
    LET settled(turn) ==
            [ui EXCEPT !.thread = IF @ = Asking(c.op, "page") THEN [@ EXCEPT !.turn = turn] ELSE @,
                       !.agent = IF @ = Operation("question", c.op, "page") THEN NoAgent ELSE @]
    IN  ui' = CASE c.reply = "network_error" -> [ui EXCEPT !.timer = TRUE]
                [] c.reply = "ok" -> settled("idle")
                [] c.reply = "operation_cancelled" -> settled("cancelled")
                [] c.reply = "stale_snapshot" -> [settled("error") EXCEPT !.snapshotStale = TRUE]
                [] OTHER -> settled("error")

\* The poll goes on as long as a question is under way.
Reschedule(v) == [v EXCEPT !.timer = v.timer \/ v.agent.kind = "question"]

Outdated(v) == [v EXCEPT !.agent = NoAgent, !.generationStale = TRUE, !.snapshotStale = TRUE]

\* The answer is about the operation the poll was sent for (c.op, c.by), what
\* it changes is the operation of the page.
poll_arrives(c) ==
    LET polled ==
          CASE c.reply = "stale_snapshot" \/ (c.reply = "ok" /\ c.rgen # ui.gen) -> Outdated(ui)
            [] c.reply = "ok" /\ c.rgen = ui.gen /\ c.thread.turn = "none" ->
                 [ui EXCEPT !.agent = NoAgent,
                            !.thread = IF @ = Asking(c.op, c.by) THEN [@ EXCEPT !.turn = "error"] ELSE @]
            [] c.reply = "ok" /\ c.rgen = ui.gen /\ c.thread.turn = "asking" ->
                 IF c.thread.op = c.op THEN ui
                 ELSE [ui EXCEPT !.thread = c.thread, !.agent = Operation("question", c.thread.op, "server")]
            [] c.reply = "ok" /\ c.rgen = ui.gen /\ c.thread.turn \notin {"none", "asking"} ->
                 [ui EXCEPT !.agent = NoAgent, !.thread = c.thread]
            [] OTHER -> ui
    IN  ui' = Reschedule(polled)

status_arrives(c) ==
    \E changed \in BOOLEAN :
        ui' = IF c.gen # ui.gen \/ c.reply # "ok" THEN [ui EXCEPT !.checking = FALSE]
              ELSE IF c.rgen # ui.gen
              THEN [ui EXCEPT !.checking = FALSE, !.generationStale = TRUE, !.snapshotStale = TRUE]
              ELSE [ui EXCEPT !.checking = FALSE, !.generationStale = FALSE, !.snapshotStale = changed]

\* restoreActiveQuestion: a question that runs is followed, and its range is
\* loaded if it is another one.
Followed(v) == [v EXCEPT !.agent = Operation("question", v.thread.op, "server"), !.timer = TRUE]

restoreActiveQuestion(v, rest) ==
    \E span \in Spans :
        IF span = v.page.span \/ v.loading # NoSpan THEN ui' = Followed(v) /\ calls' = rest
        ELSE Send([Followed(v) EXCEPT !.loading = span, !.rangeRequest = ui.next],
                  rest, "range", span, NoOp, "server")

\* An overview that the server is generating of the range shown is awaited.
restoreOverview(v, rest) ==
    IF v.overview.span = v.page.span THEN ui' = v /\ calls' = rest
    ELSE Send(Overviewing(v), rest, "overview", v.page.span, ui.next, "server")

\* restoreAgentOperation: the server has one operation at most, and a new
\* generation has none.
Resumed(v, rest, kind) ==
    \/ v.thread.turn = "asking" /\ restoreActiveQuestion(v, rest)
    \/ v.thread.turn # "asking" /\ ui' = v /\ calls' = rest
    \/ v.thread.turn # "asking" /\ kind = "review" /\ restoreOverview(v, rest)

\* A question of the session shown is still under way.
QuestionUnderWay == ui.timer \/ \E c \in calls : c.kind \in {"question", "poll"}

\* installSession: the threads of the old session are forgotten, and the page
\* is the default one or the one selected at the server; the operation and the
\* timer of the page stay.
Installed(c, span) ==
    [ui EXCEPT !.refreshing = FALSE, !.gen = c.rgen, !.thread = c.thread,
               !.page = [gen |-> c.rgen, span |-> span], !.overlapped = QuestionUnderWay,
               !.snapshotStale = FALSE, !.generationStale = FALSE]

refresh_arrives(c) ==
    IF c.reply # "ok" THEN ui' = [ui EXCEPT !.refreshing = FALSE] /\ calls' = calls \ {c}
    ELSE \E span \in IF c.kind = "refresh" THEN {FirstSpan} ELSE Spans :
             Resumed(Installed(c, span), calls \ {c}, c.kind)

arrives(c) ==
    /\ c.reply \notin {"none", "running"}
    /\ \/ c.kind \in {"refresh", "review"} /\ refresh_arrives(c)
       \/ /\ calls' = calls \ {c}
          /\ \/ c.kind = "range" /\ range_arrives(c)
             \/ c.kind = "overview" /\ overview_arrives(c)
             \/ c.kind = "question" /\ question_arrives(c)
             \/ c.kind = "poll" /\ poll_arrives(c)
             \/ c.kind = "status" /\ status_arrives(c)
    /\ UNCHANGED <<reviewServer, disturbed>>

BrowserNext ==
    \/ \E s \in Spans : selectRange(s)
    \/ loadOverview \/ startQuestion \/ refreshReview \/ checkWorkspaceStatus \/ pollQuestions
    \/ \E c \in calls : serve(c) \/ network_error(c) \/ arrives(c)
    \/ \E turn \in {"idle", "error", "cancelled"} : server_settles(turn)
    \/ other_refreshes \/ other_asks

-----------------------------------------------------------------------------
(* Properties *)

\* The page shown is of the session shown, whatever arrives late: comments,
\* questions and the decision are about one generation.
PageOfSession == ui.page.gen = ui.gen

\* A question of the current generation that is shown as being answered is the
\* operation of the page, which ControlsComeBack follows to its end: by the
\* request, the poll or its timer, also when the question was taken over from
\* another browser.  The exception the code leaves is a session installed over
\* a question that was still under way (asked while the refresh was out): a
\* late poll of that question ends whatever operation the page has by then.
QuestionFollowed ==
    ui.thread.turn = "asking" =>
        \/ ui.gen # reviewServer.gen \/ ui.overlapped
        \/ ui.agent = Operation("question", ui.thread.op, ui.thread.by)

\* The page is blocked only as long as something is on the way: the answer
\* that sets it free is still to come.
ControlsComeBack ==
    /\ ui.loading # NoSpan => \E c \in calls : c.kind = "range" /\ c.id = ui.rangeRequest
    /\ ui.refreshing => \E c \in calls : c.kind \in {"refresh", "review"}
    /\ ui.agent.kind = "overview" => \E c \in calls : c.kind = "overview" /\ c.op = ui.agent.op
    /\ ui.agent.kind = "question" =>
          \/ ui.timer \/ Polling
          \/ ui.agent.by = "page" /\ \E c \in calls : c.kind = "question" /\ c.op = ui.agent.op
=============================================================================
