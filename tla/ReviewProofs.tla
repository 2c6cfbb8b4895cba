---------------------------- MODULE ReviewProofs ----------------------------
(***************************************************************************)
(* Proofs about a local review and about its page in a browser (module     *)
(* ReviewServer), for any number of browsers, ranges, edits, refreshes,    *)
(* requests and lost answers.                                              *)
(*                                                                         *)
(* The review: a handler that comes back to the generation it left finds   *)
(* the version it left, what it collected between two equal versions is of *)
(* both, and the thread or overview that waits, waits for the one agent    *)
(* operation there is.  The page: what follows a question is its timer or  *)
(* one request, of the session shown, unless the session was installed     *)
(* over a question under way; one request renews the session.              *)
(***************************************************************************)
EXTENDS ReviewServer, FiniteSetTheorems, SequenceTheorems, TLAPS

-----------------------------------------------------------------------------
(* The review session. *)

PageSet == [range : Ranges, at : Nat]
ThreadRow ==
    [status : {"none", "asking", "idle", "error", "cancelled"}, op : Nat,
     range : Ranges \cup {NoRange}, messages : Nat]
ReviewRow ==
    [gen : 0..MaxGenerations, version : Nat, default : PageSet, pages : Seq(PageSet),
     selected : PageSet, overviews : SUBSET PageSet, activeOverview : Nat, thread : ThreadRow]
HandlerStages ==
    {"", "load", "collect", "validate", "check", "recheck", "insert", "waiting", "take"}
HandlerRow ==
    [kind : {"none", "refresh", "range", "overview", "question", "submit"}, stage : HandlerStages,
     range : Ranges \cup {NoRange}, gen : Nat, version : Nat, at : Nat, tries : Nat]
JobRow ==
    [kind : {"overview", "question"}, op : Nat, range : Ranges, gen : Nat, version : Nat, at : Nat,
     stage : {"check", "agent", "recheck", "store"},
     result : {"", "ready", "failed", "stale", "cancelled"}, cancelled : BOOLEAN]
VerdictRow ==
    [state : {"open", "decided", "cancelled"}, gen : Nat,
     page : [range : Ranges \cup {NoRange}, at : Nat]]

ReviewTypes ==
    /\ workspaceVersion \in 0..MaxEdits /\ review \in ReviewRow
    /\ handlers \in [Browsers -> HandlerRow] /\ agentJobs \subseteq JobRow
    /\ asked \in 0..MaxAsked /\ verdict \in VerdictRow
    /\ Len(review.pages) <= MaxPages /\ review.version <= workspaceVersion

\* What a handler relies on when it comes back to the session of generation g
\* and version v, with the workspace at w: a handler of this generation works on
\* this version, and what it collected between two equal versions is of both.
HandlerOk(h, g, v, w) ==
    /\ h.kind # "none" => h.range \in Ranges /\ h.gen <= g /\ h.version <= w
    /\ h.kind = "refresh" => h.stage \in {"load", "collect", "validate"}
    /\ h.kind = "range" => h.stage \in {"check", "collect", "recheck", "insert"}
    /\ h.kind = "submit" => h.stage \in {"validate", "take"}
    /\ h.kind \in {"range", "submit"} /\ h.gen = g => h.version = v
    /\ h.kind = "submit" /\ h.gen = g => h.at = v
    /\ h.kind = "refresh" /\ h.stage = "validate" => h.version <= h.at /\ h.at <= w
    /\ h.kind = "range" /\ h.stage = "recheck" => h.version <= h.at /\ h.at <= w
    /\ h.kind = "range" /\ h.stage = "insert" => h.at = h.version

\* The agent works for the session of its generation, and the thread it works
\* for is waiting for it.
JobOk(j, r, n) ==
    /\ j.gen <= r.gen /\ j.op > 0 /\ j.op <= n
    /\ j.gen = r.gen => j.at = r.version
    /\ j.kind = "question" /\ j.op = r.thread.op => r.thread.status = "asking"

ThreadOk(t, running, g, n) ==
    /\ t.op <= n
    /\ t.status = "asking" =>
          \E j \in running : j.kind = "question" /\ j.op = t.op /\ j.gen = g /\ j.range = t.range
    /\ t.status \in {"none", "idle"} <=> t.messages % 2 = 0

OverviewOk(op, running) == op # 0 => \E j \in running : j.kind = "overview" /\ j.op = op

Lonely(running) == \A j, k \in running : j = k

ReviewInv ==
    /\ ReviewTypes /\ OneVersionShown
    /\ \A b \in Browsers : HandlerOk(handlers[b], review.gen, review.version, workspaceVersion)
    /\ Lonely(agentJobs) /\ \A j \in agentJobs : JobOk(j, review, asked)
    /\ ThreadOk(review.thread, agentJobs, review.gen, asked)
    /\ OverviewOk(review.activeOverview, agentJobs)

\* The constants of the review.
LEMMA ReviewConstants ==
    /\ DefaultRange \in Ranges /\ NoRange \notin Ranges
    /\ PrepareAttempts \in Nat \ {0} /\ MaxPages \in Nat \ {0} /\ MaxAsked \in Nat \ {0}
    /\ MaxEdits \in Nat /\ MaxGenerations \in Nat
BY ReviewServerAssumption

\* A session that has just been prepared.
LEMMA SessionFacts ==
    \A g \in 0..MaxGenerations, v, a \in Nat :
        LET r == Session(g, v, a) IN
        /\ r \in ReviewRow /\ r.gen = g /\ r.version = v /\ r.pages = <<>> /\ r.overviews = {}
        /\ r.default = Page(DefaultRange, a) /\ r.selected = Page(DefaultRange, a)
        /\ r.default.at = a /\ r.activeOverview = 0 /\ r.thread = NoThread
<1> TAKE g \in 0..MaxGenerations, v, a \in Nat
<1>1. NoThread \in ThreadRow
  BY DEF NoThread, ThreadRow
<1>2. PICK t \in ThreadRow : t = NoThread
  BY <1>1
<1>3. Page(DefaultRange, a) \in PageSet /\ Page(DefaultRange, a).at = a
  BY ReviewConstants DEF Page, PageSet
<1>4. PICK p \in PageSet : p = Page(DefaultRange, a) /\ p.at = a
  BY <1>3
<1>5. PICK h \in Seq(PageSet) : h = <<>>
  <2>1. <<>> \in Seq(PageSet)
    OBVIOUS
  <2> QED BY <2>1, Zenon
<1>6. LET r == [gen |-> g, version |-> v, default |-> p, pages |-> h, selected |-> p,
                overviews |-> {}, activeOverview |-> 0, thread |-> t]
      IN  /\ r \in ReviewRow /\ r.gen = g /\ r.version = v /\ r.pages = h /\ r.overviews = {}
          /\ r.default = p /\ r.selected = p /\ r.activeOverview = 0 /\ r.thread = t
  BY DEF ReviewRow
<1>7. Session(g, v, a) =
        [gen |-> g, version |-> v, default |-> p, pages |-> h, selected |-> p,
         overviews |-> {}, activeOverview |-> 0, thread |-> t]
  BY <1>2, <1>4, <1>5, Zenon DEF Session
<1> QED BY <1>2, <1>4, <1>5, <1>6, <1>7, Zenon

\* A browser for which nothing runs.
LEMMA NoHandlerFacts ==
    /\ NoHandler \in HandlerRow /\ NoHandler.kind = "none" /\ NoHandler.stage = ""
    /\ \A g, v, w : HandlerOk(NoHandler, g, v, w)
BY DEF NoHandler, HandlerRow, HandlerStages, HandlerOk

\* What a job records.
LEMMA JobFacts ==
    \A j \in JobRow : /\ j.op \in Nat /\ j.gen \in Nat /\ j.at \in Nat /\ j.range \in Ranges
                      /\ j.kind \in {"overview", "question"}
BY DEF JobRow

\* A thread nobody has opened.
LEMMA NoThreadFacts ==
    NoThread \in ThreadRow /\ NoThread.op = 0 /\ NoThread.status = "none" /\ NoThread.messages = 0
BY DEF NoThread, ThreadRow

\* A session that has just been prepared shows one version and waits for nobody.
LEMMA NewSession ==
    ASSUME NEW g \in 0..MaxGenerations, NEW v \in Nat, review = Session(g, v, v)
    PROVE  OneVersionShown
<1>1. /\ review.pages = <<>> /\ review.overviews = {} /\ review.default.at = v
      /\ review.version = v /\ review.selected = review.default
  BY SessionFacts
<1>2. CachedPages = {review.default}
  BY <1>1 DEF CachedPages
<1> QED BY <1>1, <1>2 DEF OneVersionShown

\* The review was prepared before the server starts.
LEMMA ReviewStart == ReviewInit => ReviewInv
<1> SUFFICES ASSUME ReviewInit PROVE ReviewInv
  OBVIOUS
<1>1. /\ review \in ReviewRow /\ review.gen = 0 /\ review.version = 0 /\ Len(review.pages) = 0
      /\ review.activeOverview = 0 /\ review.thread = NoThread /\ OneVersionShown
  BY SessionFacts, NewSession, ReviewConstants DEF ReviewInit
<1>2. ReviewTypes
  <2>1. verdict \in VerdictRow
    BY DEF ReviewInit, VerdictRow, Page
  <2>2. handlers \in [Browsers -> HandlerRow]
    BY NoHandlerFacts DEF ReviewInit
  <2>3. workspaceVersion = 0 /\ agentJobs = {} /\ asked = 0
    BY DEF ReviewInit
  <2> QED BY <1>1, <2>1, <2>2, <2>3, ReviewConstants DEF ReviewTypes
<1>3. \A b \in Browsers : HandlerOk(handlers[b], review.gen, review.version, workspaceVersion)
  BY NoHandlerFacts DEF ReviewInit
<1>4. ThreadOk(review.thread, agentJobs, review.gen, asked)
  BY <1>1, NoThreadFacts DEF ThreadOk, ReviewInit
<1>5. OverviewOk(review.activeOverview, agentJobs)
  BY <1>1 DEF OverviewOk
<1> QED BY <1>1, <1>2, <1>3, <1>4, <1>5 DEF ReviewInv, Lonely, ReviewInit

\* The page of a range that the session holds.
LEMMA PageFacts ==
    ASSUME ReviewInv, NEW range, Matching(review.gen, range)
    PROVE  /\ PageOf(range) \in CachedPages /\ PageOf(range).range = range
           /\ PageOf(range).at = review.version /\ PageOf(range) \in PageSet /\ range \in Ranges
<1>1. PageOf(range) \in CachedPages /\ PageOf(range).range = range
  BY DEF Matching, PageOf
<1>2. CachedPages \subseteq PageSet
  BY DEF ReviewInv, ReviewTypes, ReviewRow, CachedPages
<1>3. \A p \in PageSet : p.range \in Ranges
  BY DEF PageSet
<1> QED BY <1>1, <1>2, <1>3 DEF ReviewInv, OneVersionShown

\* Only a handler has gone on, or begun, or ended.
LEMMA HandlerStep ==
    ASSUME ReviewInv, NEW b \in Browsers, NEW h \in HandlerRow,
           HandlerOk(h, review.gen, review.version, workspaceVersion),
           handlers' = [handlers EXCEPT ![b] = h],
           UNCHANGED <<workspaceVersion, review, agentJobs>>,
           asked' \in 0..MaxAsked, asked <= asked',
           verdict' \in VerdictRow
    PROVE  ReviewInv'
<1>1. ReviewTypes'
  <2>1. handlers' \in [Browsers -> HandlerRow]
    BY DEF ReviewInv, ReviewTypes
  <2> QED BY <2>1 DEF ReviewInv, ReviewTypes
<1>2. \A c \in Browsers :
        HandlerOk(handlers[c], review.gen, review.version, workspaceVersion)'
  BY DEF ReviewInv, ReviewTypes
<1>3. OneVersionShown'
  BY DEF ReviewInv, OneVersionShown, CachedPages
<1>4. asked \in Nat /\ asked' \in Nat /\ \A j \in agentJobs : j.op \in Nat
  BY ReviewConstants, JobFacts DEF ReviewInv, ReviewTypes
<1>5. \A j \in agentJobs' : JobOk(j, review', asked')
  BY <1>4 DEF ReviewInv, JobOk
<1>6. review.thread.op \in Nat
  BY DEF ReviewInv, ReviewTypes, ReviewRow, ThreadRow
<1>7. ThreadOk(review.thread, agentJobs, review.gen, asked)'
  BY <1>4, <1>6 DEF ReviewInv, ThreadOk
<1> QED BY <1>1, <1>2, <1>3, <1>5, <1>7 DEF ReviewInv

\* The handler of a request that has just come in.
Incoming(kind, range, stage) ==
    [kind |-> kind, stage |-> stage, range |-> range, gen |-> review.gen,
     version |-> review.version, tries |-> 0,
     at |-> IF Matching(review.gen, range) THEN PageOf(range).at ELSE 0]

\* It is about the session as it is, and about its version.
LEMMA IncomingFacts ==
    ASSUME ReviewInv, NEW range \in Ranges,
           NEW kind \in {"refresh", "range", "overview", "question", "submit"},
           NEW stage \in {"load", "check", "waiting", "validate"},
           kind = "refresh" => stage = "load", kind = "range" => stage = "check",
           kind = "submit" => stage = "validate" /\ Matching(review.gen, range)
    PROVE  /\ Incoming(kind, range, stage) \in HandlerRow
           /\ HandlerOk(Incoming(kind, range, stage), review.gen, review.version, workspaceVersion)
<1>1. review.gen \in Nat /\ review.version \in Nat /\ review.version <= workspaceVersion
  BY ReviewConstants DEF ReviewInv, ReviewTypes, ReviewRow
<1>2. PICK a \in Nat : /\ a = IF Matching(review.gen, range) THEN PageOf(range).at ELSE 0
                       /\ Matching(review.gen, range) => a = review.version
  <2>1. CASE Matching(review.gen, range)
    BY <1>1, <2>1, PageFacts
  <2>2. CASE ~Matching(review.gen, range)
    BY <2>2
  <2> QED BY <2>1, <2>2
<1>3. Incoming(kind, range, stage) =
        [kind |-> kind, stage |-> stage, range |-> range, gen |-> review.gen,
         version |-> review.version, tries |-> 0, at |-> a]
  BY <1>2, Zenon DEF Incoming
<1>4. Incoming(kind, range, stage) \in HandlerRow
  <2>1. [kind |-> kind, stage |-> stage, range |-> range, gen |-> review.gen,
         version |-> review.version, tries |-> 0, at |-> a] \in HandlerRow
    BY <1>1 DEF HandlerRow, HandlerStages
  <2> QED BY <1>3, <2>1
<1>5. HandlerOk([kind |-> kind, stage |-> stage, range |-> range, gen |-> review.gen,
                 version |-> review.version, tries |-> 0, at |-> a],
                review.gen, review.version, workspaceVersion)
  BY <1>1, <1>2 DEF HandlerOk
<1> QED BY <1>3, <1>4, <1>5

\* What BeginHandler does.
LEMMA BeginFacts ==
    ASSUME ReviewInv, NEW b \in Browsers, NEW kind, NEW range, NEW stage,
           BeginHandler(b, kind, range, stage)
    PROVE  /\ handlers' = [handlers EXCEPT ![b] = Incoming(kind, range, stage)]
           /\ asked' = asked + 1 /\ asked' \in 0..MaxAsked /\ asked \in Nat
           /\ verdict.state = "open"
<1>1. asked \in 0..MaxAsked /\ asked < MaxAsked
  BY DEF ReviewInv, ReviewTypes, BeginHandler
<1> QED BY <1>1, ReviewConstants DEF BeginHandler, Continue, Incoming

\* What a handler records.
LEMMA HandlerFacts ==
    \A h \in HandlerRow : h.gen \in Nat /\ h.version \in Nat /\ h.at \in Nat /\ h.tries \in Nat
BY DEF HandlerRow

\* A handler that goes on.
Staged(h, s) == [h EXCEPT !.stage = s]
Versioned(h, s, v) == [h EXCEPT !.stage = s, !.version = v]
Collected(h, s, a) == [h EXCEPT !.stage = s, !.at = a]
Tried(h, s, n) == [h EXCEPT !.stage = s, !.tries = n]
LEMMA StagedFacts ==
    \A h \in HandlerRow, s \in HandlerStages, n \in Nat :
        /\ /\ Staged(h, s) \in HandlerRow /\ Staged(h, s).kind = h.kind
           /\ Staged(h, s).stage = s /\ Staged(h, s).range = h.range /\ Staged(h, s).gen = h.gen
           /\ Staged(h, s).version = h.version /\ Staged(h, s).at = h.at
        /\ /\ Versioned(h, s, n) \in HandlerRow /\ Versioned(h, s, n).kind = h.kind
           /\ Versioned(h, s, n).stage = s /\ Versioned(h, s, n).range = h.range
           /\ Versioned(h, s, n).gen = h.gen /\ Versioned(h, s, n).version = n
        /\ /\ Collected(h, s, n) \in HandlerRow /\ Collected(h, s, n).kind = h.kind
           /\ Collected(h, s, n).stage = s /\ Collected(h, s, n).range = h.range
           /\ Collected(h, s, n).gen = h.gen /\ Collected(h, s, n).version = h.version
           /\ Collected(h, s, n).at = n
<1> TAKE h \in HandlerRow, s \in HandlerStages, n \in Nat
<1>1. /\ Staged(h, s) \in HandlerRow /\ Staged(h, s).kind = h.kind
      /\ Staged(h, s).stage = s /\ Staged(h, s).range = h.range /\ Staged(h, s).gen = h.gen
      /\ Staged(h, s).version = h.version /\ Staged(h, s).at = h.at
  BY DEF HandlerRow, Staged
<1>2. /\ Versioned(h, s, n) \in HandlerRow /\ Versioned(h, s, n).kind = h.kind
      /\ Versioned(h, s, n).stage = s /\ Versioned(h, s, n).range = h.range
      /\ Versioned(h, s, n).gen = h.gen /\ Versioned(h, s, n).version = n
  BY DEF HandlerRow, Versioned
<1>3. /\ Collected(h, s, n) \in HandlerRow /\ Collected(h, s, n).kind = h.kind
      /\ Collected(h, s, n).stage = s /\ Collected(h, s, n).range = h.range
      /\ Collected(h, s, n).gen = h.gen /\ Collected(h, s, n).version = h.version
      /\ Collected(h, s, n).at = n
  BY DEF HandlerRow, Collected
<1> QED BY <1>1, <1>2, <1>3

\* A handler that tries again.
LEMMA TriedFacts ==
    \A h \in HandlerRow, s \in HandlerStages, n \in Nat :
        /\ Tried(h, s, n) \in HandlerRow /\ Tried(h, s, n).kind = h.kind
        /\ Tried(h, s, n).stage = s /\ Tried(h, s, n).range = h.range
        /\ Tried(h, s, n).gen = h.gen /\ Tried(h, s, n).version = h.version
BY DEF HandlerRow, Tried

\* A request that only starts a handler.
LEMMA BeginStep ==
    ASSUME ReviewInv, NEW b \in Browsers, NEW range \in Ranges,
           NEW kind \in {"refresh", "range", "overview", "question", "submit"},
           NEW stage \in {"load", "check", "waiting", "validate"},
           kind = "refresh" => stage = "load", kind = "range" => stage = "check",
           kind = "submit" => stage = "validate" /\ Matching(review.gen, range),
           BeginHandler(b, kind, range, stage),
           UNCHANGED <<workspaceVersion, review, agentJobs, verdict>>
    PROVE  ReviewInv'
<1>1. PICK h \in HandlerRow : /\ h = Incoming(kind, range, stage)
                              /\ HandlerOk(h, review.gen, review.version, workspaceVersion)
  BY IncomingFacts
<1>2. handlers' = [handlers EXCEPT ![b] = h] /\ asked' \in 0..MaxAsked /\ asked <= asked'
  BY <1>1, BeginFacts
<1>3. verdict' \in VerdictRow
  BY DEF ReviewInv, ReviewTypes
<1> QED BY <1>1, <1>2, <1>3, HandlerStep

\* A handler ends without an effect.
LEMMA RespondStep ==
    ASSUME ReviewInv, NEW b \in Browsers, Respond(b),
           UNCHANGED <<workspaceVersion, review, agentJobs, asked>>,
           verdict' \in VerdictRow
    PROVE  ReviewInv'
<1>1. asked' \in 0..MaxAsked /\ asked <= asked'
  BY ReviewConstants DEF ReviewInv, ReviewTypes
<1> QED BY <1>1, NoHandlerFacts, HandlerStep DEF Respond

\* A handler goes on.
LEMMA ContinueStep ==
    ASSUME ReviewInv, NEW b \in Browsers, NEW h \in HandlerRow, Continue(b, h),
           HandlerOk(h, review.gen, review.version, workspaceVersion),
           UNCHANGED <<workspaceVersion, review, agentJobs, asked, verdict>>
    PROVE  ReviewInv'
<1>1. asked' \in 0..MaxAsked /\ asked <= asked' /\ verdict' \in VerdictRow
  BY ReviewConstants DEF ReviewInv, ReviewTypes
<1> QED BY <1>1, HandlerStep DEF Continue

\* The workspace changes: nothing that was read before it is later than it.
LEMMA WorkspaceStep == ASSUME ReviewInv, edit_workspace PROVE ReviewInv'
<1>1. /\ workspaceVersion' = workspaceVersion + 1 /\ workspaceVersion' \in 0..MaxEdits
      /\ workspaceVersion \in Nat
      /\ UNCHANGED <<review, handlers, agentJobs, asked, verdict>>
  BY ReviewConstants DEF edit_workspace, ReviewInv, ReviewTypes
<1>2. review.version \in Nat
  BY DEF ReviewInv, ReviewTypes, ReviewRow
<1>3. ReviewTypes'
  BY <1>1, <1>2 DEF ReviewInv, ReviewTypes
<1>4. ASSUME NEW b \in Browsers
      PROVE  HandlerOk(handlers[b], review.gen, review.version, workspaceVersion)'
  <2>1. handlers[b] \in HandlerRow
    BY DEF ReviewInv, ReviewTypes
  <2> QED BY <1>1, <2>1, HandlerFacts DEF ReviewInv, HandlerOk
<1>5. OneVersionShown'
  BY <1>1 DEF ReviewInv, OneVersionShown, CachedPages
<1> QED BY <1>1, <1>3, <1>4, <1>5 DEF ReviewInv

\* The review is given up.
LEMMA GivenUpStep == ASSUME ReviewInv, cancel_review PROVE ReviewInv'
<1>1. verdict' = [verdict EXCEPT !.state = "cancelled"]
      /\ UNCHANGED <<workspaceVersion, review, handlers, agentJobs, asked>>
  BY DEF cancel_review
<1>2. verdict' \in VerdictRow
  BY <1>1 DEF ReviewInv, ReviewTypes, VerdictRow
<1>3. ReviewTypes'
  BY <1>1, <1>2 DEF ReviewInv, ReviewTypes
<1>4. OneVersionShown'
  BY <1>1 DEF ReviewInv, OneVersionShown, CachedPages
<1> QED BY <1>1, <1>3, <1>4 DEF ReviewInv

\* The session changes within its generation.
LEMMA SameSession ==
    ASSUME ReviewInv, review' \in ReviewRow, review'.gen = review.gen,
           review'.version = review.version, Len(review'.pages) <= MaxPages,
           handlers' \in [Browsers -> HandlerRow],
           \A b \in Browsers : \/ handlers'[b] = handlers[b]
                               \/ HandlerOk(handlers'[b], review.gen, review.version, workspaceVersion),
           asked' \in 0..MaxAsked, agentJobs' \subseteq JobRow,
           UNCHANGED <<workspaceVersion, verdict>>
    PROVE  /\ ReviewTypes'
           /\ \A b \in Browsers :
                HandlerOk(handlers'[b], review'.gen, review'.version, workspaceVersion')
<1>1. ReviewTypes'
  BY DEF ReviewInv, ReviewTypes
<1>2. \A b \in Browsers : HandlerOk(handlers'[b], review'.gen, review'.version, workspaceVersion')
  BY DEF ReviewInv
<1> QED BY <1>1, <1>2

\* What a step may change of a session.
Selecting(r, p) == [r EXCEPT !.selected = p]
Showing(r, ps, p) == [r EXCEPT !.pages = ps, !.selected = p]
Summarising(r, n) == [r EXCEPT !.activeOverview = n]
Summarised(r, S) == [r EXCEPT !.overviews = S]
Threading(r, t) == [r EXCEPT !.thread = t]
SameShown(q, r) ==
    /\ q \in ReviewRow /\ q.gen = r.gen /\ q.version = r.version /\ q.default = r.default
    /\ q.pages = r.pages /\ q.selected = r.selected
LEMMA SelectingFacts ==
    \A r \in ReviewRow, p \in PageSet :
        /\ Selecting(r, p) \in ReviewRow /\ Selecting(r, p).gen = r.gen
        /\ Selecting(r, p).version = r.version /\ Selecting(r, p).default = r.default
        /\ Selecting(r, p).pages = r.pages /\ Selecting(r, p).selected = p
        /\ Selecting(r, p).overviews = r.overviews /\ Selecting(r, p).thread = r.thread
        /\ Selecting(r, p).activeOverview = r.activeOverview
BY DEF ReviewRow, Selecting

\* Another page is shown and kept.
LEMMA ShowingFacts ==
    \A r \in ReviewRow, ps \in Seq(PageSet), p \in PageSet :
        /\ Showing(r, ps, p) \in ReviewRow /\ Showing(r, ps, p).gen = r.gen
        /\ Showing(r, ps, p).version = r.version /\ Showing(r, ps, p).default = r.default
        /\ Showing(r, ps, p).pages = ps /\ Showing(r, ps, p).selected = p
        /\ Showing(r, ps, p).overviews = r.overviews /\ Showing(r, ps, p).thread = r.thread
        /\ Showing(r, ps, p).activeOverview = r.activeOverview
BY DEF ReviewRow, Showing

\* An overview is being generated, or is not any more.
LEMMA SummarisingFacts ==
    \A r \in ReviewRow, n \in Nat :
        /\ SameShown(Summarising(r, n), r) /\ Summarising(r, n).overviews = r.overviews
        /\ Summarising(r, n).activeOverview = n /\ Summarising(r, n).thread = r.thread
BY DEF ReviewRow, Summarising, SameShown

\* An overview is stored.
LEMMA SummarisedFacts ==
    \A r \in ReviewRow, S \in SUBSET PageSet :
        /\ SameShown(Summarised(r, S), r) /\ Summarised(r, S).overviews = S
        /\ Summarised(r, S).activeOverview = r.activeOverview
        /\ Summarised(r, S).thread = r.thread
BY DEF ReviewRow, Summarised, SameShown

\* The thread goes on.
LEMMA ThreadingFacts ==
    \A r \in ReviewRow, t \in ThreadRow :
        /\ SameShown(Threading(r, t), r) /\ Threading(r, t).overviews = r.overviews
        /\ Threading(r, t).activeOverview = r.activeOverview /\ Threading(r, t).thread = t
BY DEF ReviewRow, Threading, SameShown

\* A session is shown another page of: nothing else is concerned.
LEMMA ShownStep ==
    ASSUME ReviewInv, review' \in ReviewRow, review'.gen = review.gen,
           review'.version = review.version, review'.thread = review.thread,
           review'.activeOverview = review.activeOverview, Len(review'.pages) <= MaxPages,
           handlers' \in [Browsers -> HandlerRow],
           \A b \in Browsers : \/ handlers'[b] = handlers[b]
                               \/ HandlerOk(handlers'[b], review.gen, review.version, workspaceVersion),
           UNCHANGED <<workspaceVersion, agentJobs, asked, verdict>>, OneVersionShown'
    PROVE  ReviewInv'
<1>1. asked' \in 0..MaxAsked /\ agentJobs' \subseteq JobRow
  BY DEF ReviewInv, ReviewTypes
<1>2. /\ ReviewTypes'
      /\ \A b \in Browsers : HandlerOk(handlers'[b], review'.gen, review'.version, workspaceVersion')
  BY <1>1, SameSession
<1>3. \A j \in agentJobs' : JobOk(j, review', asked')
  BY DEF ReviewInv, JobOk
<1> QED BY <1>2, <1>3 DEF ReviewInv

\* A range of the session is shown again, or its handler begins.
LEMMA RangeBegins ==
    ASSUME ReviewInv, NEW b \in Browsers, NEW range \in Ranges, begin_range(b, range)
    PROVE  ReviewInv'
<1>1. CASE ~Matching(review.gen, range)
  BY <1>1, BeginStep DEF begin_range
<1>2. CASE Matching(review.gen, range)
  <2>1. /\ review' = Selecting(review, PageOf(range))
        /\ UNCHANGED <<workspaceVersion, handlers, agentJobs, asked, verdict>>
    BY <1>2 DEF begin_range, Selecting
  <2>2. PICK p \in PageSet : p = PageOf(range) /\ p \in CachedPages
    BY <1>2, PageFacts
  <2>3. review \in ReviewRow /\ handlers \in [Browsers -> HandlerRow] /\ Len(review.pages) <= MaxPages
    BY DEF ReviewInv, ReviewTypes
  <2>4. /\ review' \in ReviewRow /\ review'.gen = review.gen /\ review'.version = review.version
        /\ review'.default = review.default /\ review'.pages = review.pages /\ review'.selected = p
        /\ review'.overviews = review.overviews /\ review'.thread = review.thread
        /\ review'.activeOverview = review.activeOverview
    BY <2>1, <2>2, <2>3, SelectingFacts
  <2>5. CachedPages' = CachedPages
    BY <2>4 DEF CachedPages
  <2>6. OneVersionShown'
    BY <2>2, <2>4, <2>5 DEF ReviewInv, OneVersionShown
  <2> QED BY <2>1, <2>3, <2>4, <2>6, ShownStep
<1> QED BY <1>1, <1>2

\* BoundedCache::insert keeps its bound and shows nothing but what it had and
\* the new page.
LEMMA InsertFacts ==
    ASSUME NEW ps \in Seq(PageSet), Len(ps) <= MaxPages, NEW p \in PageSet
    PROVE  LET qs == InsertPage(ps, p) IN
           /\ qs \in Seq(PageSet) /\ Len(qs) <= MaxPages
           /\ \A i \in DOMAIN qs : qs[i] = p \/ \E k \in DOMAIN ps : qs[i] = ps[k]
           /\ \E i \in DOMAIN qs : qs[i] = p
<1> DEFINE same == {n \in DOMAIN ps : ps[n].range = p.range}
           others == IF same = {} THEN ps ELSE RemoveAt(ps, CHOOSE n \in same : TRUE)
           rest == IF Len(others) < MaxPages THEN others ELSE Tail(others)
           From(qs) == /\ qs \in Seq(PageSet)
                       /\ \A i \in 1..Len(qs) : \E k \in 1..Len(ps) : qs[i] = ps[k]
<1>1. From(others) /\ Len(others) <= Len(ps)
  <2>1. CASE same = {}
    BY <2>1
  <2>2. CASE same # {}
    <3>1. PICK n \in 1..Len(ps) : others = SubSeq(ps, 1, n - 1) \o SubSeq(ps, n + 1, Len(ps))
      <4>1. (CHOOSE n \in same : TRUE) \in same
        BY <2>2, Zenon
      <4>2. others = RemoveAt(ps, CHOOSE n \in same : TRUE)
        BY <2>2
      <4>3. (CHOOSE n \in same : TRUE) \in 1..Len(ps)
        BY <4>1
      <4> HIDE DEF same, others
      <4> QED BY <4>2, <4>3 DEF RemoveAt
    <3> HIDE DEF others
    <3>2. /\ SubSeq(ps, 1, n - 1) \in Seq(PageSet) /\ Len(SubSeq(ps, 1, n - 1)) = n - 1
          /\ \A i \in 1..(n - 1) : SubSeq(ps, 1, n - 1)[i] = ps[i]
      BY SubSeqProperties
    <3>3. /\ SubSeq(ps, n + 1, Len(ps)) \in Seq(PageSet)
          /\ Len(SubSeq(ps, n + 1, Len(ps))) = Len(ps) - n
          /\ \A i \in 1..(Len(ps) - n) : SubSeq(ps, n + 1, Len(ps))[i] = ps[n + i]
      BY SubSeqProperties
    <3>4. PICK p1 \in Seq(PageSet) : p1 = SubSeq(ps, 1, n - 1)
      BY <3>2
    <3>5. PICK p2 \in Seq(PageSet) : p2 = SubSeq(ps, n + 1, Len(ps))
      BY <3>3
    <3>6. /\ p1 \o p2 \in Seq(PageSet) /\ Len(p1 \o p2) = Len(p1) + Len(p2)
          /\ \A i \in 1..(Len(p1) + Len(p2)) :
               (p1 \o p2)[i] = IF i <= Len(p1) THEN p1[i] ELSE p2[i - Len(p1)]
      BY ConcatProperties
    <3>7. /\ Len(p1) = n - 1 /\ Len(p2) = Len(ps) - n
          /\ \A i \in 1..(n - 1) : p1[i] = ps[i]
          /\ \A i \in 1..(Len(ps) - n) : p2[i] = ps[n + i]
      BY <3>2, <3>3, <3>4, <3>5
    <3>8. others = p1 \o p2 /\ Len(ps) \in Nat
      BY <3>1, <3>4, <3>5
    <3> HIDE <3>1, <3>4, <3>5
    <3>9. ASSUME NEW i \in 1..Len(others) PROVE \E k \in 1..Len(ps) : others[i] = ps[k]
      <4>1. CASE i <= n - 1
        <5>1. i \in 1..(n - 1) /\ i \in 1..Len(ps) /\ i \in 1..(Len(p1) + Len(p2)) /\ i <= Len(p1)
          BY <3>6, <3>7, <3>8, <4>1
        <5>2. others[i] = p1[i]
          BY <3>6, <3>8, <5>1
        <5>3. p1[i] = ps[i]
          BY <3>7, <5>1
        <5> QED BY <5>1, <5>2, <5>3
      <4>2. CASE i > n - 1
        <5>1. /\ i - (n - 1) \in 1..(Len(ps) - n) /\ n + (i - (n - 1)) \in 1..Len(ps)
          BY <3>6, <3>7, <3>8, <4>2
        <5>2. i \in 1..(Len(p1) + Len(p2)) /\ ~(i <= Len(p1))
          BY <3>6, <3>7, <3>8, <4>2
        <5>3. others[i] = p2[i - (n - 1)]
          BY <3>6, <3>7, <3>8, <5>2
        <5>4. p2[i - (n - 1)] = ps[n + (i - (n - 1))]
          BY <3>7, <5>1
        <5> QED BY <5>1, <5>3, <5>4
      <4> QED BY <4>1, <4>2, <3>6, <3>7, <3>8
    <3> QED BY <3>6, <3>7, <3>8, <3>9
  <2> QED BY <2>1, <2>2
<1> HIDE DEF others
<1>2. From(rest) /\ Len(rest) < MaxPages
  <2>1. CASE Len(others) < MaxPages
    BY <1>1, <2>1
  <2>2. CASE Len(others) >= MaxPages
    <3>1. others # <<>> /\ Len(others) = MaxPages
      BY <1>1, <2>2, ReviewConstants, EmptySeq
    <3>2. /\ Tail(others) \in Seq(PageSet) /\ Len(Tail(others)) = Len(others) - 1
          /\ \A i \in 1..Len(Tail(others)) : Tail(others)[i] = others[i + 1]
      BY <1>1, <3>1, HeadTailProperties
    <3>3. rest = Tail(others) /\ Len(rest) < MaxPages
      BY <2>2, <3>1, <3>2, ReviewConstants
    <3>4. \A i \in 1..Len(Tail(others)) : i + 1 \in 1..Len(others)
      BY <1>1, <3>2
    <3>5. \A i \in 1..Len(Tail(others)) : \E k \in 1..Len(ps) : Tail(others)[i] = ps[k]
      BY <1>1, <3>2, <3>4
    <3> QED BY <3>2, <3>3, <3>5
  <2> QED BY <1>1, <2>1, <2>2, ReviewConstants
<1>3. InsertPage(ps, p) = Append(rest, p)
  BY DEF InsertPage, others
<1> HIDE DEF rest
<1>4. /\ Append(rest, p) \in Seq(PageSet) /\ Len(Append(rest, p)) = Len(rest) + 1
      /\ \A i \in 1..Len(rest) : Append(rest, p)[i] = rest[i]
      /\ Append(rest, p)[Len(rest) + 1] = p
  BY <1>2, AppendProperties
<1> QED BY <1>2, <1>3, <1>4, ReviewConstants

\* load_range: the range is collected between two equal versions, and kept only
\* by the session it was collected for.
LEMMA RangeStep == ASSUME ReviewInv, NEW b \in Browsers, load_range(b) PROVE ReviewInv'
<1> DEFINE h == handlers[b]
<1>1. /\ h \in HandlerRow /\ HandlerOk(h, review.gen, review.version, workspaceVersion)
      /\ h.kind = "range" /\ UNCHANGED <<workspaceVersion, agentJobs, asked, verdict>>
      /\ workspaceVersion \in Nat /\ verdict' \in VerdictRow
  BY ReviewConstants DEF ReviewInv, ReviewTypes, load_range
<1>2. h.stage \in {"check", "collect", "recheck", "insert"}
  BY <1>1 DEF HandlerOk
<1>3. h.version \in Nat /\ h.at \in Nat /\ h.gen \in Nat
  BY <1>1, HandlerFacts
<1>4. CASE Respond(b) /\ UNCHANGED review
  BY <1>1, <1>4, RespondStep
<1>5. CASE Continue(b, Staged(h, "collect")) /\ UNCHANGED review
  <2>1. /\ Staged(h, "collect") \in HandlerRow
        /\ HandlerOk(Staged(h, "collect"), review.gen, review.version, workspaceVersion)
    <3>1. "collect" \in HandlerStages
      BY DEF HandlerStages
    <3> HIDE DEF h
    <3>2. PICK k \in HandlerRow :
            /\ k = Staged(h, "collect") /\ k.kind = "range" /\ k.stage = "collect"
            /\ k.range = h.range /\ k.gen = h.gen /\ k.version = h.version /\ k.at = h.at
      BY <1>1, <3>1, StagedFacts
    <3>3. HandlerOk(k, review.gen, review.version, workspaceVersion)
      BY <1>1, <3>2 DEF HandlerOk
    <3> QED BY <3>2, <3>3
  <2> QED BY <1>1, <1>5, <2>1, ContinueStep
<1>6. CASE Continue(b, Collected(h, "recheck", workspaceVersion)) /\ UNCHANGED review
  <2>1. /\ Collected(h, "recheck", workspaceVersion) \in HandlerRow
        /\ HandlerOk(Collected(h, "recheck", workspaceVersion), review.gen, review.version,
                     workspaceVersion)
    <3>1. "recheck" \in HandlerStages
      BY DEF HandlerStages
    <3> HIDE DEF h
    <3>2. PICK k \in HandlerRow :
            /\ k = Collected(h, "recheck", workspaceVersion) /\ k.kind = "range"
            /\ k.stage = "recheck" /\ k.range = h.range /\ k.gen = h.gen
            /\ k.version = h.version /\ k.at = workspaceVersion
      BY <1>1, <3>1, StagedFacts
    <3>3. HandlerOk(k, review.gen, review.version, workspaceVersion)
      BY <1>1, <3>2 DEF HandlerOk
    <3> QED BY <3>2, <3>3
  <2> QED BY <1>1, <1>6, <2>1, ContinueStep
<1>7. CASE /\ Continue(b, Staged(h, "insert")) /\ UNCHANGED review
           /\ h.stage = "recheck" /\ Validated(h)
  <2>1. /\ Staged(h, "insert") \in HandlerRow
        /\ HandlerOk(Staged(h, "insert"), review.gen, review.version, workspaceVersion)
    <3>1. "insert" \in HandlerStages
      BY DEF HandlerStages
    <3>2. h.at = h.version
      BY <1>1, <1>3, <1>7 DEF HandlerOk, Validated
    <3> HIDE DEF h
    <3>3. PICK k \in HandlerRow :
            /\ k = Staged(h, "insert") /\ k.kind = "range" /\ k.stage = "insert"
            /\ k.range = h.range /\ k.gen = h.gen /\ k.version = h.version /\ k.at = h.at
      BY <1>1, <3>1, StagedFacts
    <3>4. HandlerOk(k, review.gen, review.version, workspaceVersion)
      BY <1>1, <3>2, <3>3 DEF HandlerOk
    <3> QED BY <3>3, <3>4
  <2> QED BY <1>1, <1>7, <2>1, ContinueStep
<1>8. CASE /\ Respond(b) /\ h.stage = "insert" /\ StillThere(h)
           /\ review' = Showing(review, InsertPage(review.pages, Page(h.range, h.at)),
                                Page(h.range, h.at))
  <2>1. PICK p \in PageSet : p = Page(h.range, h.at) /\ p.at = review.version
    <3>1. h.range \in Ranges /\ h.at = review.version
      BY <1>1, <1>8 DEF HandlerOk, StillThere
    <3>2. Page(h.range, h.at) \in PageSet /\ Page(h.range, h.at).at = h.at
      BY <1>3, <3>1 DEF Page, PageSet
    <3> QED BY <3>1, <3>2
  <2>2. review \in ReviewRow /\ review.pages \in Seq(PageSet) /\ Len(review.pages) <= MaxPages
    BY DEF ReviewInv, ReviewTypes, ReviewRow
  <2>3. PICK qs \in Seq(PageSet) :
          /\ qs = InsertPage(review.pages, p) /\ Len(qs) <= MaxPages
          /\ \A i \in DOMAIN qs : qs[i] = p \/ \E k \in DOMAIN review.pages : qs[i] = review.pages[k]
          /\ \E i \in DOMAIN qs : qs[i] = p
    BY <2>2, InsertFacts
  <2>4. review' = Showing(review, qs, p)
    BY <1>8, <2>1, <2>3
  <2>5. /\ review' \in ReviewRow /\ review'.gen = review.gen /\ review'.version = review.version
        /\ review'.default = review.default /\ review'.pages = qs /\ review'.selected = p
        /\ review'.overviews = review.overviews /\ review'.thread = review.thread
        /\ review'.activeOverview = review.activeOverview
    BY <2>2, <2>4, ShowingFacts
  <2>6. CachedPages' = {review.default} \cup {qs[i] : i \in DOMAIN qs}
    BY <2>5 DEF CachedPages
  <2>7. \A q \in CachedPages' : q = p \/ q \in CachedPages
    BY <2>3, <2>6 DEF CachedPages
  <2>8. OneVersionShown'
    <3>1. \A q \in CachedPages \cup review.overviews : q.at = review.version
      BY DEF ReviewInv, OneVersionShown
    <3>2. p \in CachedPages'
      BY <2>3, <2>6
    <3> QED BY <2>1, <2>5, <2>7, <3>1, <3>2 DEF OneVersionShown
  <2>9. /\ handlers' \in [Browsers -> HandlerRow]
        /\ \A c \in Browsers : handlers'[c] = handlers[c] \/ handlers'[c] = NoHandler
    BY <1>8, NoHandlerFacts DEF Respond, ReviewInv, ReviewTypes
  <2> QED BY <1>1, <2>3, <2>5, <2>8, <2>9, NoHandlerFacts, ShownStep
<1>9. \/ Respond(b) /\ UNCHANGED review
      \/ Continue(b, Staged(h, "collect")) /\ UNCHANGED review
      \/ Continue(b, Collected(h, "recheck", workspaceVersion)) /\ UNCHANGED review
      \/ /\ Continue(b, Staged(h, "insert")) /\ UNCHANGED review
         /\ h.stage = "recheck" /\ Validated(h)
      \/ /\ Respond(b) /\ h.stage = "insert" /\ StillThere(h)
         /\ review' = Showing(review, InsertPage(review.pages, Page(h.range, h.at)),
                              Page(h.range, h.at))
  <2>1. CASE h.stage = "check"
    BY <2>1 DEF load_range, Staged
  <2>2. CASE h.stage = "collect"
    BY <2>2 DEF load_range, Collected
  <2>3. CASE h.stage = "recheck"
    BY <2>3 DEF load_range, Staged
  <2>4. CASE h.stage = "insert"
    BY <2>4 DEF load_range, Showing
  <2> QED BY <1>2, <2>1, <2>2, <2>3, <2>4
<1> QED BY <1>4, <1>5, <1>6, <1>7, <1>8, <1>9

\* The page of a browser is reloaded.
LEMMA ReloadStep == ASSUME ReviewInv, NEW b \in Browsers, browser_reload(b) PROVE ReviewInv'
<1>1. verdict' \in VerdictRow
  BY DEF browser_reload, ReviewInv, ReviewTypes
<1> QED BY <1>1, RespondStep DEF browser_reload

\* A decision, about the page it names.
LEMMA SubmitStep == ASSUME ReviewInv, NEW b \in Browsers, submit(b) PROVE ReviewInv'
<1> DEFINE h == handlers[b]
<1>1. /\ h \in HandlerRow /\ HandlerOk(h, review.gen, review.version, workspaceVersion)
      /\ h.kind = "submit" /\ UNCHANGED <<workspaceVersion, review, agentJobs, asked>>
      /\ workspaceVersion \in Nat /\ verdict \in VerdictRow
  BY ReviewConstants DEF ReviewInv, ReviewTypes, submit
<1>2. h.stage \in {"validate", "take"}
  BY <1>1 DEF HandlerOk
<1>3. h.version \in Nat /\ h.at \in Nat /\ h.gen \in Nat /\ h.range \in Ranges
  BY <1>1, HandlerFacts DEF HandlerOk
<1>4. CASE Respond(b) /\ verdict' \in VerdictRow
  BY <1>1, <1>4, RespondStep
<1>5. CASE Continue(b, Staged(h, "take")) /\ UNCHANGED verdict
  <2>1. /\ Staged(h, "take") \in HandlerRow
        /\ HandlerOk(Staged(h, "take"), review.gen, review.version, workspaceVersion)
    <3>1. "take" \in HandlerStages
      BY DEF HandlerStages
    <3> HIDE DEF h
    <3> QED BY <1>1, <1>3, <3>1, StagedFacts DEF HandlerOk
  <2> QED BY <1>1, <1>5, <2>1, ContinueStep
<1>6. [state |-> "decided", gen |-> h.gen, page |-> Page(h.range, h.at)] \in VerdictRow
  BY <1>3 DEF VerdictRow, Page
<1>7. \/ Respond(b) /\ verdict' \in VerdictRow
      \/ Continue(b, Staged(h, "take")) /\ UNCHANGED verdict
  <2>1. CASE h.stage = "validate"
    BY <1>1, <2>1 DEF submit, Staged
  <2>2. CASE h.stage = "take"
    BY <1>1, <1>6, <2>2 DEF submit
  <2> QED BY <1>2, <2>1, <2>2
<1> QED BY <1>4, <1>5, <1>7

\* refresh_review: another session begins, of a version that did not change
\* while it was prepared.
LEMMA RefreshReviewStep == ASSUME ReviewInv, NEW b \in Browsers, refresh_review(b) PROVE ReviewInv'
<1> DEFINE h == handlers[b]
<1>1. /\ h \in HandlerRow /\ HandlerOk(h, review.gen, review.version, workspaceVersion)
      /\ h.kind = "refresh" /\ UNCHANGED <<workspaceVersion, agentJobs, asked, verdict>>
      /\ workspaceVersion \in Nat /\ verdict' \in VerdictRow
  BY ReviewConstants DEF ReviewInv, ReviewTypes, refresh_review
<1>2. h.stage \in {"load", "collect", "validate"}
  BY <1>1 DEF HandlerOk
<1>3. h.version \in Nat /\ h.at \in Nat /\ h.gen \in Nat /\ h.tries \in Nat
  BY <1>1, HandlerFacts
<1>4. CASE Respond(b) /\ UNCHANGED review
  BY <1>1, <1>4, RespondStep
<1>5. CASE Continue(b, Versioned(h, "collect", workspaceVersion)) /\ UNCHANGED review
  <2>1. "collect" \in HandlerStages
    BY DEF HandlerStages
  <2> HIDE DEF h
  <2>2. PICK k \in HandlerRow :
          /\ k = Versioned(h, "collect", workspaceVersion) /\ k.kind = "refresh"
          /\ k.stage = "collect" /\ k.range = h.range /\ k.gen = h.gen
          /\ k.version = workspaceVersion
    BY <1>1, <2>1, StagedFacts
  <2>3. HandlerOk(k, review.gen, review.version, workspaceVersion)
    BY <1>1, <2>2 DEF HandlerOk
  <2> QED BY <1>1, <1>5, <2>2, <2>3, ContinueStep
<1>6. CASE Continue(b, Collected(h, "validate", workspaceVersion)) /\ UNCHANGED review
  <2>1. "validate" \in HandlerStages
    BY DEF HandlerStages
  <2> HIDE DEF h
  <2>2. PICK k \in HandlerRow :
          /\ k = Collected(h, "validate", workspaceVersion) /\ k.kind = "refresh"
          /\ k.stage = "validate" /\ k.range = h.range /\ k.gen = h.gen
          /\ k.version = h.version /\ k.at = workspaceVersion
    BY <1>1, <2>1, StagedFacts
  <2>3. HandlerOk(k, review.gen, review.version, workspaceVersion)
    BY <1>1, <2>2 DEF HandlerOk
  <2> QED BY <1>1, <1>6, <2>2, <2>3, ContinueStep
<1>7. CASE Continue(b, Tried(h, "load", h.tries + 1)) /\ UNCHANGED review
  <2>1. "load" \in HandlerStages
    BY DEF HandlerStages
  <2>4. PICK n \in Nat : n = h.tries + 1
    BY <1>3
  <2> HIDE DEF h
  <2>2. PICK k \in HandlerRow :
          /\ k = Tried(h, "load", n) /\ k.kind = "refresh"
          /\ k.stage = "load" /\ k.range = h.range /\ k.gen = h.gen /\ k.version = h.version
    BY <1>1, <2>1, <2>4, TriedFacts
  <2>3. HandlerOk(k, review.gen, review.version, workspaceVersion)
    BY <1>1, <2>2 DEF HandlerOk
  <2> QED BY <1>1, <1>7, <2>2, <2>3, <2>4, ContinueStep
<1>8. CASE /\ Respond(b) /\ h.stage = "validate" /\ Validated(h) /\ review.gen < MaxGenerations
           /\ review' = Session(review.gen + 1, h.version, h.at)
  <2>1. h.at = h.version /\ h.version = workspaceVersion
    BY <1>1, <1>3, <1>8 DEF HandlerOk, Validated
  <2>2. PICK g \in 0..MaxGenerations : g = review.gen + 1 /\ review.gen \in Nat
    BY <1>8, ReviewConstants DEF ReviewInv, ReviewTypes, ReviewRow
  <2>3. review' = Session(g, h.version, h.version)
    BY <1>8, <2>1, <2>2
  <2>4. /\ review' \in ReviewRow /\ review'.gen = g /\ review'.version = h.version
        /\ review'.pages = <<>> /\ review'.activeOverview = 0 /\ review'.thread = NoThread
        /\ review'.overviews = {} /\ review'.default.at = h.version
        /\ review'.selected = review'.default
    BY <1>3, <2>3, SessionFacts
  <2>5. OneVersionShown'
    <3>1. CachedPages' = {review'.default}
      BY <2>4 DEF CachedPages
    <3> QED BY <2>4, <3>1 DEF OneVersionShown
  <2>6. handlers' \in [Browsers -> HandlerRow]
    BY <1>8, NoHandlerFacts DEF Respond, ReviewInv, ReviewTypes
  <2>7. Len(review'.pages) <= MaxPages
    BY <2>4, ReviewConstants
  <2>8. ReviewTypes'
    BY <1>1, <2>1, <2>4, <2>6, <2>7 DEF ReviewInv, ReviewTypes
  <2>9. ASSUME NEW c \in Browsers
        PROVE  HandlerOk(handlers'[c], review'.gen, review'.version, workspaceVersion')
    <3>1. CASE c = b
      BY <1>8, <3>1, NoHandlerFacts DEF Respond, ReviewInv, ReviewTypes
    <3>2. CASE c # b
      <4>1. handlers'[c] = handlers[c] /\ handlers[c] \in HandlerRow
        BY <1>8, <3>2 DEF Respond, ReviewInv, ReviewTypes
      <4>2. HandlerOk(handlers[c], review.gen, review.version, workspaceVersion)
        BY DEF ReviewInv
      <4>3. handlers[c].gen \in Nat
        BY <4>1, HandlerFacts
      <4> QED BY <1>1, <2>2, <2>4, <4>1, <4>2, <4>3 DEF HandlerOk
    <3> QED BY <3>1, <3>2
  <2>10. ASSUME NEW j \in agentJobs PROVE JobOk(j, review', asked')
    <3>1. j \in JobRow /\ JobOk(j, review, asked)
      BY DEF ReviewInv, ReviewTypes
    <3>2. j.gen \in Nat /\ j.op \in Nat
      BY <3>1, JobFacts
    <3> QED BY <1>1, <2>2, <2>4, <3>1, <3>2, NoThreadFacts DEF JobOk
  <2>11. ThreadOk(review.thread, agentJobs, review.gen, asked)'
    <3>1. asked' \in Nat
      BY <1>1, ReviewConstants DEF ReviewInv, ReviewTypes
    <3> QED BY <2>4, <3>1, NoThreadFacts DEF ThreadOk
  <2>12. OverviewOk(review.activeOverview, agentJobs)'
    BY <2>4 DEF OverviewOk
  <2> QED BY <1>1, <2>5, <2>8, <2>9, <2>10, <2>11, <2>12 DEF ReviewInv
<1>9. \/ Respond(b) /\ UNCHANGED review
      \/ Continue(b, Versioned(h, "collect", workspaceVersion)) /\ UNCHANGED review
      \/ Continue(b, Collected(h, "validate", workspaceVersion)) /\ UNCHANGED review
      \/ Continue(b, Tried(h, "load", h.tries + 1)) /\ UNCHANGED review
      \/ /\ Respond(b) /\ h.stage = "validate" /\ Validated(h) /\ review.gen < MaxGenerations
         /\ review' = Session(review.gen + 1, h.version, h.at)
  <2>1. CASE Shut(h.gen)
    BY <2>1 DEF refresh_review
  <2>2. CASE h.stage = "load" /\ ~Shut(h.gen)
    BY <2>2 DEF refresh_review, Versioned
  <2>3. CASE h.stage = "collect" /\ ~Shut(h.gen)
    BY <2>3 DEF refresh_review, Collected
  <2>4. CASE h.stage = "validate" /\ ~Shut(h.gen)
    BY <2>4 DEF refresh_review, Tried
  <2> QED BY <1>2, <2>1, <2>2, <2>3, <2>4
<1> QED BY <1>4, <1>5, <1>6, <1>7, <1>8, <1>9

\* Nothing that is shown has changed.
LEMMA ShownKept ==
    ASSUME ReviewInv, SameShown(review', review),
           \A p \in review'.overviews : p \in review.overviews \/ p.at = review.version
    PROVE  OneVersionShown' /\ Len(review'.pages) <= MaxPages
<1>1. CachedPages' = CachedPages
  BY DEF SameShown, CachedPages
<1>2. Len(review'.pages) <= MaxPages
  BY DEF ReviewInv, ReviewTypes, SameShown
<1> QED BY <1>1, <1>2 DEF ReviewInv, OneVersionShown, SameShown

\* An operation that has just been spawned.
LEMMA NewJobFacts ==
    ASSUME ReviewInv, NEW range \in Ranges, NEW kind \in {"overview", "question"},
           Matching(review.gen, range)
    PROVE  LET j == NewJob(kind, range) IN
           /\ j \in JobRow /\ j.kind = kind /\ j.op = asked + 1 /\ j.range = range
           /\ j.gen = review.gen /\ j.at = review.version
<1>1. PICK a \in Nat : a = PageOf(range).at /\ a = review.version
  BY PageFacts DEF ReviewInv, ReviewTypes, ReviewRow
<1>2. PICK n \in Nat : n = asked + 1
  BY ReviewConstants DEF ReviewInv, ReviewTypes
<1>3. PICK g \in Nat : g = review.gen
  BY ReviewConstants DEF ReviewInv, ReviewTypes, ReviewRow
<1>4. ASSUME NEW u \in BOOLEAN
      PROVE  LET j == [kind |-> kind, op |-> n, range |-> range, gen |-> g, version |-> a,
                       at |-> a, stage |-> "check", result |-> "", cancelled |-> u]
             IN  /\ j \in JobRow /\ j.kind = kind /\ j.op = n /\ j.range = range
                 /\ j.gen = g /\ j.at = a
  BY <1>1, <1>2, <1>3 DEF JobRow
<1>5. NewJob(kind, range) =
        [kind |-> kind, op |-> n, range |-> range, gen |-> g, version |-> a,
         at |-> a, stage |-> "check", result |-> "", cancelled |-> FALSE]
  BY <1>1, <1>2, <1>3, Zenon DEF NewJob
<1> QED BY <1>1, <1>2, <1>3, <1>4, <1>5, Zenon

\* The agent is reserved for one operation.
LEMMA SpawnFacts ==
    ASSUME ReviewInv, NEW b \in Browsers, NEW range \in Ranges,
           NEW kind \in {"overview", "question"}, Spawn(b, kind, range),
           SameShown(review', review), review'.overviews = review.overviews
    PROVE  /\ ReviewTypes' /\ OneVersionShown' /\ agentJobs = {}
           /\ \A c \in Browsers :
                HandlerOk(handlers'[c], review'.gen, review'.version, workspaceVersion')
           /\ asked' = asked + 1 /\ asked \in Nat
           /\ \E j \in JobRow :
                /\ agentJobs' = {j} /\ j.kind = kind /\ j.op = asked' /\ j.range = range
                /\ j.gen = review.gen /\ j.at = review.version
<1>1. /\ Matching(review.gen, range) /\ agentJobs = {} /\ BeginHandler(b, kind, range, "waiting")
      /\ agentJobs' = agentJobs \cup {NewJob(kind, range)} /\ UNCHANGED <<workspaceVersion, verdict>>
  BY DEF Spawn, AgentFree
<1>2. PICK h \in HandlerRow : /\ h = Incoming(kind, range, "waiting")
                              /\ HandlerOk(h, review.gen, review.version, workspaceVersion)
  BY <1>1, IncomingFacts
<1>3. /\ handlers' = [handlers EXCEPT ![b] = h] /\ asked' = asked + 1 /\ asked' \in 0..MaxAsked
      /\ asked \in Nat
  BY <1>1, <1>2, BeginFacts
<1>4. PICK j \in JobRow : /\ j = NewJob(kind, range) /\ j.kind = kind /\ j.op = asked + 1
                          /\ j.range = range /\ j.gen = review.gen /\ j.at = review.version
  BY <1>1, NewJobFacts
<1>5. agentJobs' = {j} /\ agentJobs' \subseteq JobRow
  BY <1>1, <1>4
<1>6. /\ handlers' \in [Browsers -> HandlerRow]
      /\ \A c \in Browsers : \/ handlers'[c] = handlers[c]
                             \/ HandlerOk(handlers'[c], review.gen, review.version, workspaceVersion)
  BY <1>2, <1>3 DEF ReviewInv, ReviewTypes
<1>7. /\ review' \in ReviewRow /\ review'.gen = review.gen /\ review'.version = review.version
      /\ OneVersionShown' /\ Len(review'.pages) <= MaxPages
  BY ShownKept DEF SameShown
<1>8. /\ ReviewTypes'
      /\ \A c \in Browsers : HandlerOk(handlers'[c], review'.gen, review'.version, workspaceVersion')
  BY <1>1, <1>3, <1>5, <1>6, <1>7, SameSession
<1> QED BY <1>1, <1>3, <1>4, <1>5, <1>7, <1>8

\* load_overview: a new operation, or another browser that waits for it.
LEMMA OverviewStep ==
    ASSUME ReviewInv, NEW b \in Browsers, NEW range \in Ranges, load_overview(b, range)
    PROVE  ReviewInv'
<1>1. CASE /\ BeginHandler(b, "overview", range, "waiting")
           /\ UNCHANGED <<workspaceVersion, review, agentJobs, verdict>>
  BY <1>1, BeginStep
<1>2. CASE Spawn(b, "overview", range) /\ review' = Summarising(review, asked + 1)
  <2>1. review \in ReviewRow /\ asked + 1 \in Nat
    BY ReviewConstants DEF ReviewInv, ReviewTypes
  <2>2. /\ SameShown(review', review) /\ review'.overviews = review.overviews
        /\ review'.activeOverview = asked + 1 /\ review'.thread = review.thread
    BY <1>2, <2>1, SummarisingFacts
  <2>3. /\ ReviewTypes' /\ OneVersionShown' /\ agentJobs = {}
        /\ \A c \in Browsers :
             HandlerOk(handlers'[c], review'.gen, review'.version, workspaceVersion')
        /\ asked' = asked + 1 /\ asked \in Nat
    BY <1>2, <2>2, SpawnFacts
  <2>4. PICK j \in JobRow :
             /\ agentJobs' = {j} /\ j.kind = "overview" /\ j.op = asked' /\ j.range = range
             /\ j.gen = review.gen /\ j.at = review.version
    BY <1>2, <2>2, SpawnFacts
  <2>5. review'.gen = review.gen /\ review'.version = review.version /\ review.gen \in Nat
    BY <2>2, ReviewConstants DEF SameShown, ReviewInv, ReviewTypes, ReviewRow
  <2>6. Lonely(agentJobs') /\ \A k \in agentJobs' : JobOk(k, review', asked')
    BY <2>3, <2>4, <2>5 DEF Lonely, JobOk
  <2>7. review.thread.op \in Nat
    BY DEF ReviewInv, ReviewTypes, ReviewRow, ThreadRow
  <2>9. ThreadOk(review'.thread, agentJobs', review'.gen, asked')
    BY <2>2, <2>3, <2>7 DEF ThreadOk, ReviewInv
  <2>10. OverviewOk(review'.activeOverview, agentJobs')
    BY <2>2, <2>3, <2>4 DEF OverviewOk
  <2> QED BY <2>3, <2>6, <2>9, <2>10 DEF ReviewInv
<1> QED BY <1>1, <1>2 DEF load_overview, Summarising

\* A thread has a question more than answers, or as many.
LEMMA Parity == \A m \in Nat : m % 2 = 0 <=> (m + 1) % 2 # 0
OBVIOUS

\* ask_question: the thread waits for the operation that is spawned with it.
LEMMA AskStep ==
    ASSUME ReviewInv, NEW b \in Browsers, NEW range \in Ranges, ask_question(b, range)
    PROVE  ReviewInv'
<1>1. /\ Continues(range) /\ Spawn(b, "question", range)
      /\ review' = Threading(review, BeginThread(range))
  BY DEF ask_question, Threading
<1>2. PICK m \in Nat :
        /\ m = IF review.thread.status \in {"error", "cancelled"} THEN review.thread.messages
               ELSE review.thread.messages + 1
        /\ m % 2 # 0
  <2>1. review.thread.messages \in Nat /\ ThreadOk(review.thread, agentJobs, review.gen, asked)
        /\ review.thread.status \in {"none", "asking", "idle", "error", "cancelled"}
    BY DEF ReviewInv, ReviewTypes, ReviewRow, ThreadRow
  <2>2. CASE review.thread.status \in {"error", "cancelled"}
    BY <2>1, <2>2 DEF ThreadOk
  <2>3. CASE review.thread.status \in {"none", "idle"}
    BY <2>1, <2>3, Parity DEF ThreadOk
  <2>4. review.thread.status # "asking"
    BY <1>1 DEF Continues
  <2> QED BY <2>1, <2>2, <2>3, <2>4
<1>3. PICK n \in Nat : n = asked + 1
  BY ReviewConstants DEF ReviewInv, ReviewTypes
<1>4. PICK t \in ThreadRow : /\ t = BeginThread(range) /\ t.status = "asking" /\ t.op = n
                             /\ t.range = range /\ t.messages = m
  <2>1. LET t == [status |-> "asking", op |-> n, range |-> range, messages |-> m] IN
        t \in ThreadRow /\ t.status = "asking" /\ t.op = n /\ t.range = range /\ t.messages = m
    BY <1>2, <1>3 DEF ThreadRow
  <2>2. BeginThread(range) = [status |-> "asking", op |-> n, range |-> range, messages |-> m]
    BY <1>2, <1>3, Zenon DEF BeginThread
  <2> QED BY <2>1, <2>2, Zenon
<1>5. review \in ReviewRow
  BY DEF ReviewInv, ReviewTypes
<1>6. /\ SameShown(review', review) /\ review'.overviews = review.overviews
      /\ review'.activeOverview = review.activeOverview /\ review'.thread = t
  BY <1>1, <1>4, <1>5, ThreadingFacts
<1>7. /\ ReviewTypes' /\ OneVersionShown' /\ agentJobs = {}
      /\ \A c \in Browsers :
           HandlerOk(handlers'[c], review'.gen, review'.version, workspaceVersion')
      /\ asked' = asked + 1 /\ asked \in Nat
  BY <1>1, <1>6, SpawnFacts
<1>8. PICK j \in JobRow :
           /\ agentJobs' = {j} /\ j.kind = "question" /\ j.op = asked' /\ j.range = range
           /\ j.gen = review.gen /\ j.at = review.version
  BY <1>1, <1>6, SpawnFacts
<1>9. review'.gen = review.gen /\ review'.version = review.version /\ review.gen \in Nat
  BY <1>6, ReviewConstants DEF SameShown, ReviewInv, ReviewTypes, ReviewRow
<1>10. Lonely(agentJobs') /\ \A k \in agentJobs' : JobOk(k, review', asked')
  BY <1>4, <1>6, <1>7, <1>8, <1>9 DEF Lonely, JobOk
<1>11. ThreadOk(review'.thread, agentJobs', review'.gen, asked')
  BY <1>2, <1>3, <1>4, <1>6, <1>7, <1>8, <1>9 DEF ThreadOk
<1>12. OverviewOk(review'.activeOverview, agentJobs')
  BY <1>6, <1>7 DEF OverviewOk, ReviewInv
<1> QED BY <1>7, <1>10, <1>11, <1>12 DEF ReviewInv

\* The operation goes on.
LEMMA JobMoves ==
    ASSUME ReviewInv, NEW j \in agentJobs, NEW k \in JobRow, k.kind = j.kind, k.op = j.op,
           k.range = j.range, k.gen = j.gen, k.at = j.at,
           agentJobs' = (agentJobs \ {j}) \cup {k},
           UNCHANGED <<workspaceVersion, review, handlers, asked, verdict>>
    PROVE  ReviewInv'
<1>1. agentJobs = {j} /\ agentJobs' = {k}
  BY DEF ReviewInv, Lonely
<1>2. ReviewTypes'
  BY <1>1 DEF ReviewInv, ReviewTypes
<1>3. OneVersionShown'
  BY DEF ReviewInv, OneVersionShown, CachedPages
<1>4. Lonely(agentJobs') /\ \A i \in agentJobs' : JobOk(i, review', asked')
  BY <1>1 DEF ReviewInv, Lonely, JobOk
<1>6. ThreadOk(review'.thread, agentJobs', review'.gen, asked')
  BY <1>1 DEF ReviewInv, ThreadOk
<1>7. OverviewOk(review'.activeOverview, agentJobs')
  BY <1>1 DEF ReviewInv, OverviewOk
<1> QED BY <1>2, <1>3, <1>4, <1>6, <1>7 DEF ReviewInv

\* An operation that is stopped, staged or done.
Stopped(j, u) == [j EXCEPT !.cancelled = u]
JobAt(j, s) == [j EXCEPT !.stage = s]
JobDone(j, s, x) == [j EXCEPT !.stage = s, !.result = x]
SameJob(k, j) == /\ k \in JobRow /\ k.kind = j.kind /\ k.op = j.op /\ k.range = j.range
                 /\ k.gen = j.gen /\ k.at = j.at
LEMMA JobChanges ==
    ASSUME NEW j \in JobRow
    PROVE  /\ \A u \in BOOLEAN : SameJob(Stopped(j, u), j)
           /\ \A s \in {"check", "agent", "recheck", "store"} : SameJob(JobAt(j, s), j)
           /\ \A x \in {"", "ready", "failed", "stale", "cancelled"} : SameJob(JobDone(j, "store", x), j)
<1>1. \A u \in BOOLEAN : SameJob(Stopped(j, u), j)
  BY DEF Stopped, SameJob, JobRow
<1>2. \A s \in {"check", "agent", "recheck", "store"} : SameJob(JobAt(j, s), j)
  BY DEF JobAt, SameJob, JobRow
<1>3. \A x \in {"", "ready", "failed", "stale", "cancelled"} : SameJob(JobDone(j, "store", x), j)
  BY DEF JobDone, SameJob, JobRow
<1> QED BY <1>1, <1>2, <1>3

\* run_overview and run_question.
LEMMA AgentStep == ASSUME ReviewInv, NEW j \in agentJobs, run_agent(j) PROVE ReviewInv'
<1>1. j \in JobRow
  BY DEF ReviewInv, ReviewTypes
<1>2. PICK r \in RunResult(j) :
        agentJobs' = (agentJobs \ {j}) \cup
            {IF r # "go" THEN JobDone(j, "store", r)
             ELSE CASE j.stage = "check" -> JobAt(j, "agent")
                    [] j.stage = "agent" -> JobAt(j, "recheck")
                    [] OTHER -> JobDone(j, "store", "ready")}
  BY DEF run_agent, JobDone, JobAt
<1>3. r = "go" \/ r \in {"failed", "stale", "cancelled"}
  BY <1>2 DEF RunResult
<1>4. PICK k : /\ SameJob(k, j) /\ agentJobs' = (agentJobs \ {j}) \cup {k}
  <2>1. CASE r # "go"
    BY <1>1, <1>2, <1>3, <2>1, JobChanges
  <2>2. CASE r = "go" /\ j.stage = "check"
    BY <1>1, <1>2, <2>2, JobChanges
  <2>3. CASE r = "go" /\ j.stage = "agent"
    BY <1>1, <1>2, <2>3, JobChanges
  <2>4. CASE r = "go" /\ j.stage # "check" /\ j.stage # "agent"
    BY <1>1, <1>2, <2>4, JobChanges
  <2> QED BY <2>1, <2>2, <2>3, <2>4
<1> QED BY <1>4, JobMoves DEF SameJob, run_agent

\* cancel_question
LEMMA CancelQuestionStep == ASSUME ReviewInv, NEW j \in agentJobs, cancel_question(j) PROVE ReviewInv'
<1>1. j \in JobRow
  BY DEF ReviewInv, ReviewTypes
<1>2. SameJob(Stopped(j, TRUE), j) /\ agentJobs' = (agentJobs \ {j}) \cup {Stopped(j, TRUE)}
  BY <1>1, JobChanges DEF cancel_question, Stopped
<1> QED BY <1>2, JobMoves DEF SameJob, cancel_question

\* What is left of a thread that was answered, stopped or failed.
AnsweredThread(t, s, m) == [t EXCEPT !.status = s, !.messages = m]
LEMMA AnsweredFacts ==
    \A t \in ThreadRow, s \in {"idle", "cancelled", "error"}, m \in Nat :
        /\ AnsweredThread(t, s, m) \in ThreadRow /\ AnsweredThread(t, s, m).status = s
        /\ AnsweredThread(t, s, m).messages = m /\ AnsweredThread(t, s, m).op = t.op
BY DEF ThreadRow, AnsweredThread

\* store_question_result: the thread that waits for the operation is the one it
\* was spawned for, and it does not wait any longer.
LEMMA QuestionStored ==
    ASSUME ReviewInv, NEW j \in agentJobs, j.kind = "question", review' = StoredQuestion(j)
    PROVE  /\ SameShown(review', review) /\ review'.overviews = review.overviews
           /\ review'.activeOverview = review.activeOverview
           /\ ThreadOk(review'.thread, {}, review.gen, asked)
<1>1. /\ agentJobs = {j} /\ j \in JobRow /\ JobOk(j, review, asked) /\ review \in ReviewRow
      /\ ThreadOk(review.thread, agentJobs, review.gen, asked) /\ review.thread \in ThreadRow
  BY DEF ReviewInv, ReviewTypes, ReviewRow, Lonely
<1>2. review.thread.messages \in Nat
  BY <1>1 DEF ThreadRow
<1>3. CASE ~ItsThread(j)
  <2>1. review' = review
    BY <1>3 DEF StoredQuestion
  <2>2. review.thread.status # "asking"
    BY <1>1, <1>3 DEF ThreadOk, ItsThread
  <2>3. SameShown(review, review)
    BY <1>1 DEF SameShown
  <2>4. ThreadOk(review.thread, {}, review.gen, asked)
    BY <1>1, <2>2 DEF ThreadOk
  <2> QED BY <2>1, <2>3, <2>4
<1>4. CASE ItsThread(j)
  <2>1. review.thread.status = "asking"
    BY <1>1, <1>4 DEF JobOk, ItsThread
  <2>2. PICK s \in {"idle", "cancelled", "error"}, m \in Nat :
          /\ review' = Threading(review, AnsweredThread(review.thread, s, m))
          /\ \/ s = "idle" /\ m = review.thread.messages + 1
             \/ s # "idle" /\ m = review.thread.messages
    <3>1. CASE j.result = "ready" /\ ~j.cancelled
      <4>1. review' = Threading(review, AnsweredThread(review.thread, "idle", review.thread.messages + 1))
        BY <1>1, <1>4, <3>1 DEF StoredQuestion, Threading, AnsweredThread, ReviewRow, ThreadRow
      <4> QED BY <1>2, <4>1
    <3>2. CASE ~(j.result = "ready" /\ ~j.cancelled)
      <4>1. \/ review' = Threading(review, AnsweredThread(review.thread, "cancelled", review.thread.messages))
            \/ review' = Threading(review, AnsweredThread(review.thread, "error", review.thread.messages))
        BY <1>1, <1>4, <3>2 DEF StoredQuestion, Threading, AnsweredThread, ReviewRow, ThreadRow
      <4> QED BY <1>2, <4>1
    <3> QED BY <3>1, <3>2
  <2>3. PICK t \in ThreadRow : /\ t = AnsweredThread(review.thread, s, m) /\ t.status = s
                               /\ t.messages = m /\ t.op = review.thread.op
    <3>1. s \in {"idle", "cancelled", "error"} /\ m \in Nat
      BY <2>2
    <3>2. PICK u \in ThreadRow : u = review.thread
      BY <1>1
    <3>3. \A x \in {"idle", "cancelled", "error"}, n \in Nat :
            /\ AnsweredThread(u, x, n) \in ThreadRow /\ AnsweredThread(u, x, n).status = x
            /\ AnsweredThread(u, x, n).messages = n /\ AnsweredThread(u, x, n).op = u.op
      BY <3>2, AnsweredFacts
    <3>4. /\ AnsweredThread(u, s, m) \in ThreadRow /\ AnsweredThread(u, s, m).status = s
          /\ AnsweredThread(u, s, m).messages = m /\ AnsweredThread(u, s, m).op = u.op
      BY <3>1, <3>3
    <3> QED BY <3>2, <3>4, Zenon
  <2>4. /\ SameShown(review', review) /\ review'.overviews = review.overviews
        /\ review'.activeOverview = review.activeOverview /\ review'.thread = t
    BY <1>1, <2>2, <2>3, ThreadingFacts
  <2>5. review.thread.messages % 2 # 0
    BY <1>1, <2>1 DEF ThreadOk
  <2>6. s = "idle" <=> m % 2 = 0
    BY <1>2, <2>2, <2>5, Parity
  <2>8. t.status # "asking" /\ t.status # "none"
    BY <2>2, <2>3
  <2>9. review.thread.op <= asked
    BY <1>1 DEF ThreadOk
  <2>7. ThreadOk(t, {}, review.gen, asked)
    <3>1. t.op <= asked
      BY <2>3, <2>9
    <3>2. t.status \in {"none", "idle"} <=> t.messages % 2 = 0
      BY <2>3, <2>6, <2>8
    <3> QED BY <2>8, <3>1, <3>2 DEF ThreadOk
  <2> QED BY <2>4, <2>7
<1> QED BY <1>3, <1>4

\* store_overview_result: an overview of the session as it is, or of a session
\* that is gone.
LEMMA OverviewStored ==
    ASSUME ReviewInv, NEW j \in agentJobs, j.kind = "overview", review' = StoredOverview(j)
    PROVE  /\ SameShown(review', review) /\ review'.thread = review.thread
           /\ \A p \in review'.overviews : p \in review.overviews \/ p.at = review.version
           /\ review'.activeOverview = 0
<1>1. /\ agentJobs = {j} /\ j \in JobRow /\ JobOk(j, review, asked) /\ review \in ReviewRow
      /\ OverviewOk(review.activeOverview, agentJobs)
  BY DEF ReviewInv, ReviewTypes, Lonely
<1>2. PICK c \in ReviewRow : /\ c = IF review.activeOverview = j.op THEN Summarising(review, 0) ELSE review
                             /\ SameShown(c, review) /\ c.overviews = review.overviews
                             /\ c.activeOverview = 0 /\ c.thread = review.thread
  <2>1. CASE review.activeOverview = j.op
    <3>1. LET c == Summarising(review, 0) IN
          /\ SameShown(c, review) /\ c.overviews = review.overviews
          /\ c.activeOverview = 0 /\ c.thread = review.thread
      BY <1>1, SummarisingFacts
    <3>2. Summarising(review, 0) \in ReviewRow
      BY <3>1 DEF SameShown
    <3> QED BY <2>1, <3>1, <3>2
  <2>2. CASE review.activeOverview # j.op
    <3>1. review.activeOverview = 0
      BY <1>1, <2>2 DEF OverviewOk
    <3>2. SameShown(review, review)
      BY <1>1 DEF SameShown
    <3> QED BY <1>1, <2>2, <3>1, <3>2
  <2> QED BY <2>1, <2>2
<1>3. CASE ~(j.result = "ready" /\ Matching(j.gen, j.range))
  <2>1. review' = c
    BY <1>2, <1>3 DEF StoredOverview, Summarising
  <2> QED BY <1>2, <2>1
<1>4. CASE j.result = "ready" /\ Matching(j.gen, j.range)
  <2>1. j.at = review.version
    BY <1>1, <1>4 DEF Matching, JobOk
  <2>2. Page(j.range, j.at) \in PageSet /\ Page(j.range, j.at).at = review.version
    BY <1>1, <2>1 DEF Page, PageSet, JobRow
  <2>3. c.overviews \in SUBSET PageSet
    BY <1>2 DEF ReviewRow
  <2>4. PICK S \in SUBSET PageSet : S = c.overviews \cup {Page(j.range, j.at)}
    BY <2>2, <2>3
  <2>5. review' = Summarised(c, S)
    BY <1>2, <1>4, <2>4 DEF StoredOverview, Summarised, Summarising
  <2>6. /\ SameShown(review', c) /\ review'.overviews = S
        /\ review'.activeOverview = c.activeOverview /\ review'.thread = c.thread
    BY <1>2, <2>4, <2>5, SummarisedFacts
  <2>7. SameShown(review', review)
    BY <1>2, <2>6 DEF SameShown
  <2> QED BY <1>2, <2>2, <2>4, <2>6, <2>7
<1> QED BY <1>3, <1>4

\* store_result: nobody waits for an operation that is gone.
LEMMA StoreStep == ASSUME ReviewInv, NEW j \in agentJobs, store_result(j) PROVE ReviewInv'
<1>1. /\ agentJobs = {j} /\ j \in JobRow /\ j.kind \in {"overview", "question"}
      /\ ThreadOk(review.thread, agentJobs, review.gen, asked)
      /\ OverviewOk(review.activeOverview, agentJobs) /\ asked \in 0..MaxAsked
  BY DEF ReviewInv, ReviewTypes, Lonely, JobRow
<1>2. agentJobs' = {} /\ UNCHANGED <<workspaceVersion, asked, verdict>>
  BY <1>1 DEF store_result
<1>3. /\ SameShown(review', review)
      /\ \A p \in review'.overviews : p \in review.overviews \/ p.at = review.version
      /\ ThreadOk(review'.thread, {}, review.gen, asked) /\ review'.activeOverview = 0
  <2>1. CASE j.kind = "overview"
    <3>1. review' = StoredOverview(j)
      BY <2>1 DEF store_result
    <3>2. review.thread.status # "asking"
      BY <1>1, <2>1 DEF ThreadOk
    <3>3. ThreadOk(review.thread, {}, review.gen, asked)
      BY <1>1, <3>2 DEF ThreadOk
    <3> QED BY <2>1, <3>1, <3>3, OverviewStored
  <2>2. CASE j.kind = "question"
    <3>1. review' = StoredQuestion(j)
      BY <2>2 DEF store_result
    <3>2. review.activeOverview = 0
      BY <1>1, <2>2 DEF OverviewOk
    <3> QED BY <2>2, <3>1, <3>2, QuestionStored
  <2> QED BY <1>1, <2>1, <2>2
<1>4. OneVersionShown' /\ Len(review'.pages) <= MaxPages
  BY <1>3, ShownKept
<1>5. review' \in ReviewRow /\ review'.gen = review.gen /\ review'.version = review.version
  BY <1>3 DEF SameShown
<1>6. /\ handlers' \in [Browsers -> HandlerRow]
      /\ \A b \in Browsers : \/ handlers'[b] = handlers[b]
                             \/ HandlerOk(handlers'[b], review.gen, review.version, workspaceVersion)
  BY NoHandlerFacts DEF store_result, ReviewInv, ReviewTypes
<1>7. agentJobs' \subseteq JobRow /\ asked' \in 0..MaxAsked
  BY <1>1, <1>2
<1>8. /\ ReviewTypes'
      /\ \A b \in Browsers : HandlerOk(handlers'[b], review'.gen, review'.version, workspaceVersion')
  BY <1>2, <1>4, <1>5, <1>6, <1>7, SameSession
<1>9. ThreadOk(review'.thread, agentJobs', review'.gen, asked')
  BY <1>2, <1>3, <1>5
<1>10. /\ Lonely(agentJobs') /\ \A k \in agentJobs' : JobOk(k, review', asked')
       /\ OverviewOk(review'.activeOverview, agentJobs')
  BY <1>2, <1>3 DEF Lonely, OverviewOk
<1> QED BY <1>4, <1>8, <1>9, <1>10 DEF ReviewInv

\* The review as a whole.
LEMMA ReviewKept == ASSUME ReviewInv, [ReviewNext]_reviewVars PROVE ReviewInv'
<1>1. CASE UNCHANGED reviewVars
  BY <1>1 DEF reviewVars, ReviewInv, ReviewTypes, OneVersionShown, CachedPages
<1>2. ASSUME NEW b \in Browsers, NEW range \in Ranges,
             \/ begin_range(b, range) \/ begin_submit(b, range)
             \/ load_overview(b, range) \/ ask_question(b, range)
      PROVE  ReviewInv'
  <2>1. CASE begin_submit(b, range)
    BY <2>1, BeginStep DEF begin_submit
  <2> QED BY <1>2, <2>1, RangeBegins, OverviewStep, AskStep
<1>3. ASSUME NEW b \in Browsers,
             \/ begin_refresh(b) \/ refresh_review(b) \/ load_range(b) \/ submit(b) \/ browser_reload(b)
      PROVE  ReviewInv'
  <2>1. CASE begin_refresh(b)
    BY <2>1, BeginStep, ReviewConstants DEF begin_refresh
  <2> QED BY <1>3, <2>1, RefreshReviewStep, RangeStep, SubmitStep, ReloadStep
<1>4. ASSUME NEW j \in agentJobs, run_agent(j) \/ store_result(j) \/ cancel_question(j)
      PROVE  ReviewInv'
  BY <1>4, AgentStep, StoreStep, CancelQuestionStep
<1> QED BY <1>1, <1>2, <1>3, <1>4, WorkspaceStep, GivenUpStep DEF ReviewNext

\* What the invariant says of the review.
LEMMA ReviewSoundness ==
    ReviewInv => ReviewTypeOK /\ OneVersionShown /\ OneAgentOperation /\ ThreadsFollowOperations
<1> SUFFICES ASSUME ReviewInv
             PROVE  ReviewTypeOK /\ OneVersionShown /\ OneAgentOperation /\ ThreadsFollowOperations
  OBVIOUS
<1>1. ReviewTypeOK
  BY DEF ReviewTypeOK, ReviewInv, ReviewTypes, ReviewRow, ThreadRow, HandlerRow, VerdictRow
<1>2. OneAgentOperation
  <2>1. CASE agentJobs = {}
    BY <2>1, FS_EmptySet DEF OneAgentOperation
  <2>2. CASE agentJobs # {}
    <3>1. PICK j \in agentJobs : agentJobs = {j}
      BY <2>2 DEF ReviewInv, Lonely
    <3>2. Cardinality({j}) = 1
      BY FS_Singleton
    <3> QED BY <3>1, <3>2 DEF OneAgentOperation
  <2> QED BY <2>1, <2>2
<1>3. ThreadsFollowOperations
  BY DEF ThreadsFollowOperations, ReviewInv, ThreadOk, OverviewOk
<1> QED BY <1>1, <1>2, <1>3 DEF ReviewInv

\* A decision is about a page the session still has, of the version it shows.
LEMMA DecisionStep == ASSUME ReviewInv, [ReviewNext]_reviewVars PROVE DecisionAboutCurrent
<1> SUFFICES ASSUME verdict'.state = "decided", verdict.state # "decided"
             PROVE  /\ verdict.state = "open" /\ verdict'.gen = review.gen
                    /\ verdict'.page \in CachedPages
  BY DEF DecisionAboutCurrent
<1>1. PICK b \in Browsers : submit(b)
  <2>1. ~cancel_review
    BY DEF cancel_review, ReviewInv, ReviewTypes, VerdictRow
  <2>2. ASSUME NEW b \in Browsers, NEW range \in Ranges,
               \/ begin_range(b, range) \/ begin_submit(b, range)
               \/ load_overview(b, range) \/ ask_question(b, range)
        PROVE  FALSE
    BY <2>2 DEF begin_range, begin_submit, load_overview, ask_question, Spawn
  <2>3. ASSUME NEW b \in Browsers,
               begin_refresh(b) \/ refresh_review(b) \/ load_range(b) \/ browser_reload(b)
        PROVE  FALSE
    BY <2>3 DEF begin_refresh, refresh_review, load_range, browser_reload
  <2>4. ASSUME NEW j \in agentJobs, run_agent(j) \/ store_result(j) \/ cancel_question(j)
        PROVE  FALSE
    BY <2>4 DEF run_agent, store_result, cancel_question
  <2>5. ~edit_workspace /\ ~UNCHANGED reviewVars
    BY DEF edit_workspace, reviewVars
  <2> QED BY <2>1, <2>2, <2>3, <2>4, <2>5 DEF ReviewNext
<1>2. PICK h \in HandlerRow : h = handlers[b]
  BY <1>1 DEF ReviewInv, ReviewTypes
<1>3. /\ h.kind = "submit" /\ h.stage \in {"validate", "take"}
      /\ HandlerOk(h, review.gen, review.version, workspaceVersion)
  BY <1>1, <1>2 DEF submit, ReviewInv, HandlerOk
<1>4. h.stage = "take"
  BY <1>1, <1>2, <1>3 DEF submit
<1>5. /\ SubmitMatches(h) /\ verdict.state = "open"
      /\ verdict' = [state |-> "decided", gen |-> h.gen, page |-> Page(h.range, h.at)]
  BY <1>1, <1>2, <1>4 DEF submit
<1>6. PICK p \in CachedPages : p.range = h.range
  BY <1>5 DEF SubmitMatches, Matching
<1>7. h.gen = review.gen /\ h.at = review.version
  BY <1>3, <1>5 DEF SubmitMatches, Matching, HandlerOk
<1>8. p.at = review.version /\ p \in PageSet
  <2>1. p.at = review.version
    BY <1>6 DEF ReviewInv, OneVersionShown
  <2>2. CachedPages \subseteq PageSet
    BY DEF ReviewInv, ReviewTypes, ReviewRow, CachedPages
  <2> QED BY <1>6, <2>1, <2>2
<1>9. p = Page(h.range, h.at)
  BY <1>6, <1>7, <1>8 DEF Page, PageSet
<1> QED BY <1>5, <1>6, <1>7, <1>9

-----------------------------------------------------------------------------
(* The page of a review in one browser. *)

TurnRow == [turn : QuestionTurns, op : Nat, by : {"page", "server"}]
ServedRow == [turn : QuestionTurns, op : Nat, by : {"server"}]
CallKinds == {"range", "overview", "question", "poll", "status", "refresh", "review"}
Replies ==
    {"none", "running", "ok", "failed", "stale_snapshot", "operation_cancelled", "network_error"}
CallRow ==
    [kind : CallKinds, id : Nat, gen : Nat, span : Spans \cup {NoSpan}, op : Nat,
     by : {"page", "server"}, reply : Replies, rgen : Nat, thread : ServedRow]
AgentRow == [kind : {"none", "overview", "question"}, op : Nat, by : {"page", "server"}]
AwaitedRow == [span : Spans \cup {NoSpan}, op : Nat]
ShownRow == [gen : Nat, span : Spans \cup {NoSpan}]
UiRow ==
    [gen : 0..MaxServerGen, page : ShownRow, loading : Spans \cup {NoSpan},
     rangeRequest : Nat, agent : AgentRow, overview : AwaitedRow,
     thread : TurnRow, timer : BOOLEAN, refreshing : BOOLEAN, checking : BOOLEAN,
     snapshotStale : BOOLEAN, generationStale : BOOLEAN, overlapped : BOOLEAN, next : 1..(MaxCalls + 1)]

ServerRow == [gen : 0..MaxServerGen, thread : ServedRow]

BrowserTypes ==
    /\ reviewServer \in ServerRow /\ ui \in UiRow
    /\ calls \subseteq CallRow /\ disturbed \in 0..MaxDisturbed

\* The requests that follow a question, and those that renew the session.
Tracks(c) == c.kind \in {"question", "poll"}
Renews(c) == c.kind \in {"refresh", "review"}

\* What an answer says of the server at generation g: a poll that was refused
\* belongs to an older generation, one that was answered to no later one.
CallOk(c, g) ==
    /\ c.gen <= g /\ c.rgen <= g
    /\ c.kind = "question" => c.by = "page"
    /\ c.kind = "poll" => /\ c.reply # "running" /\ (c.reply = "stale_snapshot" => c.gen < g)
                          /\ (c.reply = "ok" => c.gen <= c.rgen)

\* The question under way ends: its timer, a poll or its own request is there.
Supported(u, cs) ==
    u.agent.kind = "question" =>
        \/ u.timer
        \/ \E c \in cs : c.kind = "poll"
        \/ u.agent.by = "page" /\ \E c \in cs : c.kind = "question" /\ c.op = u.agent.op

\* In a session that was not installed over a question under way, that
\* question is followed by its timer or by one request, of the session shown.
CleanOk(u, cs) ==
    /\ u.timer => u.agent.kind = "question"
    /\ \A c \in cs : Tracks(c) => /\ u.agent.kind = "question" /\ ~u.timer
                                   /\ c.op = u.agent.op /\ c.by = u.agent.by /\ c.gen = u.gen
    /\ \A c, d \in cs : Tracks(c) /\ Tracks(d) => c = d

FollowerOk(u, cs) == Supported(u, cs) /\ (~u.overlapped => CleanOk(u, cs))

\* The session is renewed by one request.
RenewalOk(u, cs) ==
    /\ u.refreshing => \E c \in cs : Renews(c)
    /\ \A c \in cs : Renews(c) => u.refreshing
    /\ \A c, d \in cs : Renews(c) /\ Renews(d) => c = d

\* A range or an overview is awaited.
AwaitedOk(u, cs) ==
    /\ u.loading # NoSpan => \E c \in cs : c.kind = "range" /\ c.id = u.rangeRequest
    /\ u.agent.kind = "overview" => /\ \E c \in cs : c.kind = "overview" /\ c.op = u.agent.op
                                    /\ u.agent.op = u.overview.op /\ u.agent.by = "server"

\* The page at generation g of the server: the thread it shows is the question
\* it follows.
PageOk(u, g) ==
    /\ u.gen <= g /\ u.page.gen = u.gen
    /\ ~u.overlapped /\ u.thread.turn = "asking" /\ u.gen = g =>
           u.agent = Operation("question", u.thread.op, u.thread.by)

BrowserInv ==
    /\ BrowserTypes /\ \A c \in calls : CallOk(c, reviewServer.gen)
    /\ FollowerOk(ui, calls) /\ RenewalOk(ui, calls) /\ AwaitedOk(ui, calls)
    /\ PageOk(ui, reviewServer.gen)

\* The constants of the page.
LEMMA BrowserConstants ==
    /\ FirstSpan \in Spans /\ NoSpan \notin Spans
    /\ MaxServerGen \in Nat /\ MaxCalls \in Nat /\ MaxDisturbed \in Nat
BY ReviewBrowserAssumption

\* The page that is shown first, before anything is asked for.
LEMMA BrowserStart == BrowserInit => BrowserInv
<1> SUFFICES ASSUME BrowserInit PROVE BrowserInv
  OBVIOUS
<1>1. /\ QuietThread \in TurnRow \cap ServedRow /\ QuietThread.turn = "none" /\ NoAgent \in AgentRow
      /\ NoAgent.kind = "none" /\ NoOverview \in AwaitedRow
  BY DEF QuietThread, TurnRow, ServedRow, QuestionTurns, NoOp, NoAgent, Operation, AgentRow, NoOverview, AwaitedRow
<1>2. /\ ui.gen = 0 /\ ui.page.gen = 0 /\ ui.loading = NoSpan /\ ui.agent = NoAgent
      /\ ui.thread = QuietThread /\ ui.timer = FALSE /\ ui.refreshing = FALSE
      /\ calls = {} /\ reviewServer.gen = 0
  BY DEF BrowserInit
<1>3. ui \in UiRow
  BY <1>1, BrowserConstants DEF BrowserInit, UiRow, ShownRow
<1>4. BrowserTypes
  <2>1. reviewServer \in ServerRow /\ disturbed \in 0..MaxDisturbed
    BY <1>1, BrowserConstants DEF BrowserInit, ServerRow
  <2> QED BY <1>2, <1>3, <2>1 DEF BrowserTypes
<1> QED BY <1>1, <1>2, <1>4
       DEF BrowserInv, FollowerOk, Supported, CleanOk, RenewalOk, AwaitedOk, PageOk

\* A request that was answered, or whose answer was lost, is the same request.
SameCall(d, c) == /\ d \in CallRow /\ d.kind = c.kind /\ d.id = c.id /\ d.gen = c.gen
                  /\ d.op = c.op /\ d.by = c.by
LEMMA RelabelKept ==
    ASSUME BrowserInv, NEW F, calls' = {F[c] : c \in calls},
           \A c \in calls : SameCall(F[c], c) /\ CallOk(F[c], reviewServer'.gen),
           reviewServer' \in ServerRow, reviewServer.gen <= reviewServer'.gen,
           disturbed' \in 0..MaxDisturbed, UNCHANGED ui
    PROVE  BrowserInv'
<1>1. BrowserTypes'
  BY DEF BrowserInv, BrowserTypes, SameCall
<1>2. \A c \in calls' : CallOk(c, reviewServer'.gen)
  OBVIOUS
<1>3. FollowerOk(ui', calls')
  <2>1. FollowerOk(ui, calls)
    BY DEF BrowserInv
  <2>2. Supported(ui', calls')
    BY <2>1 DEF FollowerOk, Supported, SameCall
  <2>3. CleanOk(ui, calls) => CleanOk(ui', calls')
    BY DEF CleanOk, Tracks, SameCall
  <2> QED BY <2>1, <2>2, <2>3 DEF FollowerOk
<1>4. RenewalOk(ui', calls')
  <2>1. RenewalOk(ui, calls)
    BY DEF BrowserInv
  <2> QED BY <2>1 DEF RenewalOk, Renews, SameCall
<1>5. AwaitedOk(ui', calls')
  <2>1. AwaitedOk(ui, calls)
    BY DEF BrowserInv
  <2> QED BY <2>1 DEF AwaitedOk, SameCall
<1>6. PageOk(ui', reviewServer'.gen)
  <2>1. PageOk(ui, reviewServer.gen)
    BY DEF BrowserInv
  <2>2. ui.gen \in Nat /\ reviewServer.gen \in Nat /\ reviewServer'.gen \in Nat
    BY BrowserConstants DEF BrowserInv, BrowserTypes, UiRow, ServerRow
  <2> QED BY <2>1, <2>2 DEF PageOk
<1> QED BY <1>1, <1>2, <1>3, <1>4, <1>5, <1>6 DEF BrowserInv

\* One request is answered.
LEMMA AnswerKept ==
    ASSUME BrowserInv, NEW c \in calls, NEW d, calls' = (calls \ {c}) \cup {d},
           SameCall(d, c), CallOk(d, reviewServer'.gen),
           reviewServer' \in ServerRow, reviewServer.gen <= reviewServer'.gen,
           disturbed' \in 0..MaxDisturbed, UNCHANGED ui
    PROVE  BrowserInv'
<1> DEFINE F == [x \in calls |-> IF x = c THEN d ELSE x]
<1>1. calls' = {F[x] : x \in calls}
  OBVIOUS
<1>2. ASSUME NEW x \in calls PROVE SameCall(F[x], x) /\ CallOk(F[x], reviewServer'.gen)
  <2>1. x \in CallRow /\ CallOk(x, reviewServer.gen)
    BY DEF BrowserInv, BrowserTypes
  <2>2. /\ x.gen \in Nat /\ x.rgen \in Nat /\ reviewServer.gen \in Nat
        /\ reviewServer'.gen \in Nat
    BY <2>1, BrowserConstants DEF CallRow, ServerRow, BrowserInv, BrowserTypes
  <2>3. SameCall(x, x) /\ CallOk(x, reviewServer'.gen)
    BY <2>1, <2>2 DEF SameCall, CallOk
  <2> QED BY <2>3
<1> HIDE DEF F
<1> QED BY <1>1, <1>2, RelabelKept

\* A request with the answer r, of generation g and with thread t.
Marked(c, r) == [c EXCEPT !.reply = r]
Settled(c, r, g) == [c EXCEPT !.reply = r, !.rgen = g]
Replied(c, r, g, t) == [c EXCEPT !.reply = r, !.rgen = g, !.thread = t]
LEMMA MarkedFacts ==
    \A c \in CallRow, r \in Replies :
        SameCall(Marked(c, r), c) /\ Marked(c, r).reply = r /\ Marked(c, r).rgen = c.rgen
BY DEF CallRow, SameCall, Marked

\* The answer of a question names the generation only.
LEMMA SettledFacts ==
    \A c \in CallRow, r \in Replies, g \in Nat :
        SameCall(Settled(c, r, g), c) /\ Settled(c, r, g).reply = r /\ Settled(c, r, g).rgen = g
BY DEF CallRow, SameCall, Settled

\* Any other answer carries the thread.
LEMMA RepliedFacts ==
    \A c \in CallRow, r \in Replies, g \in Nat, t \in ServedRow :
        /\ SameCall(Replied(c, r, g, t), c) /\ Replied(c, r, g, t).reply = r
        /\ Replied(c, r, g, t).rgen = g
<1> TAKE c \in CallRow, r \in Replies, g \in Nat, t \in ServedRow
<1> DEFINE d == Replied(c, r, g, t)
<1>1. d \in CallRow
  BY DEF CallRow, Replied
<1>2. d.kind = c.kind /\ d.id = c.id /\ d.gen = c.gen /\ d.op = c.op /\ d.by = c.by
  BY DEF CallRow, Replied
<1>3. d.reply = r /\ d.rgen = g
  BY DEF CallRow, Replied
<1> QED BY <1>1, <1>2, <1>3 DEF SameCall

\* What the invariant says of one request and of the server.
LEMMA CallFacts ==
    ASSUME BrowserInv, NEW c \in calls
    PROVE  /\ c \in CallRow /\ c.gen \in Nat /\ c.rgen \in Nat /\ c.op \in Nat /\ c.by \in {"page", "server"}
           /\ c.kind \in CallKinds /\ c.thread \in ServedRow /\ c.thread \in TurnRow
           /\ c.thread.by = "server"
           /\ c.span \in Spans \cup {NoSpan}
           /\ c.reply \in Replies /\ CallOk(c, reviewServer.gen)
<1>1. /\ c \in CallRow /\ c.gen \in Nat /\ c.rgen \in Nat /\ c.op \in Nat /\ c.by \in {"page", "server"}
      /\ c.kind \in CallKinds /\ c.thread \in ServedRow /\ c.span \in Spans \cup {NoSpan}
      /\ c.reply \in Replies /\ CallOk(c, reviewServer.gen)
  BY DEF BrowserInv, BrowserTypes, CallRow
<1>2. \A t \in ServedRow : t \in TurnRow /\ t.by = "server"
  BY DEF ServedRow, TurnRow
<1> QED BY <1>1, <1>2

\* The server's generation and thread.
LEMMA ServerFacts ==
    ASSUME BrowserInv
    PROVE  /\ reviewServer \in ServerRow /\ reviewServer.gen \in 0..MaxServerGen
           /\ reviewServer.gen \in Nat /\ reviewServer.thread \in ServedRow
           /\ disturbed \in 0..MaxDisturbed
BY BrowserConstants DEF BrowserInv, BrowserTypes, ServerRow

\* The server answers a request about the generation g.
LEMMA AnsweredKept ==
    ASSUME BrowserInv, NEW c \in calls, NEW r \in Replies, Answer(c, r),
           r # "running", r = "stale_snapshot" => c.gen # reviewServer.gen,
           reviewServer' \in ServerRow, reviewServer.gen <= reviewServer'.gen,
           UNCHANGED <<ui, disturbed>>
    PROVE  BrowserInv'
<1>1. reviewServer'.gen \in Nat /\ reviewServer'.thread \in ServedRow
  BY BrowserConstants DEF ServerRow
<1>2. PICK d : d = Replied(c, r, reviewServer'.gen, reviewServer'.thread)
  OBVIOUS
<1>3. SameCall(d, c) /\ d.reply = r /\ d.rgen = reviewServer'.gen
  <2>1. c \in CallRow
    BY CallFacts
  <2> QED BY <1>1, <1>2, <2>1, RepliedFacts
<1>4. calls' = (calls \ {c}) \cup {d}
  BY <1>2 DEF Answer, Answered, Replied
<1>5. /\ c.gen \in Nat /\ c.gen <= reviewServer.gen /\ reviewServer.gen \in Nat
      /\ disturbed' \in 0..MaxDisturbed
      /\ c.kind = "question" => c.by = "page"
  BY CallFacts, ServerFacts DEF CallOk
<1>6. CallOk(d, reviewServer'.gen)
  BY <1>1, <1>3, <1>5 DEF CallOk, SameCall
<1> QED BY <1>3, <1>4, <1>5, <1>6, AnswerKept

\* A thread that is asked.
LEMMA AskingFacts ==
    /\ QuietThread \in TurnRow \cap ServedRow /\ QuietThread.turn = "none"
    /\ \A op \in Nat : Asking(op, "server") \in ServedRow
    /\ \A op \in Nat, by \in {"page", "server"} :
          /\ Asking(op, by) \in TurnRow /\ Asking(op, by).turn = "asking"
          /\ Asking(op, by).op = op /\ Asking(op, by).by = by
BY DEF QuietThread, Asking, TurnRow, ServedRow, QuestionTurns, NoOp

\* The server with another thread.
Threaded(s, t) == [s EXCEPT !.thread = t]
LEMMA ThreadedFacts ==
    \A s \in ServerRow, t \in ServedRow : Threaded(s, t) \in ServerRow /\ Threaded(s, t).gen = s.gen
BY DEF ServerRow, Threaded

\* The server at its next generation.
LEMMA RegeneratedFacts ==
    ASSUME BrowserInv, NextGeneration
    PROVE  /\ reviewServer' \in ServerRow /\ reviewServer.gen <= reviewServer'.gen
           /\ reviewServer'.gen = reviewServer.gen + 1
BY ServerFacts, AskingFacts, BrowserConstants DEF ServerRow, NextGeneration

\* The questions of the last generation are cancelled; one request may be
\* answered with the new one.
LEMMA RegeneratedKept ==
    ASSUME BrowserInv, NextGeneration, disturbed' \in 0..MaxDisturbed, UNCHANGED ui, NEW a \in calls,
           \/ calls' = Regenerated(calls)
           \/ /\ a.kind = "refresh"
              /\ calls' = Regenerated(calls \ {a}) \cup {Answered(a, "ok")}
    PROVE  BrowserInv'
<1> DEFINE M(c) == IF c.reply = "running" THEN Marked(c, "operation_cancelled") ELSE c
           g == reviewServer'.gen
<1>1. /\ reviewServer' \in ServerRow /\ reviewServer.gen <= g /\ g = reviewServer.gen + 1
      /\ g \in Nat /\ reviewServer'.thread \in ServedRow
  BY RegeneratedFacts, ServerFacts, BrowserConstants DEF ServerRow
<1>2. ASSUME NEW c \in calls PROVE SameCall(M(c), c) /\ CallOk(M(c), g)
  <2>1. /\ c \in CallRow /\ CallOk(c, reviewServer.gen) /\ c.gen \in Nat /\ c.rgen \in Nat
        /\ reviewServer.gen \in Nat
    BY CallFacts, ServerFacts
  <2>2. PICK d : d = M(c)
    OBVIOUS
  <2>3. /\ SameCall(d, c) /\ d.rgen = c.rgen
        /\ d.reply = c.reply \/ d.reply = "operation_cancelled"
    BY <2>1, <2>2, MarkedFacts DEF SameCall, Replies
  <2>4. CallOk(d, g)
    BY <1>1, <2>1, <2>3 DEF CallOk, SameCall
  <2> QED BY <2>2, <2>3, <2>4
<1>3. CASE calls' = Regenerated(calls)
  <2> DEFINE F == [c \in calls |-> M(c)]
  <2>1. calls' = {F[c] : c \in calls}
    BY <1>3 DEF Regenerated, Marked
  <2>2. \A c \in calls : SameCall(F[c], c) /\ CallOk(F[c], g)
    BY <1>2
  <2> HIDE DEF F
  <2> QED BY <1>1, <2>1, <2>2, RelabelKept
<1>4. CASE /\ a.kind = "refresh"
           /\ calls' = Regenerated(calls \ {a}) \cup {Answered(a, "ok")}
  <2> DEFINE N == Replied(a, "ok", g, reviewServer'.thread)
             F == [c \in calls |-> IF c = a THEN N ELSE M(c)]
  <2>1. Regenerated(calls \ {a}) = {M(c) : c \in calls \ {a}} /\ Answered(a, "ok") = N
    BY DEF Regenerated, Marked, Answered, Replied
  <2>2. calls' = {F[c] : c \in calls}
    BY <1>4, <2>1
  <2>3. SameCall(N, a) /\ CallOk(N, g)
    <3>1. PICK d : d = N
      OBVIOUS
    <3>2. SameCall(d, a) /\ d.reply = "ok" /\ d.rgen = g
      <4>1. a \in CallRow /\ "ok" \in Replies
        BY CallFacts DEF Replies
      <4> QED BY <1>1, <3>1, <4>1, RepliedFacts
    <3>3. a.gen \in Nat /\ a.gen <= reviewServer.gen /\ reviewServer.gen \in Nat
      BY CallFacts, ServerFacts DEF CallOk
    <3>4. CallOk(d, g)
      BY <1>1, <1>4, <3>2, <3>3 DEF CallOk, SameCall
    <3> QED BY <3>1, <3>2, <3>4
  <2>4. \A c \in calls : SameCall(F[c], c) /\ CallOk(F[c], g)
    BY <1>2, <2>3
  <2> HIDE DEF F
  <2> QED BY <1>1, <2>2, <2>4, RelabelKept
<1> QED BY <1>3, <1>4

\* serve: every answer is about the generation the server is then at.
LEMMA ServeStep == ASSUME BrowserInv, NEW c \in calls, serve(c) PROVE BrowserInv'
<1>1. /\ c.kind \in CallKinds /\ reviewServer \in ServerRow /\ UNCHANGED <<ui, disturbed>>
      /\ reviewServer.gen \in Nat
  BY CallFacts, ServerFacts DEF serve
<1>2. ASSUME NEW r \in {"ok", "failed"}, UNCHANGED reviewServer, Answer(c, r) PROVE BrowserInv'
  BY <1>1, <1>2, AnsweredKept DEF Replies
<1>3. CASE c.kind \in {"review", "status"}
  BY <1>2, <1>3 DEF serve
<1>4. CASE c.kind \notin {"review", "status"} /\ c.gen # reviewServer.gen
  <2>1. UNCHANGED reviewServer /\ Answer(c, "stale_snapshot")
    BY <1>4 DEF serve
  <2> QED BY <1>1, <1>4, <2>1, AnsweredKept DEF Replies
<1>5. CASE c.kind = "refresh" /\ c.gen = reviewServer.gen
  <2>1. NextGeneration /\ calls' = Regenerated(calls \ {c}) \cup {Answered(c, "ok")}
    BY <1>5 DEF serve
  <2>2. disturbed' \in 0..MaxDisturbed
    BY <1>1, ServerFacts
  <2> QED BY <1>1, <1>5, <2>1, <2>2, RegeneratedKept
<1>6. CASE c.kind \in {"range", "overview"} /\ c.gen = reviewServer.gen
  BY <1>2, <1>6 DEF serve
<1>7. CASE c.kind = "poll" /\ c.gen = reviewServer.gen
  BY <1>2, <1>7 DEF serve
<1>8. CASE c.kind = "question" /\ c.gen = reviewServer.gen
  <2>1. \/ /\ reviewServer' = Threaded(reviewServer, Asking(c.op, "server"))
           /\ calls' = (calls \ {c}) \cup {Marked(c, "running")}
        \/ UNCHANGED reviewServer /\ Answer(c, "failed")
    BY <1>8 DEF serve, Threaded, Marked
  <2>2. CASE /\ reviewServer' = Threaded(reviewServer, Asking(c.op, "server"))
             /\ calls' = (calls \ {c}) \cup {Marked(c, "running")}
    <3>1. reviewServer' \in ServerRow /\ reviewServer'.gen = reviewServer.gen
      <4>1. c.op \in Nat
        BY CallFacts
      <4>2. PICK t \in ServedRow : t = Asking(c.op, "server")
        BY <4>1, AskingFacts
      <4> QED BY <1>1, <2>2, <4>2, ThreadedFacts
    <3>2. PICK d : d = Marked(c, "running")
      OBVIOUS
    <3>3. SameCall(d, c) /\ d.rgen = c.rgen
      BY <3>2, CallFacts, MarkedFacts DEF Replies
    <3>4. CallOk(d, reviewServer'.gen)
      BY <1>8, <3>1, <3>3, CallFacts DEF CallOk, SameCall
    <3>5. disturbed' \in 0..MaxDisturbed
      BY <1>1, ServerFacts
    <3> QED BY <1>1, <2>2, <3>1, <3>2, <3>3, <3>4, <3>5, AnswerKept
  <2> QED BY <1>2, <2>1, <2>2
<1> QED BY <1>1, <1>3, <1>4, <1>5, <1>6, <1>7, <1>8 DEF CallKinds

\* server_settles: only a question runs.
LEMMA SettlesStep ==
    ASSUME BrowserInv, NEW turn \in {"idle", "error", "cancelled"}, server_settles(turn)
    PROVE  BrowserInv'
<1> DEFINE waiting == {c \in calls : c.reply = "running" /\ c.op = reviewServer.thread.op}
           r == IF turn = "idle" THEN "ok"
                ELSE IF turn = "cancelled" THEN "operation_cancelled" ELSE "failed"
           F == [c \in calls |-> IF c \in waiting THEN Settled(c, r, reviewServer.gen) ELSE c]
<1>1. r \in Replies /\ r # "running" /\ r # "stale_snapshot"
  BY DEF Replies
<1>2. /\ calls' = (calls \ waiting) \cup {Settled(c, r, reviewServer.gen) : c \in waiting}
      /\ UNCHANGED <<ui, disturbed>>
      /\ reviewServer' = [reviewServer EXCEPT !.thread.turn = turn]
  BY DEF server_settles, Settled
<1>3. reviewServer' \in ServerRow /\ reviewServer'.gen = reviewServer.gen
  BY <1>2, ServerFacts DEF ServerRow, ServedRow, QuestionTurns
<1>4. calls' = {F[c] : c \in calls}
  BY <1>2
<1>5. ASSUME NEW c \in calls PROVE SameCall(F[c], c) /\ CallOk(F[c], reviewServer'.gen)
  <2>1. c \in CallRow /\ CallOk(c, reviewServer.gen) /\ c.gen \in Nat /\ reviewServer.gen \in Nat
    BY CallFacts, ServerFacts
  <2>2. CASE c \in waiting
    <3>1. PICK d : d = F[c]
      OBVIOUS
    <3>2. SameCall(d, c) /\ d.reply = r /\ d.rgen = reviewServer.gen
      BY <1>1, <2>1, <2>2, <3>1, SettledFacts
    <3>3. c.kind # "poll"
      BY <2>1, <2>2 DEF CallOk
    <3>4. CallOk(d, reviewServer'.gen)
      BY <1>3, <2>1, <3>2, <3>3 DEF CallOk, SameCall
    <3> QED BY <3>1, <3>2, <3>4
  <2>3. CASE c \notin waiting
    BY <1>3, <2>1, <2>3 DEF SameCall
  <2> QED BY <2>2, <2>3
<1>6. disturbed' \in 0..MaxDisturbed /\ reviewServer.gen <= reviewServer'.gen
  BY <1>2, <1>3, ServerFacts
<1> HIDE DEF F
<1> QED BY <1>2, <1>3, <1>4, <1>5, <1>6, RelabelKept

\* Another browser refreshes the review.
LEMMA OtherRefreshesStep == ASSUME BrowserInv, other_refreshes PROVE BrowserInv'
<1>1. NextGeneration /\ calls' = Regenerated(calls) /\ UNCHANGED ui
  BY DEF other_refreshes
<1>2. disturbed' \in 0..MaxDisturbed
  BY ServerFacts, BrowserConstants DEF other_refreshes
<1>3. CASE calls # {}
  BY <1>1, <1>2, <1>3, RegeneratedKept
<1>4. CASE calls = {}
  <2>1. calls' = {[d \in calls |-> d][c] : c \in calls}
    BY <1>1, <1>4 DEF Regenerated
  <2>2. reviewServer' \in ServerRow /\ reviewServer.gen <= reviewServer'.gen
    BY <1>1, RegeneratedFacts
  <2> QED BY <1>1, <1>2, <1>4, <2>1, <2>2, RelabelKept
<1> QED BY <1>3, <1>4

\* Another browser asks.
LEMMA OtherAsksStep == ASSUME BrowserInv, other_asks PROVE BrowserInv'
<1>1. reviewServer' \in ServerRow /\ reviewServer'.gen = reviewServer.gen
  <2>1. OtherOp \in Nat /\ Asking(OtherOp, "server") \in ServedRow
    BY BrowserConstants DEF OtherOp, Asking, ServedRow, QuestionTurns
  <2> QED BY <2>1, ServerFacts, ThreadedFacts DEF other_asks, Threaded
<1>2. disturbed' \in 0..MaxDisturbed /\ UNCHANGED <<ui, calls>> /\ reviewServer.gen \in Nat
  BY ServerFacts, BrowserConstants DEF other_asks
<1> DEFINE F == [c \in calls |-> c]
<1>3. calls' = {F[c] : c \in calls}
  BY <1>2
<1>4. \A c \in calls : SameCall(F[c], c) /\ CallOk(F[c], reviewServer'.gen)
  BY <1>1, CallFacts DEF SameCall
<1> HIDE DEF F
<1> QED BY <1>1, <1>2, <1>3, <1>4, RelabelKept

\* A request or an answer is lost.
LEMMA LostStep == ASSUME BrowserInv, NEW c \in calls, network_error(c) PROVE BrowserInv'
<1>1. PICK d : d = Marked(c, "network_error")
  OBVIOUS
<1>2. SameCall(d, c) /\ d.rgen = c.rgen /\ d.reply = "network_error"
  BY <1>1, CallFacts, MarkedFacts DEF Replies
<1>3. /\ calls' = (calls \ {c}) \cup {d} /\ UNCHANGED <<reviewServer, ui>>
  BY <1>1 DEF network_error, Marked
<1>4. disturbed' \in 0..MaxDisturbed /\ reviewServer \in ServerRow /\ reviewServer.gen \in Nat
  BY ServerFacts, BrowserConstants DEF network_error
<1>5. CallOk(d, reviewServer.gen)
  BY <1>2, CallFacts DEF CallOk, SameCall
<1> QED BY <1>2, <1>3, <1>4, <1>5, AnswerKept

\* The page with some of its fields changed.
Fetching(u, s, n) == [u EXCEPT !.loading = s, !.rangeRequest = n]
Loaded(u, s, p) == [u EXCEPT !.loading = s, !.page = p]
Unloaded(u, s) == [u EXCEPT !.loading = s]
Engaged(u, a, o) == [u EXCEPT !.agent = a, !.overview = o]
Questioning(u, a, t) == [u EXCEPT !.agent = a, !.thread = t]
Concluding(u, t, a) == [u EXCEPT !.thread = t, !.agent = a]
Renewing(u, b) == [u EXCEPT !.refreshing = b]
Timed(u, b) == [u EXCEPT !.timer = b]
Checking(u, b) == [u EXCEPT !.checking = b]
Numbered(u, n) == [u EXCEPT !.next = n]
Stale(u, b) == [u EXCEPT !.snapshotStale = b]
Checked(u, b, g, s) == [u EXCEPT !.checking = b, !.generationStale = g, !.snapshotStale = s]
Abandoned(u, a, g, s) == [u EXCEPT !.agent = a, !.generationStale = g, !.snapshotStale = s]

\* What two pages have in common.
SamePage(v, u) == v \in UiRow /\ v.gen = u.gen /\ v.page = u.page
SameLoading(v, u) ==
    v.loading = u.loading /\ v.rangeRequest = u.rangeRequest /\ v.overview = u.overview
SameFlags(v, u) ==
    v.timer = u.timer /\ v.refreshing = u.refreshing /\ v.overlapped = u.overlapped
SameTalk(v, u) == v.agent = u.agent /\ v.thread = u.thread
SameUi(v, u) == SamePage(v, u) /\ SameLoading(v, u) /\ SameFlags(v, u) /\ SameTalk(v, u)

\* A range is being loaded.
LEMMA FetchingFacts ==
    \A u \in UiRow, s \in Spans \cup {NoSpan}, n \in Nat :
        LET v == Fetching(u, s, n) IN
        /\ SamePage(v, u) /\ SameFlags(v, u) /\ SameTalk(v, u) /\ v.loading = s /\ v.rangeRequest = n
        /\ v.overview = u.overview
<1> TAKE u \in UiRow, s \in Spans \cup {NoSpan}, n \in Nat
<1> DEFINE v == Fetching(u, s, n)
<1>1. v \in UiRow
  BY DEF UiRow, Fetching
<1>2. v.loading = s /\ v.rangeRequest = n /\ v.overview = u.overview
  BY DEF UiRow, Fetching
<1>3. v.gen = u.gen /\ v.page = u.page
  BY DEF UiRow, Fetching
<1>4. v.timer = u.timer /\ v.refreshing = u.refreshing /\ v.overlapped = u.overlapped
  BY DEF UiRow, Fetching
<1>5. v.agent = u.agent /\ v.thread = u.thread
  BY DEF UiRow, Fetching
<1> QED BY <1>1, <1>2, <1>3, <1>4, <1>5 DEF SamePage, SameFlags, SameTalk

\* The page of a range is installed.
LEMMA LoadedFacts ==
    \A u \in UiRow, s \in Spans \cup {NoSpan}, p \in ShownRow :
        LET v == Loaded(u, s, p) IN
        /\ v \in UiRow /\ v.gen = u.gen /\ v.page = p /\ v.loading = s /\ v.rangeRequest = u.rangeRequest
        /\ SameFlags(v, u) /\ SameTalk(v, u) /\ v.overview = u.overview
<1> TAKE u \in UiRow, s \in Spans \cup {NoSpan}, p \in ShownRow
<1> DEFINE v == Loaded(u, s, p)
<1>1. v \in UiRow
  BY DEF UiRow, Loaded
<1>2. v.loading = s /\ v.rangeRequest = u.rangeRequest /\ v.overview = u.overview
  BY DEF UiRow, Loaded
<1>3. v.gen = u.gen /\ v.page = p
  BY DEF UiRow, Loaded
<1>4. v.timer = u.timer /\ v.refreshing = u.refreshing /\ v.overlapped = u.overlapped
  BY DEF UiRow, Loaded
<1>5. v.agent = u.agent /\ v.thread = u.thread
  BY DEF UiRow, Loaded
<1> QED BY <1>1, <1>2, <1>3, <1>4, <1>5 DEF SameFlags, SameTalk

\* A range was not loaded.
LEMMA UnloadedFacts ==
    \A u \in UiRow, s \in Spans \cup {NoSpan} :
        LET v == Unloaded(u, s) IN
        /\ SamePage(v, u) /\ SameFlags(v, u) /\ SameTalk(v, u) /\ v.loading = s
        /\ v.rangeRequest = u.rangeRequest /\ v.overview = u.overview
BY DEF UiRow, Unloaded, SamePage, SameFlags, SameTalk

\* An overview is asked for.
LEMMA EngagedFacts ==
    \A u \in UiRow, a \in AgentRow, o \in AwaitedRow :
        LET v == Engaged(u, a, o) IN
        /\ SamePage(v, u) /\ SameFlags(v, u) /\ v.loading = u.loading /\ v.rangeRequest = u.rangeRequest
        /\ v.agent = a /\ v.thread = u.thread /\ v.overview = o
<1> TAKE u \in UiRow, a \in AgentRow, o \in AwaitedRow
<1> DEFINE v == Engaged(u, a, o)
<1>1. v \in UiRow
  BY DEF UiRow, Engaged
<1>2. v.loading = u.loading /\ v.rangeRequest = u.rangeRequest /\ v.overview = o
  BY DEF UiRow, Engaged
<1>3. v.gen = u.gen /\ v.page = u.page /\ v.agent = a /\ v.thread = u.thread
  BY DEF UiRow, Engaged
<1>4. v.timer = u.timer /\ v.refreshing = u.refreshing /\ v.overlapped = u.overlapped
  BY DEF UiRow, Engaged
<1> QED BY <1>1, <1>2, <1>3, <1>4 DEF SamePage, SameFlags

\* The operation of the agent and the thread change.
LEMMA QuestioningFacts ==
    \A u \in UiRow, a \in AgentRow, t \in TurnRow :
        LET v == Questioning(u, a, t) IN
        SamePage(v, u) /\ SameFlags(v, u) /\ SameLoading(v, u) /\ v.agent = a /\ v.thread = t
<1> TAKE u \in UiRow, a \in AgentRow, t \in TurnRow
<1> DEFINE v == Questioning(u, a, t)
<1>1. v \in UiRow
  BY DEF UiRow, Questioning
<1>2. v.loading = u.loading /\ v.rangeRequest = u.rangeRequest /\ v.overview = u.overview
  BY DEF UiRow, Questioning
<1>3. v.gen = u.gen /\ v.page = u.page
  BY DEF UiRow, Questioning
<1>4. v.timer = u.timer /\ v.refreshing = u.refreshing /\ v.overlapped = u.overlapped
  BY DEF UiRow, Questioning
<1>5. v.agent = a /\ v.thread = t
  BY DEF UiRow, Questioning
<1> QED BY <1>1, <1>2, <1>3, <1>4, <1>5 DEF SamePage, SameFlags, SameLoading

\* The thread and the operation of the agent change.
LEMMA ConcludingFacts ==
    \A u \in UiRow, a \in AgentRow, t \in TurnRow :
        LET v == Concluding(u, t, a) IN
        SamePage(v, u) /\ SameFlags(v, u) /\ SameLoading(v, u) /\ v.agent = a /\ v.thread = t
<1> TAKE u \in UiRow, a \in AgentRow, t \in TurnRow
<1> DEFINE v == Concluding(u, t, a)
<1>1. v \in UiRow
  BY DEF UiRow, Concluding
<1>2. v.loading = u.loading /\ v.rangeRequest = u.rangeRequest /\ v.overview = u.overview
  BY DEF UiRow, Concluding
<1>3. v.gen = u.gen /\ v.page = u.page
  BY DEF UiRow, Concluding
<1>4. v.timer = u.timer /\ v.refreshing = u.refreshing /\ v.overlapped = u.overlapped
  BY DEF UiRow, Concluding
<1>5. v.agent = a /\ v.thread = t
  BY DEF UiRow, Concluding
<1> QED BY <1>1, <1>2, <1>3, <1>4, <1>5 DEF SamePage, SameFlags, SameLoading

\* The session is being renewed, or not any more.
LEMMA RenewingFacts ==
    \A u \in UiRow, b \in BOOLEAN :
        LET v == Renewing(u, b) IN
        /\ SamePage(v, u) /\ SameLoading(v, u) /\ SameTalk(v, u) /\ v.timer = u.timer /\ v.refreshing = b
        /\ v.overlapped = u.overlapped
BY DEF UiRow, Renewing, SamePage, SameLoading, SameTalk

\* The timer of the poll is set or has fired.
LEMMA TimedFacts ==
    \A u \in UiRow, b \in BOOLEAN :
        LET v == Timed(u, b) IN
        /\ SamePage(v, u) /\ SameLoading(v, u) /\ SameTalk(v, u) /\ v.timer = b
        /\ v.refreshing = u.refreshing /\ v.overlapped = u.overlapped
BY DEF UiRow, Timed, SamePage, SameLoading, SameTalk

\* The workspace is being checked, or not any more.
LEMMA CheckingFacts == \A u \in UiRow, b \in BOOLEAN : SameUi(Checking(u, b), u)
BY DEF UiRow, Checking, SameUi, SamePage, SameLoading, SameTalk, SameFlags

\* The snapshot is marked as stale.
LEMMA StaleFacts == \A u \in UiRow, b \in BOOLEAN : SameUi(Stale(u, b), u)
BY DEF UiRow, Stale, SameUi, SamePage, SameLoading, SameTalk, SameFlags

\* The workspace was checked.
LEMMA CheckedFacts == \A u \in UiRow, b, g, s \in BOOLEAN : SameUi(Checked(u, b, g, s), u)
<1> TAKE u \in UiRow, b, g, s \in BOOLEAN
<1> DEFINE v == Checked(u, b, g, s)
<1>1. v \in UiRow
  BY DEF UiRow, Checked
<1>2. v.loading = u.loading /\ v.rangeRequest = u.rangeRequest /\ v.overview = u.overview
  BY DEF UiRow, Checked
<1>3. v.gen = u.gen /\ v.page = u.page
  BY DEF UiRow, Checked
<1>4. v.timer = u.timer /\ v.refreshing = u.refreshing /\ v.overlapped = u.overlapped
  BY DEF UiRow, Checked
<1>5. v.agent = u.agent /\ v.thread = u.thread
  BY DEF UiRow, Checked
<1> QED BY <1>1, <1>2, <1>3, <1>4, <1>5 DEF SameUi, SamePage, SameLoading, SameTalk, SameFlags

\* The page belongs to an old generation.
LEMMA AbandonedFacts ==
    \A u \in UiRow, a \in AgentRow, g, s \in BOOLEAN :
        LET v == Abandoned(u, a, g, s) IN
        /\ SamePage(v, u) /\ SameFlags(v, u) /\ SameLoading(v, u) /\ v.agent = a /\ v.thread = u.thread
<1> TAKE u \in UiRow, a \in AgentRow, g, s \in BOOLEAN
<1> DEFINE v == Abandoned(u, a, g, s)
<1>1. v \in UiRow
  BY DEF UiRow, Abandoned
<1>2. v.loading = u.loading /\ v.rangeRequest = u.rangeRequest /\ v.overview = u.overview
  BY DEF UiRow, Abandoned
<1>3. v.gen = u.gen /\ v.page = u.page
  BY DEF UiRow, Abandoned
<1>4. v.timer = u.timer /\ v.refreshing = u.refreshing /\ v.overlapped = u.overlapped
  BY DEF UiRow, Abandoned
<1>5. v.agent = a /\ v.thread = u.thread
  BY DEF UiRow, Abandoned
<1> QED BY <1>1, <1>2, <1>3, <1>4, <1>5 DEF SamePage, SameLoading, SameFlags

\* The next request has another number.
LEMMA NumberedFacts ==
    \A u \in UiRow, n \in 1..(MaxCalls + 1) : SameUi(Numbered(u, n), u)
BY DEF UiRow, Numbered, SameUi, SamePage, SameLoading, SameTalk, SameFlags

\* What the invariant says of the page.
LEMMA UiFacts ==
    ASSUME BrowserInv
    PROVE  /\ ui \in UiRow /\ ui.gen \in Nat /\ ui.agent \in AgentRow /\ ui.thread \in TurnRow
           /\ ui.next \in 1..(MaxCalls + 1) /\ ui.next \in Nat /\ ui.loading \in Spans \cup {NoSpan}
           /\ ui.page \in ShownRow /\ ui.page.span \in Spans \cup {NoSpan}
           /\ ui.timer \in BOOLEAN /\ ui.refreshing \in BOOLEAN /\ ui.overlapped \in BOOLEAN
           /\ ui.overview \in AwaitedRow /\ ui.agent.op \in Nat /\ ui.agent.by \in {"page", "server"}
<1>1. ui \in UiRow
  BY DEF BrowserInv, BrowserTypes
<1>2. /\ ui.agent \in AgentRow /\ ui.thread \in TurnRow /\ ui.next \in 1..(MaxCalls + 1)
      /\ ui.loading \in Spans \cup {NoSpan} /\ ui.page \in ShownRow /\ ui.gen \in 0..MaxServerGen
  BY <1>1 DEF UiRow
<1>3. ui.timer \in BOOLEAN /\ ui.refreshing \in BOOLEAN /\ ui.overlapped \in BOOLEAN
      /\ ui.overview \in AwaitedRow
  BY <1>1 DEF UiRow
<1>4. ui.gen \in Nat /\ ui.next \in Nat /\ ui.page.span \in Spans \cup {NoSpan}
      /\ ui.agent.op \in Nat /\ ui.agent.by \in {"page", "server"}
  BY <1>2, BrowserConstants DEF ShownRow, AgentRow
<1> QED BY <1>1, <1>2, <1>3, <1>4

\* No operation of the agent.
LEMMA NoAgentFacts == NoAgent \in AgentRow /\ NoAgent.kind = "none" /\ NoAgent.by = "server"
BY DEF NoAgent, AgentRow, NoOp, Operation

\* An operation of the agent.
LEMMA OperationFacts ==
    \A k \in {"none", "overview", "question"}, n \in Nat, b \in {"page", "server"} :
        /\ Operation(k, n, b) \in AgentRow /\ Operation(k, n, b).kind = k
        /\ Operation(k, n, b).op = n /\ Operation(k, n, b).by = b
BY DEF AgentRow, Operation

\* A request that leaves.
LEMMA NewCallFacts ==
    ASSUME BrowserInv, NEW g \in Nat, NEW k \in CallKinds, NEW s \in Spans \cup {NoSpan}, NEW n \in Nat,
           NEW b \in {"page", "server"}, NEW c, c = Call(g, k, s, n, b)
    PROVE  /\ c \in CallRow /\ c.kind = k /\ c.id = ui.next /\ c.gen = g /\ c.op = n /\ c.by = b
           /\ c.reply = "none" /\ c.rgen = 0
<1>1. ui.next \in Nat /\ QuietThread \in ServedRow
  BY UiFacts, AskingFacts
<1> QED BY <1>1 DEF Call, CallRow, Replies

\* Two pages that look the same are in order together.
LEMMA SameInOrder ==
    ASSUME NEW v, NEW u, SameUi(v, u), NEW cs, NEW g,
           FollowerOk(u, cs), RenewalOk(u, cs), AwaitedOk(u, cs), PageOk(u, g)
    PROVE  FollowerOk(v, cs) /\ RenewalOk(v, cs) /\ AwaitedOk(v, cs) /\ PageOk(v, g)
<1>1. /\ v.gen = u.gen /\ v.page = u.page /\ v.loading = u.loading /\ v.rangeRequest = u.rangeRequest
      /\ v.timer = u.timer /\ v.refreshing = u.refreshing /\ v.agent = u.agent /\ v.thread = u.thread
      /\ v.overview = u.overview /\ v.overlapped = u.overlapped
  BY DEF SameUi, SamePage, SameLoading, SameFlags, SameTalk
<1>2. FollowerOk(v, cs)
  BY <1>1 DEF FollowerOk, Supported, CleanOk
<1>3. RenewalOk(v, cs)
  BY <1>1 DEF RenewalOk
<1>4. AwaitedOk(v, cs)
  BY <1>1 DEF AwaitedOk
<1>5. PageOk(v, g)
  BY <1>1 DEF PageOk
<1> QED BY <1>2, <1>3, <1>4, <1>5

\* A request is sent from the page v, and the requests rest stay.
LEMMA SendKept ==
    ASSUME BrowserInv, NEW k \in CallKinds, NEW s \in Spans \cup {NoSpan}, NEW n \in Nat, NEW b \in {"page", "server"},
           NEW v \in UiRow, NEW rest, rest \subseteq calls, Send(v, rest, k, s, n, b),
           UNCHANGED <<reviewServer, disturbed>>,
           NEW c, c = Call(v.gen, k, s, n, b), k = "question" => b = "page",
           FollowerOk(v, rest \cup {c}), RenewalOk(v, rest \cup {c}), AwaitedOk(v, rest \cup {c}),
           PageOk(v, reviewServer.gen)
    PROVE  BrowserInv'
<1>1. /\ calls' = rest \cup {c} /\ ui' = Numbered(v, ui.next + 1) /\ ui.next <= MaxCalls
  BY DEF Send, Numbered
<1>2. ui.next + 1 \in 1..(MaxCalls + 1)
  BY <1>1, UiFacts, BrowserConstants
<1>3. SameUi(ui', v) /\ ui' \in UiRow
  BY <1>1, <1>2, NumberedFacts DEF SameUi, SamePage
<1>4. v.gen \in Nat /\ reviewServer.gen \in Nat /\ v.gen <= reviewServer.gen
  BY ServerFacts, BrowserConstants DEF PageOk, UiRow
<1>5. c \in CallRow /\ c.gen = v.gen /\ c.reply = "none" /\ c.rgen = 0 /\ c.kind = k /\ c.by = b
  <2>1. v.gen \in Nat /\ ui.next \in Nat /\ QuietThread \in ServedRow
    BY <1>4, UiFacts, AskingFacts
  <2>2. c = [kind |-> k, id |-> ui.next, gen |-> v.gen, span |-> s, op |-> n, by |-> b,
             reply |-> "none", rgen |-> 0, thread |-> QuietThread]
    BY Zenon DEF Call
  <2> QED BY <2>1, <2>2 DEF CallRow, Replies
<1>6. CallOk(c, reviewServer.gen)
  BY <1>4, <1>5 DEF CallOk
<1>7. BrowserTypes'
  BY <1>1, <1>3, <1>5 DEF BrowserInv, BrowserTypes
<1>8. \A d \in calls' : CallOk(d, reviewServer'.gen)
  BY <1>1, <1>6 DEF BrowserInv
<1>9. /\ FollowerOk(ui', calls') /\ RenewalOk(ui', calls') /\ AwaitedOk(ui', calls')
      /\ PageOk(ui', reviewServer'.gen)
  BY <1>1, <1>3, SameInOrder
<1> QED BY <1>7, <1>8, <1>9 DEF BrowserInv

\* A request is sent beside those under way.
LEMMA IssueKept ==
    ASSUME BrowserInv, NEW k \in CallKinds, NEW s \in Spans \cup {NoSpan}, NEW n \in Nat,
           NEW v \in UiRow, Issue(k, s, n, v), k = "question" => v.agent.by = "page", NEW c,
           c = Call(v.gen, k, s, n, v.agent.by),
           FollowerOk(v, calls \cup {c}), RenewalOk(v, calls \cup {c}), AwaitedOk(v, calls \cup {c}),
           PageOk(v, reviewServer.gen)
    PROVE  BrowserInv'
<1>1. v.agent.by \in {"page", "server"}
  BY DEF UiRow, AgentRow
<1>2. Send(v, calls, k, s, n, v.agent.by) /\ UNCHANGED <<reviewServer, disturbed>>
  BY DEF Issue
<1> QED BY <1>1, <1>2, SendKept

\* The request that leaves the page v.
LEMMA IssuedFacts ==
    ASSUME BrowserInv, NEW k \in CallKinds, NEW s \in Spans \cup {NoSpan}, NEW n \in Nat, NEW v \in UiRow,
           NEW c, c = Call(v.gen, k, s, n, v.agent.by)
    PROVE  /\ c.kind = k /\ c.id = ui.next /\ c.gen = v.gen /\ c.op = n /\ c.by = v.agent.by
<1>1. v.agent.by \in {"page", "server"} /\ v.gen \in Nat
  BY BrowserConstants DEF UiRow, AgentRow
<1>2. PICK g \in Nat, y \in {"page", "server"} : g = v.gen /\ y = v.agent.by
  BY <1>1
<1>3. c = Call(g, k, s, n, y)
  BY <1>2
<1>4. /\ c.kind = k /\ c.id = ui.next /\ c.gen = g /\ c.op = n /\ c.by = y
  BY <1>3, NewCallFacts
<1> QED BY <1>2, <1>4

\* selectRange
LEMMA SelectRangeStep == ASSUME BrowserInv, NEW s \in Spans, selectRange(s) PROVE BrowserInv'
<1>1. PICK v : v = Fetching(ui, s, ui.next)
  OBVIOUS
<1>2. PICK c : c = Call(v.gen, "range", s, NoOp, v.agent.by)
  OBVIOUS
<1>3. Issue("range", s, NoOp, v)
  BY <1>1 DEF selectRange, Fetching
<1>4. /\ SamePage(v, ui) /\ SameFlags(v, ui) /\ SameTalk(v, ui) /\ v.rangeRequest = ui.next
      /\ v.overview = ui.overview
  BY <1>1, UiFacts, FetchingFacts
<1>5. v \in UiRow /\ NoOp \in Nat /\ "range" \in CallKinds
  BY <1>4 DEF SamePage, NoOp, CallKinds
<1>6. c.kind = "range" /\ c.id = ui.next
  BY <1>2, <1>5, IssuedFacts
<1>7. FollowerOk(v, calls \cup {c})
  BY <1>4, <1>6
     DEF BrowserInv, FollowerOk, Supported, CleanOk, Tracks, SamePage, SameFlags, SameTalk
<1>8. RenewalOk(v, calls \cup {c})
  BY <1>4, <1>6 DEF BrowserInv, RenewalOk, Renews, SameFlags
<1>9. AwaitedOk(v, calls \cup {c})
  BY <1>4, <1>6 DEF BrowserInv, AwaitedOk, SameTalk
<1>10. PageOk(v, reviewServer.gen)
  BY <1>4 DEF BrowserInv, PageOk, SamePage, SameTalk, SameFlags
<1> QED BY <1>2, <1>3, <1>5, <1>7, <1>8, <1>9, <1>10, IssueKept

\* An overview that is asked for.
LEMMA OverviewingFacts ==
    ASSUME BrowserInv, NEW u \in UiRow, NEW v, v = Overviewing(u)
    PROVE  /\ SamePage(v, u) /\ SameFlags(v, u) /\ v.loading = u.loading /\ v.rangeRequest = u.rangeRequest
           /\ v.agent.kind = "overview" /\ v.agent.op = ui.next /\ v.agent.by = "server"
           /\ v.thread = u.thread /\ v.overview.op = ui.next /\ v \in UiRow
<1>1. ui.next \in Nat
  BY UiFacts
<1>2. PICK a \in AgentRow : /\ a = Operation("overview", ui.next, "server") /\ a.kind = "overview"
                            /\ a.op = ui.next /\ a.by = "server"
  BY <1>1, OperationFacts
<1>3. PICK o \in AwaitedRow : o = [span |-> u.page.span, op |-> ui.next] /\ o.op = ui.next
  <2>1. [span |-> u.page.span, op |-> ui.next] \in AwaitedRow
    BY <1>1 DEF AwaitedRow, UiRow, ShownRow
  <2> QED BY <2>1
<1>4. v = Engaged(u, a, o)
  BY <1>2, <1>3 DEF Overviewing, Engaged
<1> QED BY <1>2, <1>3, <1>4, EngagedFacts DEF SamePage

\* loadOverview
LEMMA LoadOverviewStep == ASSUME BrowserInv, loadOverview PROVE BrowserInv'
<1>1. PICK n \in Nat : n = ui.next
  BY UiFacts
<1>2. PICK v : v = Overviewing(ui)
  OBVIOUS
<1>3. PICK c : c = Call(v.gen, "overview", ui.page.span, n, v.agent.by)
  OBVIOUS
<1>4. Issue("overview", ui.page.span, n, v) /\ ui.agent.kind = "none"
  BY <1>1, <1>2, NoAgentFacts DEF loadOverview
<1>5. /\ SamePage(v, ui) /\ SameFlags(v, ui) /\ v.loading = ui.loading
      /\ v.rangeRequest = ui.rangeRequest /\ v.agent.kind = "overview" /\ v.agent.op = n
      /\ v.agent.by = "server" /\ v.thread = ui.thread /\ v.overview.op = n /\ v \in UiRow
  BY <1>1, <1>2, UiFacts, OverviewingFacts
<1>6. "overview" \in CallKinds /\ ui.page.span \in Spans \cup {NoSpan}
  BY UiFacts DEF CallKinds
<1>7. c.kind = "overview" /\ c.op = n
  BY <1>3, <1>5, <1>6, IssuedFacts
<1>8. FollowerOk(v, calls \cup {c})
  BY <1>4, <1>5, <1>7 DEF BrowserInv, FollowerOk, Supported, CleanOk, Tracks, SameFlags
<1>9. RenewalOk(v, calls \cup {c})
  BY <1>5, <1>7 DEF BrowserInv, RenewalOk, Renews, SameFlags
<1>10. AwaitedOk(v, calls \cup {c})
  BY <1>5, <1>7 DEF BrowserInv, AwaitedOk
<1>11. PageOk(v, reviewServer.gen)
  <2>1. ~ui.overlapped /\ ui.thread.turn = "asking" => ui.gen # reviewServer.gen
    BY <1>4, UiFacts, OperationFacts DEF BrowserInv, PageOk, TurnRow
  <2> QED BY <1>5, <2>1 DEF BrowserInv, PageOk, SamePage, SameFlags
<1> QED BY <1>3, <1>4, <1>5, <1>6, <1>8, <1>9, <1>10, <1>11, IssueKept

\* startQuestion: the page follows the question it asks, and no other.
LEMMA StartQuestionStep == ASSUME BrowserInv, startQuestion PROVE BrowserInv'
<1>1. PICK n \in Nat : n = ui.next
  BY UiFacts
<1>2. PICK a \in AgentRow : /\ a = Operation("question", n, "page") /\ a.kind = "question" /\ a.op = n
                            /\ a.by = "page"
  BY OperationFacts
<1>3. PICK t \in TurnRow : t = Asking(n, "page") /\ t.op = n /\ t.by = "page"
  BY AskingFacts
<1>4. PICK v : v = Questioning(ui, a, t)
  OBVIOUS
<1>5. PICK c : c = Call(v.gen, "question", ui.page.span, n, v.agent.by)
  OBVIOUS
<1>6. Issue("question", ui.page.span, n, v) /\ ui.agent = NoAgent
  BY <1>1, <1>2, <1>3, <1>4 DEF startQuestion, Questioning
<1>7. SamePage(v, ui) /\ SameFlags(v, ui) /\ SameLoading(v, ui) /\ v.agent = a /\ v.thread = t
  BY <1>2, <1>3, <1>4, UiFacts, QuestioningFacts
<1>8. v \in UiRow /\ ui.page.span \in Spans \cup {NoSpan} /\ "question" \in CallKinds
  BY <1>7, UiFacts DEF SamePage, CallKinds
<1>9. c.kind = "question" /\ c.op = n /\ c.gen = ui.gen /\ c.by = "page"
  BY <1>2, <1>5, <1>7, <1>8, IssuedFacts DEF SamePage
<1>10. ui.agent.kind = "none"
  BY <1>6, NoAgentFacts
<1>11. ~ui.overlapped => ~ui.timer /\ \A d \in calls : ~Tracks(d)
  BY <1>10 DEF BrowserInv, FollowerOk, CleanOk
<1>12. FollowerOk(v, calls \cup {c})
  <2>1. Supported(v, calls \cup {c})
    BY <1>2, <1>7, <1>9 DEF Supported
  <2>2. ~v.overlapped => CleanOk(v, calls \cup {c})
    BY <1>2, <1>7, <1>9, <1>11 DEF CleanOk, SameFlags, SamePage
  <2> QED BY <2>1, <2>2 DEF FollowerOk
<1>13. RenewalOk(v, calls \cup {c})
  BY <1>7, <1>9 DEF BrowserInv, RenewalOk, Renews, SameFlags
<1>14. AwaitedOk(v, calls \cup {c})
  BY <1>2, <1>7 DEF BrowserInv, AwaitedOk, SameLoading
<1>15. PageOk(v, reviewServer.gen)
  BY <1>2, <1>3, <1>7 DEF BrowserInv, PageOk, SamePage
<1> QED BY <1>2, <1>5, <1>6, <1>7, <1>8, <1>12, <1>13, <1>14, <1>15, IssueKept

\* refreshReview
LEMMA RefreshReviewCall == ASSUME BrowserInv, refreshReview PROVE BrowserInv'
<1>1. PICK k \in {"refresh", "review"} : k = IF ui.generationStale THEN "review" ELSE "refresh"
  OBVIOUS
<1>2. PICK v : v = Renewing(ui, TRUE)
  OBVIOUS
<1>3. PICK c : c = Call(v.gen, k, NoSpan, NoOp, v.agent.by)
  OBVIOUS
<1>4. Issue(k, NoSpan, NoOp, v) /\ ~ui.refreshing
  BY <1>1, <1>2 DEF refreshReview, Renewing
<1>5. /\ SamePage(v, ui) /\ SameLoading(v, ui) /\ SameTalk(v, ui) /\ v.timer = ui.timer
      /\ v.refreshing = TRUE /\ v.overlapped = ui.overlapped
  BY <1>2, UiFacts, RenewingFacts
<1>6. NoOp \in Nat /\ k \in CallKinds /\ v \in UiRow /\ NoSpan \in Spans \cup {NoSpan}
  BY <1>1, <1>5 DEF NoOp, CallKinds, SamePage
<1>7. c.kind = k
  BY <1>3, <1>6, IssuedFacts
<1>8. \A d \in calls : ~Renews(d)
  BY <1>4 DEF BrowserInv, RenewalOk
<1>9. FollowerOk(v, calls \cup {c})
  BY <1>1, <1>5, <1>7 DEF BrowserInv, FollowerOk, Supported, CleanOk, Tracks, SameTalk, SamePage
<1>10. RenewalOk(v, calls \cup {c})
  BY <1>1, <1>5, <1>7, <1>8 DEF RenewalOk, Renews
<1>11. AwaitedOk(v, calls \cup {c})
  BY <1>5 DEF BrowserInv, AwaitedOk, SameLoading, SameTalk
<1>12. PageOk(v, reviewServer.gen)
  BY <1>5 DEF BrowserInv, PageOk, SamePage, SameTalk
<1>13. k # "question"
  BY <1>1
<1> QED BY <1>3, <1>4, <1>6, <1>9, <1>10, <1>11, <1>12, <1>13, IssueKept

\* checkWorkspaceStatus
LEMMA CheckStatusStep == ASSUME BrowserInv, checkWorkspaceStatus PROVE BrowserInv'
<1>1. PICK v : v = Checking(ui, TRUE)
  OBVIOUS
<1>2. PICK c : c = Call(v.gen, "status", NoSpan, NoOp, v.agent.by)
  OBVIOUS
<1>3. Issue("status", NoSpan, NoOp, v)
  BY <1>1 DEF checkWorkspaceStatus, Checking
<1>4. SameUi(v, ui) /\ v \in UiRow
  BY <1>1, UiFacts, CheckingFacts DEF SameUi, SamePage
<1>5. NoOp \in Nat /\ NoSpan \in Spans \cup {NoSpan} /\ "status" \in CallKinds
  BY DEF NoOp, CallKinds
<1>6. c.kind = "status"
  BY <1>2, <1>4, <1>5, IssuedFacts
<1>7. FollowerOk(ui, calls \cup {c}) /\ RenewalOk(ui, calls \cup {c})
  BY <1>6 DEF BrowserInv, FollowerOk, Supported, CleanOk, RenewalOk, Tracks, Renews
<1>8. AwaitedOk(ui, calls \cup {c}) /\ PageOk(ui, reviewServer.gen)
  BY DEF BrowserInv, AwaitedOk
<1>9. /\ FollowerOk(v, calls \cup {c}) /\ RenewalOk(v, calls \cup {c}) /\ AwaitedOk(v, calls \cup {c})
      /\ PageOk(v, reviewServer.gen)
  BY <1>4, <1>7, <1>8, SameInOrder
<1> QED BY <1>2, <1>3, <1>4, <1>5, <1>9, IssueKept

\* pollQuestions: the timer becomes the poll, or there is one already.
LEMMA PollStep == ASSUME BrowserInv, pollQuestions PROVE BrowserInv'
<1>1. PICK n \in Nat : n = ui.agent.op
  BY UiFacts
<1>2. PICK v : v = Timed(ui, FALSE)
  OBVIOUS
<1>3. PICK c : c = Call(v.gen, "poll", NoSpan, n, v.agent.by)
  OBVIOUS
<1>4. /\ SamePage(v, ui) /\ SameLoading(v, ui) /\ SameTalk(v, ui) /\ v.timer = FALSE
      /\ v.refreshing = ui.refreshing /\ v.overlapped = ui.overlapped
  BY <1>2, UiFacts, TimedFacts
<1>5. v \in UiRow /\ NoSpan \in Spans \cup {NoSpan} /\ "poll" \in CallKinds
  BY <1>4 DEF SamePage, CallKinds
<1>6. AwaitedOk(v, calls \cup {c}) /\ AwaitedOk(v, calls) /\ PageOk(v, reviewServer.gen)
  BY <1>4 DEF BrowserInv, AwaitedOk, SameLoading, SameTalk, PageOk, SamePage
<1>7. ui.timer /\ (~ui.overlapped => /\ ui.agent.kind = "question"
                                     /\ \A d \in calls : ~Tracks(d))
  BY DEF BrowserInv, FollowerOk, CleanOk, pollQuestions
<1>8. CASE ui.agent.kind = "question" /\ ~Polling
  <2>1. Issue("poll", NoSpan, n, v)
    BY <1>1, <1>2, <1>8 DEF pollQuestions, Timed
  <2>2. c.kind = "poll" /\ c.op = n /\ c.gen = ui.gen /\ c.by = ui.agent.by
    <3>1. c.kind = "poll" /\ c.op = n /\ c.gen = v.gen /\ c.by = v.agent.by
      BY <1>3, Zenon DEF Call
    <3> QED BY <1>4, <3>1 DEF SamePage, SameTalk
  <2>3. Supported(v, calls \cup {c})
    BY <2>2 DEF Supported
  <2>4. ~v.overlapped => CleanOk(v, calls \cup {c})
    BY <1>1, <1>4, <1>7, <2>2 DEF CleanOk, SamePage, SameTalk
  <2>5. RenewalOk(v, calls \cup {c})
    BY <1>4, <2>2 DEF BrowserInv, RenewalOk, Renews
  <2>6. FollowerOk(v, calls \cup {c})
    BY <2>3, <2>4 DEF FollowerOk
  <2> QED BY <1>3, <1>5, <1>6, <2>1, <2>5, <2>6, IssueKept
<1>9. CASE ~(ui.agent.kind = "question" /\ ~Polling)
  <2>1. ui' = v /\ UNCHANGED <<reviewServer, calls, disturbed>>
    BY <1>2, <1>9 DEF pollQuestions, Timed
  <2>2. Supported(v, calls)
    BY <1>4, <1>9 DEF Supported, Polling, SameTalk
  <2>3. ui.overlapped
    BY <1>7, <1>9 DEF Polling, Tracks
  <2>4. FollowerOk(v, calls) /\ RenewalOk(v, calls)
    BY <1>4, <2>2, <2>3 DEF FollowerOk, BrowserInv, RenewalOk
  <2>5. BrowserTypes'
    BY <1>5, <2>1 DEF BrowserInv, BrowserTypes
  <2> QED BY <1>6, <2>1, <2>4, <2>5 DEF BrowserInv
<1> QED BY <1>8, <1>9

\* An answer arrives, and the page makes the best of it.
LEMMA ArrivalKept ==
    ASSUME BrowserInv, NEW c \in calls, calls' = calls \ {c}, UNCHANGED <<reviewServer, disturbed>>,
           ui' \in UiRow, FollowerOk(ui', calls'), RenewalOk(ui', calls'), AwaitedOk(ui', calls'),
           PageOk(ui', reviewServer.gen)
    PROVE  BrowserInv'
<1>1. BrowserTypes'
  BY DEF BrowserInv, BrowserTypes
<1>2. \A d \in calls' : CallOk(d, reviewServer'.gen)
  BY DEF BrowserInv
<1> QED BY <1>1, <1>2 DEF BrowserInv

\* range_arrives: a page of another generation is not installed.
LEMMA RangeArrives ==
    ASSUME BrowserInv, NEW c \in calls, c.kind = "range", arrives(c) PROVE BrowserInv'
<1>1. calls' = calls \ {c} /\ UNCHANGED <<reviewServer, disturbed>> /\ range_arrives(c)
  BY DEF arrives
<1>2. /\ ui' \in UiRow /\ ui'.gen = ui.gen /\ ui'.page.gen = ui.gen
      /\ SameFlags(ui', ui) /\ SameTalk(ui', ui) /\ ui'.rangeRequest = ui.rangeRequest
      /\ ui'.overview = ui.overview
      /\ \/ ui'.loading = NoSpan
         \/ ui'.loading = ui.loading /\ c.id # ui.rangeRequest
  <2>1. CASE c.id # ui.rangeRequest
    <3>1. ui' = ui
      BY <1>1, <2>1 DEF range_arrives
    <3>2. ui.page.gen = ui.gen
      BY DEF BrowserInv, PageOk
    <3> QED BY <2>1, <3>1, <3>2, UiFacts DEF SameFlags, SameTalk
  <2>2. CASE c.id = ui.rangeRequest /\ c.reply = "ok" /\ RangeFits(c)
    <3>1. PICK p \in ShownRow : p = [gen |-> c.rgen, span |-> c.span] /\ p.gen = c.rgen
      <4>1. c.rgen \in Nat /\ c.span \in Spans \cup {NoSpan}
        BY CallFacts
      <4>2. [gen |-> c.rgen, span |-> c.span] \in ShownRow
        BY <4>1 DEF ShownRow
      <4> QED BY <4>2
    <3>2. ui' = Loaded(ui, NoSpan, p)
      BY <1>1, <2>2, <3>1 DEF range_arrives, Loaded
    <3>3. c.rgen = ui.gen /\ ui \in UiRow
      BY <2>2, UiFacts DEF RangeFits
    <3>4. /\ ui' \in UiRow /\ ui'.gen = ui.gen /\ ui'.page = p /\ ui'.loading = NoSpan
          /\ ui'.rangeRequest = ui.rangeRequest /\ SameFlags(ui', ui) /\ SameTalk(ui', ui)
          /\ ui'.overview = ui.overview
      BY <3>1, <3>2, <3>3, LoadedFacts
    <3> QED BY <3>1, <3>3, <3>4
  <2>3. CASE c.id = ui.rangeRequest /\ ~(c.reply = "ok" /\ RangeFits(c))
    <3>1. ui' = Unloaded(ui, NoSpan)
      BY <1>1, <2>3 DEF range_arrives, Unloaded
    <3>2. ui.page.gen = ui.gen
      BY DEF BrowserInv, PageOk
    <3> QED BY <3>1, <3>2, UiFacts, UnloadedFacts DEF SamePage
  <2> QED BY <2>1, <2>2, <2>3
<1>3. FollowerOk(ui', calls')
  BY <1>1, <1>2 DEF BrowserInv, FollowerOk, Supported, CleanOk, Tracks, SameFlags, SameTalk
<1>4. RenewalOk(ui', calls')
  BY <1>1, <1>2 DEF BrowserInv, RenewalOk, Renews, SameFlags, SameTalk
<1>5. AwaitedOk(ui', calls')
  BY <1>1, <1>2 DEF BrowserInv, AwaitedOk, SameTalk
<1>6. PageOk(ui', reviewServer.gen)
  BY <1>2 DEF BrowserInv, PageOk, SameTalk, SameFlags
<1> QED BY <1>1, <1>2, <1>3, <1>4, <1>5, <1>6, ArrivalKept

\* overview_arrives
LEMMA OverviewArrives ==
    ASSUME BrowserInv, NEW c \in calls, c.kind = "overview", arrives(c) PROVE BrowserInv'
<1>1. calls' = calls \ {c} /\ UNCHANGED <<reviewServer, disturbed>> /\ overview_arrives(c)
  BY DEF arrives
<1>2. /\ SamePage(ui', ui) /\ SameFlags(ui', ui) /\ ui'.thread = ui.thread
      /\ ui'.loading = ui.loading /\ ui'.rangeRequest = ui.rangeRequest
      /\ \/ ui'.agent = NoAgent /\ ui.agent.kind = "overview"
         \/ /\ ui'.agent = ui.agent
            /\ ui.agent.kind = "overview" => ui.agent.op # c.op /\ ui'.overview = ui.overview
  <2>1. c.op \in Nat /\ ui.agent \in AgentRow
    BY CallFacts, UiFacts
  <2>2. CASE c.op # ui.overview.op
    <3>1. ui' = ui
      BY <1>1, <2>2 DEF overview_arrives
    <3>2. ui.agent.kind = "overview" => ui.agent.op # c.op
      BY <2>2 DEF BrowserInv, AwaitedOk
    <3> QED BY <3>1, <3>2, UiFacts DEF SamePage, SameFlags
  <2>3. CASE c.op = ui.overview.op
    <3>1. PICK a \in AgentRow :
            a = IF ui.agent = Operation("overview", c.op, "server") THEN NoAgent ELSE ui.agent
      BY <2>1, NoAgentFacts
    <3>2. ui' = [ui EXCEPT !.overview = NoOverview, !.agent = a]
      BY <1>1, <2>3, <3>1 DEF overview_arrives
    <3>3. ui' = Engaged(ui, a, NoOverview)
      BY <3>2, UiFacts DEF Engaged, UiRow
    <3>4. NoOverview \in AwaitedRow
      BY DEF NoOverview, AwaitedRow, NoOp
    <3>5. /\ SamePage(ui', ui) /\ SameFlags(ui', ui) /\ ui'.thread = ui.thread
          /\ ui'.loading = ui.loading /\ ui'.rangeRequest = ui.rangeRequest /\ ui'.agent = a
      BY <3>1, <3>3, <3>4, UiFacts, EngagedFacts
    <3>6. ui.agent.kind = "overview" => ui.agent = Operation("overview", c.op, "server")
      BY <2>1, <2>3 DEF BrowserInv, AwaitedOk, AgentRow, Operation
    <3>7. ui.agent = Operation("overview", c.op, "server") => ui.agent.kind = "overview"
      BY <2>1, OperationFacts
    <3> QED BY <3>1, <3>5, <3>6, <3>7
  <2> QED BY <2>2, <2>3
<1>3. ui'.agent.kind = "question" <=> ui.agent.kind = "question"
  BY <1>2, NoAgentFacts
<1>4. ui'.agent.kind = "question" => ui'.agent = ui.agent
  BY <1>2, NoAgentFacts
<1>5. FollowerOk(ui', calls')
  <2>1. Supported(ui', calls')
    BY <1>1, <1>2, <1>3, <1>4 DEF BrowserInv, FollowerOk, Supported, SameFlags
  <2>2. ~ui'.overlapped => CleanOk(ui', calls')
    BY <1>1, <1>2, <1>3, <1>4 DEF BrowserInv, FollowerOk, CleanOk, Tracks, SameFlags, SamePage
  <2> QED BY <2>1, <2>2 DEF FollowerOk
<1>6. RenewalOk(ui', calls')
  BY <1>1, <1>2 DEF BrowserInv, RenewalOk, Renews, SameFlags
<1>7. AwaitedOk(ui', calls')
  BY <1>1, <1>2, NoAgentFacts DEF BrowserInv, AwaitedOk
<1>8. PageOk(ui', reviewServer.gen)
  <2>1. ~ui.overlapped /\ ui.thread.turn = "asking" /\ ui.gen = reviewServer.gen =>
            ui.agent.kind = "question"
    BY UiFacts, OperationFacts DEF BrowserInv, PageOk, TurnRow
  <2> QED BY <1>2, <1>3, <1>4, <2>1 DEF BrowserInv, PageOk, SamePage, SameFlags
<1>9. ui' \in UiRow
  BY <1>2 DEF SamePage
<1> QED BY <1>1, <1>5, <1>6, <1>7, <1>8, <1>9, ArrivalKept

\* What is known when the answer of a question or of a poll arrives in a session
\* that is not overlapped: it is the only one, of the question that is followed.
LEMMA FollowerFacts ==
    ASSUME BrowserInv, NEW c \in calls, Tracks(c), ~ui.overlapped
    PROVE  /\ ui.agent = Operation("question", c.op, c.by) /\ ~ui.timer /\ c.gen = ui.gen
           /\ ui.agent.kind = "question"
           /\ \A d \in calls \ {c} : ~Tracks(d)
           /\ ui.thread.turn = "asking" /\ ui.gen = reviewServer.gen => ui.thread = Asking(c.op, c.by)
<1>1. /\ ui.agent.kind = "question" /\ ui.agent.op = c.op /\ ui.agent.by = c.by /\ ~ui.timer
      /\ c.gen = ui.gen /\ \A d \in calls \ {c} : ~Tracks(d)
  BY DEF BrowserInv, FollowerOk, CleanOk
<1>2. ui.agent = Operation("question", c.op, c.by)
  BY <1>1, UiFacts DEF AgentRow, Operation
<1>3. ui.thread.turn = "asking" /\ ui.gen = reviewServer.gen => ui.thread = Asking(c.op, c.by)
  <2>1. ui.thread \in TurnRow /\ ui.thread.op \in Nat /\ ui.thread.by \in {"page", "server"}
    BY UiFacts DEF TurnRow
  <2>2. SUFFICES ASSUME ui.thread.turn = "asking", ui.gen = reviewServer.gen
                 PROVE  ui.thread = Asking(c.op, c.by)
    OBVIOUS
  <2>3. ui.agent = Operation("question", ui.thread.op, ui.thread.by)
    BY <2>2 DEF BrowserInv, PageOk
  <2>4. ui.thread.op = c.op /\ ui.thread.by = c.by
    BY <1>1, <2>1, <2>3, OperationFacts
  <2> QED BY <2>1, <2>2, <2>4 DEF TurnRow, Asking
<1> QED BY <1>1, <1>2, <1>3

\* The end of a question or of a poll: the operation that is left is followed,
\* in a session that is not overlapped by its timer.
LEMMA FollowerArrives ==
    ASSUME BrowserInv, NEW c \in calls, Tracks(c), calls' = calls \ {c},
           UNCHANGED <<reviewServer, disturbed>>, SamePage(ui', ui), SameLoading(ui', ui),
           ui'.refreshing = ui.refreshing, ui'.overlapped = ui.overlapped,
           Supported(ui', calls'), ui'.agent.kind = "overview" => ui'.agent = ui.agent,
           ~ui.overlapped => (ui'.timer <=> ui'.agent.kind = "question"),
           ~ui.overlapped /\ ui'.thread.turn = "asking" /\ ui.gen = reviewServer.gen =>
              ui'.agent = Operation("question", ui'.thread.op, ui'.thread.by)
    PROVE  BrowserInv'
<1>1. ~ui.overlapped => \A d \in calls' : ~Tracks(d)
  BY FollowerFacts
<1>2. FollowerOk(ui', calls')
  BY <1>1 DEF FollowerOk, CleanOk
<1>3. RenewalOk(ui', calls')
  BY DEF BrowserInv, RenewalOk, Renews, Tracks
<1>4. AwaitedOk(ui', calls')
  BY DEF BrowserInv, AwaitedOk, SameLoading, Tracks
<1>5. PageOk(ui', reviewServer.gen)
  BY DEF BrowserInv, PageOk, SamePage
<1>6. ui' \in UiRow
  BY DEF SamePage
<1> QED BY <1>2, <1>3, <1>4, <1>5, <1>6, ArrivalKept

\* question_arrives: the question is settled, or its timer is set.
LEMMA QuestionArrives ==
    ASSUME BrowserInv, NEW c \in calls, c.kind = "question", arrives(c) PROVE BrowserInv'
<1> DEFINE Concluded(turn) ==
               IF ui.thread = Asking(c.op, "page") THEN [ui.thread EXCEPT !.turn = turn] ELSE ui.thread
           Left == IF ui.agent = Operation("question", c.op, "page") THEN NoAgent ELSE ui.agent
           Done(turn) == Concluding(ui, Concluded(turn), Left)
<1>1. calls' = calls \ {c} /\ UNCHANGED <<reviewServer, disturbed>> /\ question_arrives(c)
  BY DEF arrives
<1>2. Tracks(c) /\ c.op \in Nat /\ c.by = "page" /\ ui \in UiRow /\ ui.agent \in AgentRow
  BY CallFacts, UiFacts DEF Tracks, CallOk
<1>3. CASE c.reply = "network_error"
  <2>1. ui' = Timed(ui, TRUE)
    BY <1>1, <1>3 DEF question_arrives, Timed
  <2>2. /\ SamePage(ui', ui) /\ SameLoading(ui', ui) /\ SameTalk(ui', ui) /\ ui'.timer = TRUE
        /\ ui'.refreshing = ui.refreshing /\ ui'.overlapped = ui.overlapped
    BY <2>1, UiFacts, TimedFacts
  <2>3. ui'.agent = ui.agent /\ ui'.thread = ui.thread
    BY <2>2 DEF SameTalk
  <2>4. Supported(ui', calls')
    BY <2>2 DEF Supported
  <2>5. ~ui.overlapped => ui'.agent.kind = "question"
    BY <1>2, <2>3, FollowerFacts
  <2>6. ~ui.overlapped /\ ui'.thread.turn = "asking" /\ ui.gen = reviewServer.gen =>
              ui'.agent = Operation("question", ui'.thread.op, ui'.thread.by)
    BY <2>3 DEF BrowserInv, PageOk
  <2> QED BY <1>1, <1>2, <2>2, <2>3, <2>4, <2>5, <2>6, FollowerArrives
<1>4. CASE c.reply # "network_error"
  <2>1. \E turn \in {"idle", "cancelled", "error"} : ui' = Done(turn) \/ ui' = Stale(Done(turn), TRUE)
    <3>1. \A turn :
            [ui EXCEPT !.thread = IF @ = Asking(c.op, "page") THEN [@ EXCEPT !.turn = turn] ELSE @,
                       !.agent = IF @ = Operation("question", c.op, "page") THEN NoAgent ELSE @]
                     = Done(turn)
      BY Zenon DEF Concluding
    <3> HIDE DEF Done
    <3> QED BY <1>1, <1>4, <3>1 DEF question_arrives, Stale
  <2>2. PICK turn \in {"idle", "cancelled", "error"} : ui' = Done(turn) \/ ui' = Stale(Done(turn), TRUE)
    BY <2>1
  <2>3. PICK t \in TurnRow : /\ t = Concluded(turn)
                             /\ t.turn = "asking" => ui.thread # Asking(c.op, "page")
    <3>1. ui.thread \in TurnRow
      BY UiFacts
    <3>2. LET w == [ui.thread EXCEPT !.turn = turn] IN w \in TurnRow /\ w.turn = turn
      BY <2>2, <3>1 DEF TurnRow, QuestionTurns
    <3> QED BY <2>2, <3>1, <3>2
  <2>4. PICK a \in AgentRow : a = Left
    BY <1>2, NoAgentFacts
  <2>5. PICK v : v = Concluding(ui, t, a)
    OBVIOUS
  <2>6. /\ SamePage(v, ui) /\ SameFlags(v, ui) /\ SameLoading(v, ui) /\ v.agent = a /\ v.thread = t
    BY <1>2, <2>3, <2>4, <2>5, ConcludingFacts
  <2>7. v \in UiRow /\ (ui' = v \/ ui' = Stale(v, TRUE))
    BY <2>2, <2>3, <2>4, <2>5, <2>6 DEF SamePage
  <2>8. SameUi(ui', v)
    <3>1. SameUi(v, v)
      BY <2>7 DEF SameUi, SamePage, SameFlags, SameLoading, SameTalk
    <3> QED BY <2>7, <3>1, StaleFacts
  <2>9. /\ SamePage(ui', ui) /\ SameLoading(ui', ui) /\ ui'.refreshing = ui.refreshing
        /\ ui'.timer = ui.timer /\ ui'.agent = a /\ ui'.thread = t /\ ui'.overlapped = ui.overlapped
    BY <2>6, <2>8 DEF SameUi, SamePage, SameFlags, SameLoading, SameTalk
  <2>10. Supported(ui', calls')
    <3>1. CASE a = NoAgent
      BY <2>9, <3>1, NoAgentFacts DEF Supported
    <3>2. CASE a # NoAgent
      <4>1. a = ui.agent /\ ui.agent # Operation("question", c.op, "page")
        BY <2>4, <3>2
      <4>2. ~(ui.agent.kind = "question" /\ ui.agent.op = c.op /\ ui.agent.by = "page")
        BY <1>2, <4>1 DEF AgentRow, Operation
      <4>3. ui.agent.by \in {"page", "server"}
        BY UiFacts
      <4> QED BY <1>1, <2>9, <4>1, <4>2, <4>3 DEF BrowserInv, FollowerOk, Supported
    <3> QED BY <3>1, <3>2
  <2>11. ui'.agent.kind = "overview" => ui'.agent = ui.agent
    BY <2>4, <2>9, NoAgentFacts
  <2>12. ~ui.overlapped => /\ ui'.agent.kind = "none" /\ ~ui'.timer
                           /\ t.turn = "asking" => ui.gen # reviewServer.gen
    BY <1>2, <2>3, <2>4, <2>9, NoAgentFacts, FollowerFacts
  <2> QED BY <1>1, <1>2, <2>9, <2>10, <2>11, <2>12, FollowerArrives
<1> QED BY <1>3, <1>4

\* poll_arrives: in a session that is not overlapped, what the poll says is of
\* the session shown, or the session shown is an old one.
LEMMA PollArrives ==
    ASSUME BrowserInv, NEW c \in calls, c.kind = "poll", arrives(c) PROVE BrowserInv'
<1>1. calls' = calls \ {c} /\ UNCHANGED <<reviewServer, disturbed>> /\ poll_arrives(c)
  BY DEF arrives
<1>2. /\ Tracks(c) /\ c.op \in Nat /\ c.by \in {"page", "server"} /\ ui \in UiRow /\ ui.thread \in TurnRow
      /\ c.gen \in Nat /\ c.rgen \in Nat /\ CallOk(c, reviewServer.gen)
      /\ c.thread \in TurnRow /\ reviewServer.gen \in Nat /\ ui.agent \in AgentRow
      /\ ui.timer \in BOOLEAN
  BY CallFacts, ServerFacts, UiFacts DEF Tracks
<1> DEFINE Polled(v) ==
             /\ ui' = Reschedule(v) /\ SamePage(v, ui) /\ SameLoading(v, ui) /\ SameFlags(v, ui)
             /\ v.agent.kind = "overview" => v.agent = ui.agent
             /\ ~ui.overlapped /\ v.thread.turn = "asking" /\ ui.gen = reviewServer.gen =>
                    v.agent = Operation("question", v.thread.op, v.thread.by)
<1>3. ASSUME NEW v, Polled(v) PROVE BrowserInv'
  <2>1. v.timer = ui.timer /\ v \in UiRow
    BY <1>3 DEF SameFlags, SamePage
  <2>2. PICK b \in BOOLEAN : b <=> ui.timer \/ v.agent.kind = "question"
    OBVIOUS
  <2>3. ui' = Timed(v, b)
    <3>1. ui' = [v EXCEPT !.timer = (v.timer \/ v.agent.kind = "question")]
      BY <1>3 DEF Reschedule
    <3>2. (v.timer \/ v.agent.kind = "question") = b
      BY <1>2, <2>1, <2>2
    <3> QED BY <3>1, <3>2, Zenon DEF Timed
  <2>4. /\ SamePage(ui', v) /\ SameLoading(ui', v) /\ SameTalk(ui', v) /\ ui'.timer = b
        /\ ui'.refreshing = v.refreshing /\ ui'.overlapped = v.overlapped
    BY <2>1, <2>3, TimedFacts
  <2>5. /\ SamePage(ui', ui) /\ SameLoading(ui', ui) /\ ui'.refreshing = ui.refreshing
        /\ ui'.overlapped = ui.overlapped
    BY <1>3, <2>4 DEF SamePage, SameLoading, SameFlags
  <2>6. ui'.agent = v.agent /\ ui'.thread = v.thread
    BY <2>4 DEF SameTalk
  <2>7. Supported(ui', calls')
    BY <2>2, <2>4, <2>6 DEF Supported
  <2>8. ~ui.overlapped => (ui'.timer <=> ui'.agent.kind = "question")
    BY <1>2, <2>2, <2>4, <2>6, FollowerFacts
  <2> QED BY <1>1, <1>2, <1>3, <2>5, <2>6, <2>7, <2>8, FollowerArrives
<1>4. CASE c.reply = "stale_snapshot" \/ (c.reply = "ok" /\ c.rgen # ui.gen)
  <2>1. PICK v : v = Abandoned(ui, NoAgent, TRUE, TRUE)
    OBVIOUS
  <2>2. ui' = Reschedule(v)
    BY <1>1, <1>4, <2>1 DEF poll_arrives, Outdated, Abandoned
  <2>3. SamePage(v, ui) /\ SameFlags(v, ui) /\ SameLoading(v, ui) /\ v.agent = NoAgent
    BY <1>2, <2>1, NoAgentFacts, AbandonedFacts
  <2>4. ~ui.overlapped => ui.gen # reviewServer.gen
    BY <1>2, <1>4, FollowerFacts DEF CallOk
  <2> QED BY <1>3, <2>2, <2>3, <2>4, NoAgentFacts
<1>5. CASE c.reply = "ok" /\ c.rgen = ui.gen /\ c.thread.turn = "none"
  <2>1. PICK t \in TurnRow :
          /\ t = IF ui.thread = Asking(c.op, c.by) THEN [ui.thread EXCEPT !.turn = "error"] ELSE ui.thread
          /\ t.turn = "asking" => ui.thread = t /\ ui.thread # Asking(c.op, c.by)
    <3>1. LET w == [ui.thread EXCEPT !.turn = "error"] IN w \in TurnRow /\ w.turn = "error"
      BY <1>2 DEF TurnRow, QuestionTurns
    <3> QED BY <1>2, <3>1
  <2>2. PICK v : v = Questioning(ui, NoAgent, t)
    OBVIOUS
  <2>3. ui' = Reschedule(v)
    BY <1>1, <1>5, <2>1, <2>2 DEF poll_arrives, Questioning
  <2>4. /\ SamePage(v, ui) /\ SameFlags(v, ui) /\ SameLoading(v, ui) /\ v.agent = NoAgent
        /\ v.thread = t
    BY <1>2, <2>1, <2>2, NoAgentFacts, QuestioningFacts
  <2>5. ~ui.overlapped /\ t.turn = "asking" => ui.gen # reviewServer.gen
    BY <1>2, <2>1, FollowerFacts
  <2> QED BY <1>3, <2>3, <2>4, <2>5, NoAgentFacts
<1>6. CASE c.reply = "ok" /\ c.rgen = ui.gen /\ c.thread.turn = "asking" /\ c.thread.op # c.op
  <2>1. PICK a \in AgentRow : a = Operation("question", c.thread.op, "server") /\ a.kind = "question"
    BY <1>2, OperationFacts DEF TurnRow
  <2>2. PICK v : v = Concluding(ui, c.thread, a)
    OBVIOUS
  <2>3. ui' = Reschedule(v)
    BY <1>1, <1>6, <2>1, <2>2 DEF poll_arrives, Concluding
  <2>4. /\ SamePage(v, ui) /\ SameFlags(v, ui) /\ SameLoading(v, ui) /\ v.agent = a
        /\ v.thread = c.thread
    BY <1>2, <2>1, <2>2, ConcludingFacts
  <2>5. c.thread.by = "server"
    BY CallFacts
  <2> QED BY <1>3, <2>1, <2>3, <2>4, <2>5
<1>7. CASE c.reply = "ok" /\ c.rgen = ui.gen /\ c.thread.turn \notin {"none", "asking"}
  <2>1. PICK v : v = Questioning(ui, NoAgent, c.thread)
    OBVIOUS
  <2>2. ui' = Reschedule(v)
    BY <1>1, <1>7, <2>1 DEF poll_arrives, Questioning
  <2>3. /\ SamePage(v, ui) /\ SameFlags(v, ui) /\ SameLoading(v, ui) /\ v.agent = NoAgent
        /\ v.thread = c.thread
    BY <1>2, <2>1, NoAgentFacts, QuestioningFacts
  <2> QED BY <1>3, <1>7, <2>2, <2>3, NoAgentFacts
<1>8. CASE \/ c.reply # "stale_snapshot" /\ c.reply # "ok"
           \/ c.reply = "ok" /\ c.rgen = ui.gen /\ c.thread.turn = "asking" /\ c.thread.op = c.op
  <2>1. ui' = Reschedule(ui)
    BY <1>1, <1>8 DEF poll_arrives
  <2>2. SamePage(ui, ui) /\ SameFlags(ui, ui) /\ SameLoading(ui, ui)
    BY <1>2 DEF SamePage, SameFlags, SameLoading
  <2>3. ~ui.overlapped /\ ui.thread.turn = "asking" /\ ui.gen = reviewServer.gen =>
            ui.agent = Operation("question", ui.thread.op, ui.thread.by)
    BY DEF BrowserInv, PageOk
  <2> QED BY <1>3, <2>1, <2>2, <2>3
<1> QED BY <1>4, <1>5, <1>6, <1>7, <1>8

\* status_arrives: only flags of the page change.
LEMMA StatusArrives ==
    ASSUME BrowserInv, NEW c \in calls, c.kind = "status", arrives(c) PROVE BrowserInv'
<1>1. calls' = calls \ {c} /\ UNCHANGED <<reviewServer, disturbed>> /\ status_arrives(c)
  BY DEF arrives
<1>2. PICK b \in BOOLEAN : \/ ui' = Checking(ui, FALSE)
                           \/ ui' = Checked(ui, FALSE, TRUE, TRUE) \/ ui' = Checked(ui, FALSE, FALSE, b)
  BY <1>1 DEF status_arrives, Checking, Checked
<1>3. SameUi(ui', ui) /\ ui' \in UiRow
  <2>1. SameUi(ui', ui)
    BY <1>2, UiFacts, CheckingFacts, CheckedFacts
  <2> QED BY <2>1 DEF SameUi, SamePage
<1>4. FollowerOk(ui, calls') /\ RenewalOk(ui, calls')
  BY <1>1 DEF BrowserInv, FollowerOk, Supported, CleanOk, RenewalOk, Tracks, Renews
<1>5. AwaitedOk(ui, calls') /\ PageOk(ui, reviewServer.gen)
  BY <1>1 DEF BrowserInv, AwaitedOk
<1>6. /\ FollowerOk(ui', calls') /\ RenewalOk(ui', calls') /\ AwaitedOk(ui', calls')
      /\ PageOk(ui', reviewServer.gen)
  BY <1>3, <1>4, <1>5, SameInOrder
<1> QED BY <1>1, <1>3, <1>6, ArrivalKept

\* A session that was installed, and the question that is followed in it.
RenewedPage(u, b, g, t, p, o) ==
    [u EXCEPT !.refreshing = b, !.gen = g, !.thread = t, !.page = p, !.overlapped = o,
              !.snapshotStale = FALSE, !.generationStale = FALSE]
Resuming(u, a, b) == [u EXCEPT !.agent = a, !.timer = b]
LEMMA RenewedPageFacts ==
    \A u \in UiRow, b \in BOOLEAN, g \in 0..MaxServerGen, t \in TurnRow, p \in ShownRow, o \in BOOLEAN :
        LET v == RenewedPage(u, b, g, t, p, o) IN
        /\ v \in UiRow /\ v.gen = g /\ v.thread = t /\ v.page = p /\ v.refreshing = b
        /\ v.overlapped = o /\ v.agent = u.agent /\ v.timer = u.timer /\ SameLoading(v, u)
<1> TAKE u \in UiRow, b \in BOOLEAN, g \in 0..MaxServerGen, t \in TurnRow, p \in ShownRow, o \in BOOLEAN
<1> DEFINE v == RenewedPage(u, b, g, t, p, o)
<1>1. v \in UiRow
  BY DEF UiRow, RenewedPage
<1>2. v.gen = g /\ v.page = p /\ v.thread = t /\ v.agent = u.agent
  BY DEF UiRow, RenewedPage
<1>3. v.refreshing = b /\ v.timer = u.timer /\ v.overlapped = o
  BY DEF UiRow, RenewedPage
<1>4. v.loading = u.loading /\ v.rangeRequest = u.rangeRequest /\ v.overview = u.overview
  BY DEF UiRow, RenewedPage
<1> QED BY <1>1, <1>2, <1>3, <1>4 DEF SameLoading

\* A question another browser asked.
LEMMA ResumingFacts ==
    \A u \in UiRow, a \in AgentRow, b \in BOOLEAN :
        LET v == Resuming(u, a, b) IN
        /\ SamePage(v, u) /\ SameLoading(v, u) /\ v.thread = u.thread /\ v.refreshing = u.refreshing
        /\ v.overlapped = u.overlapped /\ v.agent = a /\ v.timer = b
<1> TAKE u \in UiRow, a \in AgentRow, b \in BOOLEAN
<1> DEFINE v == Resuming(u, a, b)
<1>1. v \in UiRow
  BY DEF UiRow, Resuming
<1>2. v.gen = u.gen /\ v.page = u.page /\ v.thread = u.thread /\ v.agent = a
  BY DEF UiRow, Resuming
<1>3. v.refreshing = u.refreshing /\ v.timer = b /\ v.overlapped = u.overlapped
  BY DEF UiRow, Resuming
<1>4. v.loading = u.loading /\ v.rangeRequest = u.rangeRequest /\ v.overview = u.overview
  BY DEF UiRow, Resuming
<1> QED BY <1>1, <1>2, <1>3, <1>4 DEF SamePage, SameLoading

\* What a session in order is when it was just installed.
FreshPage(v, rest) ==
    /\ v \in UiRow /\ v.refreshing = FALSE /\ v.gen <= reviewServer.gen /\ v.page.gen = v.gen
    /\ Supported(v, rest) /\ AwaitedOk(v, rest) /\ \A d \in rest : ~Renews(d)
    /\ v.thread.by = "server"
    /\ ~v.overlapped => v.agent.kind # "question" /\ ~v.timer /\ \A d \in rest : ~Tracks(d)

\* restoreAgentOperation
LEMMA ResumedKept ==
    ASSUME BrowserInv, NEW c \in calls, NEW v, FreshPage(v, calls \ {c}), NEW kind,
           Resumed(v, calls \ {c}, kind), UNCHANGED <<reviewServer, disturbed>>
    PROVE  BrowserInv'
<1> DEFINE rest == calls \ {c}
<1>1. /\ v \in UiRow /\ v.refreshing = FALSE /\ v.gen <= reviewServer.gen /\ v.page.gen = v.gen
      /\ Supported(v, rest) /\ AwaitedOk(v, rest) /\ \A d \in rest : ~Renews(d)
      /\ v.thread.by = "server"
      /\ ~v.overlapped => v.agent.kind # "question" /\ ~v.timer /\ \A d \in rest : ~Tracks(d)
  BY DEF FreshPage
<1>2. v.thread \in TurnRow /\ v.thread.op \in Nat /\ v.page.span \in Spans \cup {NoSpan} /\ v.gen \in Nat
  BY <1>1, BrowserConstants DEF UiRow, TurnRow, ShownRow
<1>3. CASE v.thread.turn = "asking" /\ restoreActiveQuestion(v, rest)
  <2>1. PICK a \in AgentRow : /\ a = Operation("question", v.thread.op, "server") /\ a.kind = "question"
                              /\ a.op = v.thread.op
    BY <1>2, OperationFacts
  <2>2. PICK w : w = Followed(v)
    OBVIOUS
  <2>3. /\ SamePage(w, v) /\ SameLoading(w, v) /\ w.thread = v.thread /\ w.refreshing = v.refreshing
        /\ w.overlapped = v.overlapped /\ w.agent = a /\ w.timer = TRUE
    <3>1. w = Resuming(v, a, TRUE)
      BY <2>1, <2>2 DEF Followed, Resuming
    <3> QED BY <1>1, <2>1, <3>1, ResumingFacts
  <2>4. w \in UiRow
    BY <2>3 DEF SamePage
  <2>5. ASSUME NEW u \in UiRow, SamePage(u, w), SameFlags(u, w), SameTalk(u, w), NEW cs,
               \A d \in cs : d \in rest \/ d.kind = "range"
        PROVE  FollowerOk(u, cs) /\ RenewalOk(u, cs) /\ PageOk(u, reviewServer.gen)
    <3>1. /\ u.timer = TRUE /\ u.agent = a /\ u.refreshing = FALSE /\ u.overlapped = v.overlapped
          /\ u.thread = v.thread /\ u.gen = v.gen /\ u.page = v.page
      BY <1>1, <2>3, <2>5 DEF SamePage, SameFlags, SameTalk
    <3>2. FollowerOk(u, cs)
      BY <1>1, <2>1, <2>5, <3>1 DEF FollowerOk, Supported, CleanOk, Tracks
    <3>3. RenewalOk(u, cs)
      BY <1>1, <2>5, <3>1 DEF RenewalOk, Renews
    <3>4. PageOk(u, reviewServer.gen)
      BY <1>1, <2>1, <3>1 DEF PageOk
    <3> QED BY <3>2, <3>3, <3>4
  <2>6. CASE ui' = w /\ calls' = rest
    <3>1. SamePage(w, w) /\ SameFlags(w, w) /\ SameTalk(w, w)
      BY <2>4 DEF SamePage, SameFlags, SameTalk
    <3>2. FollowerOk(w, rest) /\ RenewalOk(w, rest) /\ PageOk(w, reviewServer.gen)
      BY <2>4, <2>5, <3>1
    <3>3. AwaitedOk(w, rest)
      BY <1>1, <2>1, <2>3 DEF AwaitedOk, SameLoading
    <3> QED BY <2>4, <2>6, <3>2, <3>3, ArrivalKept
  <2>7. ASSUME NEW s \in Spans,
               Send([w EXCEPT !.loading = s, !.rangeRequest = ui.next], rest, "range", s, NoOp, "server")
        PROVE  BrowserInv'
    <3>1. ui.next \in Nat
      BY UiFacts
    <3>2. PICK u : u = Fetching(w, s, ui.next)
      OBVIOUS
    <3>3. /\ SamePage(u, w) /\ SameFlags(u, w) /\ SameTalk(u, w) /\ u.loading = s
          /\ u.rangeRequest = ui.next /\ u.overview = w.overview /\ u \in UiRow
      BY <2>4, <3>1, <3>2, FetchingFacts DEF SamePage
    <3>4. PICK d : d = Call(u.gen, "range", s, NoOp, "server")
      OBVIOUS
    <3>5. NoOp \in Nat /\ "range" \in CallKinds /\ u.gen \in Nat
      BY <3>3, BrowserConstants DEF NoOp, CallKinds, UiRow
    <3>6. d.kind = "range" /\ d.id = ui.next
      BY <3>4, <3>5, NewCallFacts
    <3>7. /\ FollowerOk(u, rest \cup {d}) /\ RenewalOk(u, rest \cup {d})
          /\ PageOk(u, reviewServer.gen)
      BY <2>5, <3>3, <3>6
    <3>8. AwaitedOk(u, rest \cup {d})
      BY <2>1, <2>3, <3>3, <3>6 DEF AwaitedOk, SameTalk
    <3>9. Send(u, rest, "range", s, NoOp, "server")
      BY <2>7, <3>2 DEF Fetching
    <3> QED BY <3>3, <3>4, <3>5, <3>7, <3>8, <3>9, SendKept
  <2> QED BY <1>3, <2>2, <2>6, <2>7 DEF restoreActiveQuestion
<1>4. CASE v.thread.turn # "asking" /\ ui' = v /\ calls' = rest
  <2>1. FollowerOk(v, rest)
    BY <1>1 DEF FollowerOk, CleanOk
  <2>2. RenewalOk(v, rest) /\ PageOk(v, reviewServer.gen)
    BY <1>1, <1>4 DEF RenewalOk, PageOk
  <2> QED BY <1>1, <1>4, <2>1, <2>2, ArrivalKept
<1>5. CASE v.thread.turn # "asking" /\ restoreOverview(v, rest) /\ ~(ui' = v /\ calls' = rest)
  <2>1. PICK u : u = Overviewing(v)
    OBVIOUS
  <2>2. /\ SamePage(u, v) /\ SameFlags(u, v) /\ u.loading = v.loading /\ u.rangeRequest = v.rangeRequest
        /\ u.agent.kind = "overview" /\ u.agent.op = ui.next /\ u.agent.by = "server"
        /\ u.thread = v.thread /\ u.overview.op = ui.next /\ u \in UiRow
    BY <1>1, <2>1, OverviewingFacts
  <2>3. PICK n \in Nat : n = ui.next
    BY UiFacts
  <2>4. Send(u, rest, "overview", v.page.span, n, "server")
    BY <1>5, <2>1, <2>3 DEF restoreOverview
  <2>5. PICK d : d = Call(u.gen, "overview", v.page.span, n, "server")
    OBVIOUS
  <2>6. "overview" \in CallKinds /\ u.gen \in Nat
    BY <2>2, BrowserConstants DEF CallKinds, UiRow
  <2>7. d.kind = "overview" /\ d.op = n
    BY <1>2, <2>5, <2>6, NewCallFacts
  <2>8. FollowerOk(u, rest \cup {d})
    BY <1>1, <2>2, <2>7 DEF FollowerOk, Supported, CleanOk, Tracks, SameFlags
  <2>9. RenewalOk(u, rest \cup {d})
    BY <1>1, <2>2, <2>7 DEF RenewalOk, Renews, SameFlags
  <2>10. AwaitedOk(u, rest \cup {d})
    BY <1>1, <2>2, <2>3, <2>7 DEF AwaitedOk
  <2>11. PageOk(u, reviewServer.gen)
    BY <1>1, <1>5, <2>2 DEF PageOk, SamePage
  <2> QED BY <1>2, <2>2, <2>4, <2>5, <2>6, <2>8, <2>9, <2>10, <2>11, SendKept
<1> QED BY <1>3, <1>4, <1>5 DEF Resumed

\* refresh_arrives: the new session is clean, or it is marked as overlapped.
LEMMA RefreshArrives ==
    ASSUME BrowserInv, NEW c \in calls, Renews(c), arrives(c) PROVE BrowserInv'
<1>1. UNCHANGED <<reviewServer, disturbed>> /\ refresh_arrives(c)
  BY DEF arrives, Renews
<1>2. ui.refreshing /\ \A d \in calls \ {c} : ~Renews(d)
  BY DEF BrowserInv, RenewalOk
<1>3. /\ ui \in UiRow /\ c.rgen \in Nat /\ c.thread \in TurnRow /\ c.kind \in {"refresh", "review"}
      /\ ui.timer \in BOOLEAN
  BY UiFacts, CallFacts DEF Renews
<1>4. CASE c.reply # "ok"
  <2>1. ui' = Renewing(ui, FALSE) /\ calls' = calls \ {c}
    BY <1>1, <1>4 DEF refresh_arrives, Renewing
  <2>2. /\ SamePage(ui', ui) /\ SameLoading(ui', ui) /\ SameTalk(ui', ui) /\ ui'.timer = ui.timer
        /\ ui'.refreshing = FALSE /\ ui'.overlapped = ui.overlapped
    BY <1>3, <2>1, RenewingFacts
  <2>3. FollowerOk(ui', calls')
    BY <1>3, <2>1, <2>2
       DEF BrowserInv, FollowerOk, Supported, CleanOk, Tracks, SameTalk, SamePage
  <2>4. RenewalOk(ui', calls')
    BY <1>2, <2>1, <2>2 DEF RenewalOk
  <2>5. AwaitedOk(ui', calls')
    BY <1>3, <2>1, <2>2 DEF BrowserInv, AwaitedOk, SameTalk, SameLoading
  <2>6. PageOk(ui', reviewServer.gen)
    BY <2>2 DEF BrowserInv, PageOk, SamePage, SameTalk
  <2>7. ui' \in UiRow
    BY <2>2 DEF SamePage
  <2> QED BY <1>1, <2>1, <2>3, <2>4, <2>5, <2>6, <2>7, ArrivalKept
<1>5. CASE c.reply = "ok"
  <2>1. c.rgen \in 0..MaxServerGen /\ c.rgen <= reviewServer.gen /\ c.thread.by = "server"
    BY <1>3, CallFacts, ServerFacts, BrowserConstants DEF CallOk
  <2>2. PICK s \in Spans : Resumed(Installed(c, s), calls \ {c}, c.kind)
    BY <1>1, <1>5, BrowserConstants DEF refresh_arrives
  <2>3. PICK p \in ShownRow : p = [gen |-> c.rgen, span |-> s] /\ p.gen = c.rgen
    <3>1. [gen |-> c.rgen, span |-> s] \in ShownRow
      BY <1>3 DEF ShownRow
    <3> QED BY <3>1
  <2>4. PICK o \in BOOLEAN : o = QuestionUnderWay
    BY <1>3 DEF QuestionUnderWay
  <2>5. PICK v : v = RenewedPage(ui, FALSE, c.rgen, c.thread, p, o)
    OBVIOUS
  <2>6. v = Installed(c, s)
    BY <2>3, <2>4, <2>5 DEF Installed, RenewedPage
  <2>7. /\ v \in UiRow /\ v.gen = c.rgen /\ v.thread = c.thread /\ v.page = p /\ v.refreshing = FALSE
        /\ v.overlapped = o /\ v.agent = ui.agent /\ v.timer = ui.timer /\ SameLoading(v, ui)
    <3>1. FALSE \in BOOLEAN /\ ui \in UiRow /\ c.rgen \in 0..MaxServerGen /\ c.thread \in TurnRow
      BY <1>3, <2>1
    <3>2. \A b \in BOOLEAN :
            LET w == RenewedPage(ui, b, c.rgen, c.thread, p, o) IN
            /\ w \in UiRow /\ w.gen = c.rgen /\ w.thread = c.thread /\ w.page = p /\ w.refreshing = b
            /\ w.overlapped = o /\ w.agent = ui.agent /\ w.timer = ui.timer /\ SameLoading(w, ui)
      BY <3>1, RenewedPageFacts
    <3> QED BY <2>5, <3>2, Zenon
  <2>8. Supported(v, calls \ {c})
    BY <1>3, <2>7 DEF BrowserInv, FollowerOk, Supported
  <2>9. AwaitedOk(v, calls \ {c})
    BY <1>3, <2>7 DEF BrowserInv, AwaitedOk, SameLoading
  <2>10. ~v.overlapped => /\ v.agent.kind # "question" /\ ~v.timer
                          /\ \A d \in calls \ {c} : ~Tracks(d)
    <3>1. ~QuestionUnderWay => /\ ~ui.timer /\ \A d \in calls : ~Tracks(d)
      BY DEF QuestionUnderWay, Tracks
    <3>2. ~QuestionUnderWay => ui.agent.kind # "question"
      BY <3>1 DEF BrowserInv, FollowerOk, Supported, Tracks
    <3> QED BY <2>4, <2>7, <3>1, <3>2
  <2>11. FreshPage(v, calls \ {c})
    BY <1>2, <2>1, <2>3, <2>7, <2>8, <2>9, <2>10 DEF FreshPage
  <2> QED BY <1>1, <2>2, <2>6, <2>11, ResumedKept
<1> QED BY <1>4, <1>5

\* The page as a whole.
LEMMA BrowserKept == ASSUME BrowserInv, [BrowserNext]_browserVars PROVE BrowserInv'
<1>1. CASE UNCHANGED browserVars
  BY <1>1 DEF browserVars, BrowserInv, BrowserTypes
<1>2. ASSUME NEW c \in calls, arrives(c) PROVE BrowserInv'
  <2>1. c.kind \in CallKinds
    BY CallFacts
  <2> QED BY <1>2, <2>1, RangeArrives, OverviewArrives, QuestionArrives, PollArrives, StatusArrives,
            RefreshArrives DEF CallKinds, Renews
<1> QED BY <1>1, <1>2, SelectRangeStep, LoadOverviewStep, StartQuestionStep, RefreshReviewCall,
          CheckStatusStep, PollStep, ServeStep, LostStep, SettlesStep, OtherRefreshesStep,
          OtherAsksStep DEF BrowserNext

\* What the invariant says of the page.
LEMMA BrowserSoundness ==
    BrowserInv => BrowserTypeOK /\ PageOfSession /\ QuestionFollowed /\ ControlsComeBack
<1> SUFFICES ASSUME BrowserInv
             PROVE  BrowserTypeOK /\ PageOfSession /\ QuestionFollowed /\ ControlsComeBack
  OBVIOUS
<1>1. BrowserTypeOK
  <2>1. /\ ui \in UiRow /\ ui.overview.span \in Spans \cup {NoSpan}
        /\ ui.thread.turn \in QuestionTurns /\ ui.agent.kind \in {"none", "overview", "question"}
    BY UiFacts DEF TurnRow, AgentRow, AwaitedRow
  <2>2. ui.gen \in 0..MaxServerGen /\ ui.loading \in Spans \cup {NoSpan} /\ ui.next <= MaxCalls + 1
    BY <2>1, BrowserConstants DEF UiRow
  <2>3. /\ reviewServer.gen \in 0..MaxServerGen /\ reviewServer.thread.turn \in QuestionTurns
        /\ disturbed <= MaxDisturbed
    BY ServerFacts, BrowserConstants DEF ServedRow
  <2> QED BY <2>1, <2>2, <2>3 DEF BrowserTypeOK
<1>2. PageOfSession
  BY DEF PageOfSession, BrowserInv, PageOk
<1>4. QuestionFollowed
  BY DEF QuestionFollowed, BrowserInv, PageOk
<1>5. ControlsComeBack
  BY DEF ControlsComeBack, BrowserInv, FollowerOk, Supported, Polling, RenewalOk, AwaitedOk, Renews
<1> QED BY <1>1, <1>2, <1>4, <1>5
=============================================================================
