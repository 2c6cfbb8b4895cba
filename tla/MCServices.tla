----------------------------- MODULE MCServices -----------------------------
(***************************************************************************)
(* The components that talk to a service (the host, the provider, the      *)
(* memory, the review page) and those that judge an agent's work, checked  *)
(* for safety in one run: a behaviour is a behaviour of one of them, the   *)
(* variables of the others are blank.                                      *)
(***************************************************************************)
EXTENDS Terminal, Provider, MemoryStore, ReviewServer, Interpreter, Monitor,
        TranscriptModel, Journal, Installer, Capabilities, Acceptance,
        Auxiliary, HostConnection, MemoryPanel, Sloppiness

\* The component of this behaviour: the variables of the others are blank.
VARIABLE part

Parts == {"terminal", "auth", "provider", "memory", "remote", "review",
          "browser", "interpreter", "monitor", "transcript", "view",
          "journal", "installer", "tools", "acceptance", "auxiliary",
          "connection", "memory_panel", "sloppiness"}

\* Every variable but the component, for each of them.
vars == <<part, terminalVars, credVars, providerVars, memoryVars, remoteVars,
          reviewVars, browserVars, interpVars, monitorVars, transcriptVars,
          viewVars, jVars, iVars, cVars, aVars, xVars, hcVars, mbVars,
          slopVars>>

Init ==
    /\ part \in Parts
    /\ IF part = "terminal" THEN TerminalInit
       ELSE /\ composer = 0 /\ pane = 0 /\ sends = 0 /\ changing = 0
            /\ hostInput = 0 /\ spent = 0
    /\ IF part = "auth" THEN CredentialsInit
       ELSE /\ credFile = 0 /\ owner = 0 /\ valid = 0 /\ bad = 0
            /\ storeLock = 0 /\ auth = 0 /\ presented = 0 /\ orvekLogin = 0
            /\ restarts = 0
    /\ IF part = "provider" THEN ProviderInit
       ELSE /\ callPc = 0 /\ wire = 0 /\ attempts = 0 /\ decoder = 0
            /\ recovered = 0 /\ headerCost = 0 /\ callResult = 0
            /\ generations = 0 /\ events = 0
    /\ IF part = "memory" THEN MemoryInit
       ELSE /\ memories = 0 /\ nextId = 0 /\ owners = 0 /\ now = 0
            /\ searched = 0 /\ held = 0 /\ exporting = 0 /\ archive = 0
            /\ born = 0 /\ lasting = 0 /\ overtaken = 0
    /\ IF part = "remote" THEN RemoteInit
       ELSE /\ history = 0 /\ lesson = 0 /\ requests = 0 /\ late = 0
            /\ counters = 0 /\ applied = 0 /\ dump = 0
    /\ IF part = "review" THEN ReviewInit
       ELSE /\ workspaceVersion = 0 /\ review = 0 /\ handlers = 0
            /\ agentJobs = 0 /\ asked = 0 /\ verdict = 0
    /\ IF part = "browser" THEN BrowserInit
       ELSE /\ reviewServer = 0 /\ ui = 0 /\ calls = 0 /\ disturbed = 0
    /\ IF part = "interpreter" THEN InterpInit
       ELSE /\ request = 0 /\ nextTurn = 0 /\ cells = 0 /\ saved = 0
            /\ pendingCalls = 0 /\ cancelled = 0 /\ actors = 0 /\ machine = 0
            /\ ctl = 0 /\ vm = 0 /\ outcomes = 0 /\ dispatched = 0
            /\ crashes = 0
    /\ IF part = "monitor" THEN MonitorInit
       ELSE /\ journalled = 0 /\ pinned = 0 /\ cursor = 0 /\ sampling = 0
            /\ active = 0 /\ previous = 0 /\ facts = 0 /\ measures = 0
            /\ episodes = 0 /\ activations = 0 /\ build = 0 /\ tick = 0
            /\ monitorDown = 0
    /\ IF part = "transcript" THEN TranscriptInit
       ELSE /\ model = 0 /\ removed = 0 /\ told = 0 /\ seen = 0
            /\ shown_turn = 0 /\ turns = 0 /\ confirmed = 0 /\ execution = 0
            /\ proposed = 0 /\ resulted = 0 /\ streamed = 0 /\ forked = 0
    /\ IF part = "view" THEN ViewInit
       ELSE /\ layout_rows = 0 /\ unreported = 0 /\ layouts = 0 /\ opened = 0
            /\ all = 0 /\ viewport = 0 /\ shown = 0 /\ wide = 0 /\ timers = 0
            /\ made = 0 /\ viewed = 0
    /\ IF part = "journal" THEN JInit
       ELSE /\ schema = 0 /\ host = 0 /\ journal = 0 /\ table = 0
            /\ checkpoints = 0 /\ jtask = 0 /\ sequence = 0
            /\ nextOperation = 0 /\ acked = 0
    /\ IF part = "installer" THEN InstallerInit
       ELSE /\ releases = 0 /\ latest = 0 /\ uploads = 0 /\ executable = 0
            /\ installed = 0 /\ damages = 0 /\ lockHolder = 0
            /\ installer = 0 /\ kinds = 0
    /\ IF part = "tools" THEN CapabilitiesInit
       ELSE /\ facet = 0 /\ parentAt = 0 /\ names = 0 /\ inodes = 0
            /\ call = 0 /\ stages = 0 /\ foreign = 0 /\ walk = 0 /\ cmd = 0
    /\ IF part = "acceptance" THEN AcceptanceInit
       ELSE /\ theme = 0 /\ accepted_contract = 0 /\ directives = 0
            /\ amended = 0 /\ refusal = 0 /\ check = 0 /\ truth = 0
            /\ reason = 0
    /\ IF part = "auxiliary" THEN AuxiliaryInit
       ELSE /\ intent = 0 /\ records = 0 /\ aux_turn = 0 /\ actor = 0
            /\ stopping = 0 /\ overdue = 0 /\ report = 0 /\ taskCalls = 0
    /\ IF part = "connection" THEN HostConnectionInit
       ELSE /\ face = 0 /\ revision = 0 /\ hosts = 0 /\ lock = 0 /\ sock = 0
            /\ callers = 0 /\ durable = 0 /\ pinned_policy = 0 /\ queued = 0
            /\ stray = 0 /\ faults = 0 /\ paging = 0 /\ inspection = 0
    /\ IF part = "memory_panel" THEN MemoryPanelInit
       ELSE /\ shared = 0 /\ kept = 0 /\ updates = 0 /\ jobs = 0
            /\ asked_jobs = 0 /\ answers = 0 /\ browser = 0
    /\ IF part = "sloppiness" THEN SlopInit
       ELSE /\ question = 0 /\ language = 0 /\ source = 0 /\ cleaned = 0
            /\ position = 0 /\ mode = 0 /\ nesting = 0 /\ trees = 0
            /\ side = 0 /\ analyzed = 0 /\ reports = 0

Next ==
    \/ /\ part = "terminal" /\ TerminalNext
       /\ UNCHANGED <<part, credVars, providerVars, memoryVars, remoteVars,
                      reviewVars, browserVars, interpVars, monitorVars,
                      transcriptVars, viewVars, jVars, iVars, cVars, aVars,
                      xVars, hcVars, mbVars, slopVars>>
    \/ /\ part = "auth" /\ CredentialsNext
       /\ UNCHANGED <<part, terminalVars, providerVars, memoryVars, remoteVars,
                      reviewVars, browserVars, interpVars, monitorVars,
                      transcriptVars, viewVars, jVars, iVars, cVars, aVars,
                      xVars, hcVars, mbVars, slopVars>>
    \/ /\ part = "provider" /\ ProviderNext
       /\ UNCHANGED <<part, terminalVars, credVars, memoryVars, remoteVars,
                      reviewVars, browserVars, interpVars, monitorVars,
                      transcriptVars, viewVars, jVars, iVars, cVars, aVars,
                      xVars, hcVars, mbVars, slopVars>>
    \/ /\ part = "memory" /\ MemoryNext
       /\ UNCHANGED <<part, terminalVars, credVars, providerVars, remoteVars,
                      reviewVars, browserVars, interpVars, monitorVars,
                      transcriptVars, viewVars, jVars, iVars, cVars, aVars,
                      xVars, hcVars, mbVars, slopVars>>
    \/ /\ part = "remote" /\ RemoteNext
       /\ UNCHANGED <<part, terminalVars, credVars, providerVars, memoryVars,
                      reviewVars, browserVars, interpVars, monitorVars,
                      transcriptVars, viewVars, jVars, iVars, cVars, aVars,
                      xVars, hcVars, mbVars, slopVars>>
    \/ /\ part = "review" /\ ReviewNext
       /\ UNCHANGED <<part, terminalVars, credVars, providerVars, memoryVars,
                      remoteVars, browserVars, interpVars, monitorVars,
                      transcriptVars, viewVars, jVars, iVars, cVars, aVars,
                      xVars, hcVars, mbVars, slopVars>>
    \/ /\ part = "browser" /\ BrowserNext
       /\ UNCHANGED <<part, terminalVars, credVars, providerVars, memoryVars,
                      remoteVars, reviewVars, interpVars, monitorVars,
                      transcriptVars, viewVars, jVars, iVars, cVars, aVars,
                      xVars, hcVars, mbVars, slopVars>>
    \/ /\ part = "interpreter" /\ InterpNext
       /\ UNCHANGED <<part, terminalVars, credVars, providerVars, memoryVars,
                      remoteVars, reviewVars, browserVars, monitorVars,
                      transcriptVars, viewVars, jVars, iVars, cVars, aVars,
                      xVars, hcVars, mbVars, slopVars>>
    \/ /\ part = "monitor" /\ MonitorNext
       /\ UNCHANGED <<part, terminalVars, credVars, providerVars, memoryVars,
                      remoteVars, reviewVars, browserVars, interpVars,
                      transcriptVars, viewVars, jVars, iVars, cVars, aVars,
                      xVars, hcVars, mbVars, slopVars>>
    \/ /\ part = "transcript" /\ TranscriptNext
       /\ UNCHANGED <<part, terminalVars, credVars, providerVars, memoryVars,
                      remoteVars, reviewVars, browserVars, interpVars,
                      monitorVars, viewVars, jVars, iVars, cVars, aVars,
                      xVars, hcVars, mbVars, slopVars>>
    \/ /\ part = "view" /\ ViewNext
       /\ UNCHANGED <<part, terminalVars, credVars, providerVars, memoryVars,
                      remoteVars, reviewVars, browserVars, interpVars,
                      monitorVars, transcriptVars, jVars, iVars, cVars,
                      aVars, xVars, hcVars, mbVars, slopVars>>
    \/ /\ part = "journal" /\ JNext
       /\ UNCHANGED <<part, terminalVars, credVars, providerVars, memoryVars,
                      remoteVars, reviewVars, browserVars, interpVars,
                      monitorVars, transcriptVars, viewVars, iVars, cVars,
                      aVars, xVars, hcVars, mbVars, slopVars>>
    \/ /\ part = "installer" /\ InstallerNext
       /\ UNCHANGED <<part, terminalVars, credVars, providerVars, memoryVars,
                      remoteVars, reviewVars, browserVars, interpVars,
                      monitorVars, transcriptVars, viewVars, jVars, cVars,
                      aVars, xVars, hcVars, mbVars, slopVars>>
    \/ /\ part = "tools" /\ CapabilitiesNext
       /\ UNCHANGED <<part, terminalVars, credVars, providerVars, memoryVars,
                      remoteVars, reviewVars, browserVars, interpVars,
                      monitorVars, transcriptVars, viewVars, jVars, iVars,
                      aVars, xVars, hcVars, mbVars, slopVars>>
    \/ /\ part = "acceptance" /\ AcceptanceNext
       /\ UNCHANGED <<part, terminalVars, credVars, providerVars, memoryVars,
                      remoteVars, reviewVars, browserVars, interpVars,
                      monitorVars, transcriptVars, viewVars, jVars, iVars,
                      cVars, xVars, hcVars, mbVars, slopVars>>
    \/ /\ part = "auxiliary" /\ AuxiliaryNext
       /\ UNCHANGED <<part, terminalVars, credVars, providerVars, memoryVars,
                      remoteVars, reviewVars, browserVars, interpVars,
                      monitorVars, transcriptVars, viewVars, jVars, iVars,
                      cVars, aVars, hcVars, mbVars, slopVars>>
    \/ /\ part = "connection" /\ HostConnectionNext
       /\ UNCHANGED <<part, terminalVars, credVars, providerVars, memoryVars,
                      remoteVars, reviewVars, browserVars, interpVars,
                      monitorVars, transcriptVars, viewVars, jVars, iVars,
                      cVars, aVars, xVars, mbVars, slopVars>>
    \/ /\ part = "memory_panel" /\ MemoryPanelNext
       /\ UNCHANGED <<part, terminalVars, credVars, providerVars, memoryVars,
                      remoteVars, reviewVars, browserVars, interpVars,
                      monitorVars, transcriptVars, viewVars, jVars, iVars,
                      cVars, aVars, xVars, hcVars, slopVars>>
    \/ /\ part = "sloppiness" /\ SlopNext
       /\ UNCHANGED <<part, terminalVars, credVars, providerVars, memoryVars,
                      remoteVars, reviewVars, browserVars, interpVars,
                      monitorVars, transcriptVars, viewVars, jVars, iVars,
                      cVars, aVars, xVars, hcVars, mbVars>>

Spec ==
    /\ Init /\ [][Next]_vars

-----------------------------------------------------------------------------
\* The terminal and its host: a prompt leaves the composer only when the host
\* has it, transcript rows, maps and spinners are those of the jobs shown, a
\* connected client talks to a host of its own settings, a host that agrees
\* to stop strands nothing and writes nothing after it let the store go, and
\* errors say truly whether to retry.
ClientSound ==
    /\ part = "terminal" =>
          /\ TerminalTypeOK /\ PromptKept /\ PendingTracked
    /\ part = "transcript" =>
          /\ TranscriptTypeOK /\ MapsExact /\ RunningExact /\ RowsAccounted
          /\ PreviewsEnd
    /\ part = "view" =>
          /\ ViewTypeOK
    /\ part = "connection" =>
          /\ HostConnectionTypeOK /\ ConnectSound /\ NothingStranded
          /\ StoreOwned /\ DispositionHonest /\ HistoryExact
          /\ ViewConsistent

\* Calls to the provider, credentials and releases: a receipt never
\* understates a call and nothing billed is sent again, responses are never
\* assembled from two attempts, a login is never undone by an older refresh
\* and an instance keeps its account, and only a whole, verified release is
\* installed.
ProviderSound ==
    /\ part = "provider" =>
          /\ ProviderTypeOK /\ AccountedExact /\ GeneratedOnce
          /\ AttemptStartsFresh /\ ResponseConfirmed
    /\ part = "auth" =>
          /\ CredentialsTypeOK /\ LoginKept /\ AccountPinned
    /\ part = "installer" =>
          /\ InstallerTypeOK /\ OnlyVerified /\ DownloadsOnce

\* Memories: between two synchronisations a session overwrites only what it
\* read, identities are handed out once, an import that is repeated adds
\* nothing that can still be read and exports are whole, a remote put is
\* applied at most once and answered truly, and the panel lists, selects and
\* deletes exactly the records it holds.
MemorySound ==
    /\ part = "memory" =>
          /\ MemoryTypeOK /\ NothingOverwrittenUnseen /\ IdentityOnce
          /\ ImportIdempotent /\ ExportComplete
    /\ part = "remote" =>
          /\ RemoteTypeOK /\ PutAnswerTrue /\ ReadsOwnWrites /\ ExportWhole
    /\ part = "memory_panel" =>
          /\ MemoryPanelTypeOK /\ ListExact /\ FocusKept /\ DeletesOwn
          /\ SelectedInTable

\* The review page: everything a session shows is of one version of the
\* workspace, one agent operation runs at a time, threads follow their
\* operations, and the page in the browser is of its session, follows the
\* question it shows unless a renewal of the session overtook one, and never
\* stays blocked.
ReviewSound ==
    /\ part = "review" =>
          /\ ReviewTypeOK /\ OneVersionShown /\ OneAgentOperation
          /\ ThreadsFollowOperations
    /\ part = "browser" =>
          /\ BrowserTypeOK /\ PageOfSession /\ ControlsComeBack
          /\ QuestionFollowed

\* Contracts, verdicts and measures: accepted contracts can be worked through
\* and amendments keep every obligation, a check passes only on the frozen
\* bytes with its control, an answer is accounted within its limit, the
\* monitor counts and repairs once, and flagged lines are code counted once,
\* comments aside.
JudgementSound ==
    /\ part = "acceptance" =>
          /\ AcceptanceTypeOK /\ ContractSound /\ AmendmentsPreserve
          /\ VerdictSound
    /\ part = "auxiliary" =>
          /\ AuxiliaryTypeOK /\ AnswerAccounted /\ UnknownIsLast
          /\ SpendBounded /\ OneVerdict
    /\ part = "monitor" =>
          /\ MonitorTypeOK /\ MeasuresExact /\ CountsCurrent /\ RepairedOnce
          /\ EvaluatedOnce
    /\ part = "sloppiness" =>
          /\ SlopTypeOK /\ LinesStay /\ FirstTokenExact /\ CommentsNeutral
          /\ RatioBounded /\ ClonesApart /\ ReportDeterministic
          /\ HotspotsWorst

\* The tools of an agent and the journal below them: a failed write changed
\* nothing and replaced nothing unexpected, a known outcome leaves no
\* process, interpreter state is kept or reported lost and never stuck, and
\* the journal replays every session at every cursor, forks and repeated
\* commands included.
ToolsSound ==
    /\ part = "interpreter" =>
          /\ InterpTypeOK /\ StateHonest /\ InterruptedForgotten
          /\ CheckpointCurrent /\ CallsContained /\ NeverStuck
    /\ part = "tools" =>
          /\ CapabilitiesTypeOK /\ ErrorUnchanged /\ ReplacesExpected
          /\ SearchHonest /\ KnownOutcome
    /\ part = "journal" =>
          /\ JTypeOK /\ ReplayExact /\ RetryExact /\ ForkIsolated
          /\ PageProgress

\* What a step of these components may never do: present a refresh token
\* twice or refresh without need, let a record expire that was read since the
\* last synchronisation, finalize or forget the lesson of another run, decide
\* about a page that is not current, show a changed row under its old
\* revision or a stale frame, activate a repair of another build, change a
\* certain cost, move away files that are whole, or answer a session of
\* another configuration.
ServicesSteps ==
    [][ /\ part = "auth" => PresentedOnce /\ RefreshNeeded
        /\ part = "memory" => ReadRecordsStay
        /\ part = "remote" => FinalizedByItsRun /\ TracesSurvive
        /\ part = "review" => DecisionAboutCurrent
        /\ part = "monitor" => PromotionSound
        /\ part = "transcript" => RevisionMoves
        /\ part = "view" => NothingStale /\ ViewportFull /\ EndFollows /\ DrawnFresh
        /\ part = "journal" => CostStable
        /\ part = "installer" => ValidStays
        /\ part = "connection" => SessionPinned ]_vars
=============================================================================
