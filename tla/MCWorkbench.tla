---------------------------- MODULE MCWorkbench ----------------------------
(***************************************************************************)
(* The components a user and an agent work with (the screen, the sandbox,  *)
(* files, traces and imports), checked for safety in one run: a behaviour  *)
(* is a behaviour of one of them, the variables of the others are blank.   *)
(***************************************************************************)
EXTENDS Sandbox, TraceReplay, LegacyImport, ReviewCapture, Screen, Composer,
        Panes, Delivery, Context, Settings

\* The component of this behaviour: the variables of the others are blank.
VARIABLE part

Parts == {"sandbox", "trace", "import", "capture", "screen", "composer",
          "panes", "delivery", "context", "settings"}

\* Every variable but the component, for each of them.
vars == <<part, sandboxVars, traceVars, importVars, captureVars, screenVars,
          composerVars, panesVars, deliveryVars, contextVars, settingsVars>>

Init ==
    /\ part \in Parts
    /\ IF part = "sandbox" THEN SandboxInit
       ELSE /\ dirs = 0 /\ rootAt = 0 /\ job = 0 /\ sup = 0 /\ container = 0
            /\ lease = 0 /\ kept = 0 /\ budget = 0
    /\ IF part = "trace" THEN TraceInit
       ELSE /\ traced = 0 /\ turnAt = 0 /\ childAt = 0 /\ childDone = 0
    /\ IF part = "import" THEN ImportInit
       ELSE /\ database = 0 /\ blobs = 0 /\ importing = 0 /\ imported = 0
            /\ answers = 0 /\ reader = 0 /\ appended = 0
    /\ IF part = "capture" THEN CaptureInit
       ELSE /\ repo = 0 /\ since = 0 /\ capture = 0 /\ done = 0
            /\ compared = 0
    /\ IF part = "screen" THEN ScreenInit
       ELSE /\ composer = 0 /\ discarded = 0 /\ queue_edit = 0 /\ pending = 0
            /\ overlay = 0 /\ mention = 0 /\ interactive = 0 /\ blocking = 0
            /\ reflection = 0 /\ jobs = 0 /\ used = 0
    /\ IF part = "composer" THEN ComposerInit
       ELSE /\ draft = 0 /\ images = 0 /\ cursor = 0 /\ preferred = 0
            /\ scroll = 0 /\ follow = 0 /\ layout = 0 /\ entries = 0
            /\ browsing = 0 /\ sent = 0 /\ aside = 0 /\ rendered = 0
            /\ keys = 0
    /\ IF part = "panes" THEN PanesInit
       ELSE /\ main = 0 /\ fork = 0 /\ focus = 0 /\ next_fork = 0
            /\ nodes = 0 /\ expected = 0 /\ panes = 0 /\ next_generation = 0
            /\ asked = 0 /\ watches = 0 /\ exited = 0
    /\ IF part = "delivery" THEN DeliveryInit
       ELSE /\ deliveryJob = 0 /\ pc = 0 /\ disk = 0 /\ changes = 0
            /\ seen = 0 /\ scans = 0 /\ base = 0 /\ cand = 0 /\ patch = 0
            /\ work = 0 /\ child = 0 /\ group = 0 /\ stop = 0 /\ binary = 0
            /\ ran = 0 /\ result = 0
    /\ IF part = "context" THEN ContextInit
       ELSE /\ aim = 0 /\ history = 0 /\ settled = 0 /\ active = 0
            /\ transitions = 0 /\ view = 0 /\ rowText = 0 /\ needle = 0
            /\ at = 0 /\ found = 0 /\ reading = 0
    /\ IF part = "settings" THEN SettingsInit
       ELSE /\ onDisk = 0 /\ homes = 0 /\ flags = 0 /\ app = 0 /\ config = 0
            /\ store = 0 /\ foreign = 0 /\ spent = 0

Next ==
    \/ /\ part = "sandbox" /\ SandboxNext
       /\ UNCHANGED <<part, traceVars, importVars, captureVars, screenVars,
                      composerVars, panesVars, deliveryVars, contextVars,
                      settingsVars>>
    \/ /\ part = "trace" /\ TraceNext
       /\ UNCHANGED <<part, sandboxVars, importVars, captureVars, screenVars,
                      composerVars, panesVars, deliveryVars, contextVars,
                      settingsVars>>
    \/ /\ part = "import" /\ ImportNext
       /\ UNCHANGED <<part, sandboxVars, traceVars, captureVars, screenVars,
                      composerVars, panesVars, deliveryVars, contextVars,
                      settingsVars>>
    \/ /\ part = "capture" /\ CaptureNext
       /\ UNCHANGED <<part, sandboxVars, traceVars, importVars, screenVars,
                      composerVars, panesVars, deliveryVars, contextVars,
                      settingsVars>>
    \/ /\ part = "screen" /\ ScreenNext
       /\ UNCHANGED <<part, sandboxVars, traceVars, importVars, captureVars,
                      composerVars, panesVars, deliveryVars, contextVars,
                      settingsVars>>
    \/ /\ part = "composer" /\ ComposerNext
       /\ UNCHANGED <<part, sandboxVars, traceVars, importVars, captureVars,
                      screenVars, panesVars, deliveryVars, contextVars,
                      settingsVars>>
    \/ /\ part = "panes" /\ PanesNext
       /\ UNCHANGED <<part, sandboxVars, traceVars, importVars, captureVars,
                      screenVars, composerVars, deliveryVars, contextVars,
                      settingsVars>>
    \/ /\ part = "delivery" /\ DeliveryNext
       /\ UNCHANGED <<part, sandboxVars, traceVars, importVars, captureVars,
                      screenVars, composerVars, panesVars, contextVars,
                      settingsVars>>
    \/ /\ part = "context" /\ ContextNext
       /\ UNCHANGED <<part, sandboxVars, traceVars, importVars, captureVars,
                      screenVars, composerVars, panesVars, deliveryVars,
                      settingsVars>>
    \/ /\ part = "settings" /\ SettingsNext
       /\ UNCHANGED <<part, sandboxVars, traceVars, importVars, captureVars,
                      screenVars, composerVars, panesVars, deliveryVars,
                      contextVars>>

Spec ==
    /\ Init /\ [][Next]_vars

-----------------------------------------------------------------------------
\* The screen and its settings: a pane that takes no keys awaits an answer
\* that unlocks it and shows the session it is connected to, no session
\* outlives its pane, the draft keeps its images whole, its layout fresh and
\* its cursor in view, and the settings in use are valid, private and those
\* of the file.
ScreenSound ==
    /\ part = "screen" =>
          /\ ScreenTypeOK /\ PaneAnswers
    /\ part = "composer" =>
          /\ ComposerTypeOK /\ ImagesWhole /\ RowsPartition /\ CacheFresh
          /\ CursorSeen
    /\ part = "panes" =>
          /\ PanesTypeOK /\ NoOrphanSession /\ ShowsItsSession /\ PaneUnlocks
          /\ ForkOffered /\ MemoryAgrees
    /\ part = "settings" =>
          /\ SettingsTypeOK /\ SettingsValid /\ SettingsStick
          /\ SecretsPrivate /\ RemoteScoped

\* Files: an edit of the owner survives the publication of a sandboxed tree,
\* a known outcome leaves no container, a capture and a review are of one
\* moment and show every change, and a delivery receipt means that the patch
\* reproduces the candidate.
FilesSound ==
    /\ part = "sandbox" =>
          /\ SandboxTypeOK /\ EditsSurvive /\ KnownIsFenced
    /\ part = "delivery" =>
          /\ DeliveryTypeOK /\ CaptureConsistent /\ CaptureValid
          /\ ReceiptHonest /\ OnlyEmptiedMismatch /\ NoProcessLeft
    /\ part = "capture" =>
          /\ CaptureTypeOK /\ ReviewOfOneMoment /\ EveryChangeShown

\* History: the own journal replays in a trace, no gap means nothing is
\* missing and costs cover every dispatch, an import binds its operation once
\* and its pages cover the lineage, and the context sent to the provider
\* keeps exchanges whole, names what it leaves out and fits.
HistorySound ==
    /\ part = "trace" =>
          /\ TraceTypeOK /\ OwnJournalReplays /\ CostCoversDispatches
          /\ NoGapMeansWhole /\ PrefixBlind
    /\ part = "import" =>
          /\ ImportTypeOK /\ OperationBoundOnce /\ ManifestWhole
          /\ PagesCover
    /\ part = "context" =>
          /\ ContextTypeOK /\ PairsWhole /\ OmissionsNamed /\ AlwaysFits
          /\ SearchResumes /\ RowsFit

\* What a step may never do: publish another tree than the one an exited
\* command left, move a running terminal to another workspace, take from the
\* draft more than what was sent or answered for, or change the part of the
\* input the provider has cached.
WorkbenchSteps ==
    [][ /\ part = "sandbox" => ExitedPublishesFinalTree
        /\ part = "screen" => AnswersKeepDraft
        /\ part = "composer" => AckTakesSent
        /\ part = "context" => PrefixKept
        /\ part = "settings" => WorkspacePinned ]_vars
=============================================================================
