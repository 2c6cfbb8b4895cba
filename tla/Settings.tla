------------------------------ MODULE Settings ------------------------------
(***************************************************************************)
(* The settings file of the terminal (app/config.rs): where it is looked   *)
(* for, what a load accepts, how flags, the file and defaults combine, the *)
(* reload of a running terminal and the changes the terminal itself writes *)
(* back (tui/event_loop.rs), next to a user who edits the same file.  Also *)
(* which memory a workspace gets (core/mod.rs).                            *)
(***************************************************************************)
EXTENDS Naturals

CONSTANTS
    MAX_SUBAGENTS,  \* 32 in the code
    MIN_WINDOW,     \* the context windows accepted: 16,384 tokens
    MAX_WINDOW,     \* to 1,000,000 in the code
    unset,          \* a field or flag that is not there
    MaxEdits,       \* bound on edits by the user and other programs
    MaxSaves,     \* bound on changes made in the terminal
    MaxStarts       \* bound on starts of the terminal

ASSUME SettingsAssumption ==
    /\ {MAX_SUBAGENTS, MIN_WINDOW} \subseteq Nat \ {0}
    /\ MAX_WINDOW \in Nat /\ MIN_WINDOW < MAX_WINDOW
    /\ {MaxEdits, MaxSaves, MaxStarts} \subseteq Nat

VARIABLES
    onDisk,    \* the settings file of each place
    homes,     \* the directories ~/.orvek and ~/.tact that exist
    flags,     \* ConfigOverrides and Environment of this terminal
    app,       \* what the terminal is doing
    config,    \* its effective Config
    store,     \* the memory it has opened last
    foreign,   \* the file changed, or moved, since config was read from it
    spent      \* edits, changes and starts so far

settingsVars == <<onDisk, homes, flags, app, config, store, foreign, spent>>

or(a, b) == IF a # unset THEN a ELSE b

\* Numbers at and just outside the accepted bounds.
Limits == {0, 1, MAX_SUBAGENTS, MAX_SUBAGENTS + 1}
Windows == {MIN_WINDOW - 1, MIN_WINDOW, MAX_WINDOW, MAX_WINDOW + 1}

\* What each field of ConfigFile may hold: `text` is what the parsers make of
\* the whole (valid, an unknown field, not TOML), `remote` how far the section
\* of the remote memory is filled in.
Fields ==
    [text |-> {"valid", "unknown", "broken"}, thinking |-> {unset, "low", "high"},
     max |-> {unset} \cup Limits, window |-> {unset} \cup Windows,
     budget |-> {unset} \cup Windows, strategy |-> {unset, "provider", "other"},
     route |-> {"none", "endpoint", "unknown", "empty"}, command |-> {"none", "zero", "timed"},
     workspace |-> {unset, "linked", "copied", "outside"}, memory |-> BOOLEAN,
     remote |-> {"none", "token", "url", "name", "complete"}, theme |-> {"dark", "light"},
     private |-> BOOLEAN]

\* ConfigFile::default, and the empty document a first change starts from.
NoSettings ==
    [text |-> "valid", thinking |-> unset, max |-> unset, window |-> unset,
     budget |-> unset, strategy |-> unset, route |-> "none", command |-> "none",
     workspace |-> unset, memory |-> FALSE, remote |-> "none", theme |-> "dark",
     private |-> FALSE]

\* Config, as far as it is told apart here.
Configs ==
    [thinking : {"low", "medium", "high"}, max : 1..MAX_SUBAGENTS, window : Nat,
     workspace : {"here", "linked", "copied", "outside"}, memory : BOOLEAN,
     remote : Fields.remote, private : BOOLEAN, place : {"given", "current", "legacy"}]

\* ConfigOverrides, and of Environment whether $ORVEK_HOME is set.
Overrides ==
    [explicit : BOOLEAN, orvek_home : BOOLEAN, thinking : {unset, "high"},
     max : {unset, 1, MAX_SUBAGENTS + 1}, workspace : {unset, "linked"}]

Absent == [NoSettings EXCEPT !.text = "absent"]
Filled == [NoSettings EXCEPT !.memory = TRUE, !.remote = "complete", !.private = TRUE]
Places == {"given", "current", "legacy"}

\* default_home and config_path: --config or $ORVEK_HOME, then ~/.orvek, or
\* ~/.tact where only that exists.
config_path ==
    IF flags.explicit \/ flags.orvek_home THEN "given"
    ELSE IF "current" \notin homes /\ "legacy" \in homes THEN "legacy" ELSE "current"

\* ConfigFile::read: a missing file is an empty one unless it was asked for.
read(f) == IF f.text = "absent" /\ ~flags.explicit THEN NoSettings ELSE f

\* validate_secret_permissions.
secret_exposed(f) == f.remote # "none" /\ ~f.private

\* HTTPS, or HTTP to this machine, and no credentials in the address.
validate_endpoint_url(f) == f.remote # "url"

\* RemoteMemoryConfig::new: all of the section or nothing of it, over an
\* admissible address and a valid namespace.
remote_accepted(f) ==
    f.remote = "none" \/ (f.remote \notin {"token", "name"} /\ validate_endpoint_url(f))

validate_max_subagents(limit) == limit \in 1..MAX_SUBAGENTS

window_tokens(f) == or(f.window, or(f.budget, MAX_WINDOW))

window_accepted(f) == window_tokens(f) \in MIN_WINDOW..MAX_WINDOW

\* The routes of load_with: a known model, with an endpoint.
route_accepted(f) == f.route \in {"none", "endpoint"}

max_subagents(f) == or(flags.max, or(f.max, MAX_SUBAGENTS))

\* load_with, the refusals.
Accepted(f) ==
    /\ f.text = "valid" /\ ~secret_exposed(f) /\ f.command # "zero"
    /\ remote_accepted(f) /\ f.strategy # "other" /\ window_accepted(f)
    /\ route_accepted(f) /\ validate_max_subagents(max_subagents(f))

\* load_with, the effective settings: flags before the file before defaults.
load_with(f) ==
    [thinking |-> or(flags.thinking, or(f.thinking, "medium")), max |-> max_subagents(f),
     window |-> window_tokens(f), workspace |-> or(flags.workspace, or(f.workspace, "here")),
     memory |-> f.memory, remote |-> f.remote, private |-> f.private,
     place |-> config_path]

Nothing == [place |-> unset]
Off == [pc |-> "off"]
Idle == [pc |-> "idle"]

SettingsTypeOK ==
    /\ \A p \in Places : /\ DOMAIN onDisk[p] = DOMAIN Fields
                         /\ onDisk[p].text \in Fields.text \cup {"absent"}
                         /\ \A k \in DOMAIN Fields \ {"text"} : onDisk[p][k] \in Fields[k]
    /\ homes \subseteq {"current", "legacy"} /\ foreign \in BOOLEAN
    /\ config = Nothing \/ config \in Configs
    /\ app.pc \in {"off", "idle", "writing", "connecting"}
    /\ store \in {"unopened", "none", "local", "remote", "failed"}

SettingsInit ==
    /\ flags \in {o \in Overrides :
                   \/ ~o.orvek_home /\ o.max = unset /\ o.workspace = unset
                   \/ /\ o.orvek_home /\ ~o.explicit /\ o.thinking = unset
                      /\ o.max # unset /\ o.workspace # unset}
    /\ homes \in {{}, {"legacy"}}
    /\ onDisk = [p \in Places |-> IF p = "current" THEN Absent ELSE Filled]
    /\ app = Off /\ config = Nothing /\ store = "unopened" /\ foreign = FALSE
    /\ spent = [edits |-> 0, changes |-> 0, starts |-> 0]

Home(p) == IF p = "given" THEN {} ELSE {p}

\* The user, or another terminal, rewrites one field of the file in use.
edit_file(k, v) ==
    /\ spent.edits < MaxEdits
    /\ onDisk[config_path].text # "absent" /\ onDisk[config_path][k] # v
    /\ onDisk' = [onDisk EXCEPT ![config_path][k] = v]
    /\ foreign' = (app.pc # "off")
    /\ spent' = [spent EXCEPT !.edits = @ + 1]
    /\ UNCHANGED <<homes, flags, app, config, store>>

\* Another program creates ~/.orvek, which then hides ~/.tact.
make_home ==
    /\ spent.edits < MaxEdits /\ homes = {"legacy"}
    /\ homes' = {"current", "legacy"} /\ foreign' = (app.pc # "off")
    /\ spent' = [spent EXCEPT !.edits = @ + 1]
    /\ UNCHANGED <<onDisk, flags, app, config, store>>

\* Config::load as the terminal starts: a refused file ends it.
start_app ==
    /\ app = Off /\ spent.starts < MaxStarts
    /\ spent' = [spent EXCEPT !.starts = @ + 1]
    /\ LET f == read(onDisk[config_path]) IN
       IF Accepted(f) THEN /\ app' = Idle /\ config' = load_with(f)
                           /\ foreign' = FALSE
       ELSE UNCHANGED <<app, config, foreign>>
    /\ UNCHANGED <<onDisk, homes, flags, store>>

Ended == app' = Off /\ config' = Nothing /\ store' = "unopened" /\ foreign' = FALSE

\* The terminal is closed or dies: a temporary file is never the settings.
exit ==
    /\ app.pc # "off" /\ Ended
    /\ UNCHANGED <<onDisk, homes, flags, spent>>

\* A session replacement whose settings cannot be saved is rejected; the other
\* two changes return their error from the event loop, which ends the terminal.
Unsaved(c) ==
    IF c.field = "thinking"
    THEN app' = Idle /\ UNCHANGED <<config, store, foreign>>
    ELSE Ended

\* persist_agent_settings, persist_max_subagents_at and persist_setting up to
\* read_document: only what is not TOML at all is refused.
persist(field, value) ==
    /\ app = Idle /\ spent.changes < MaxSaves
    /\ spent' = [spent EXCEPT !.changes = @ + 1]
    /\ LET f == onDisk[config.place]
           c == [field |-> field, to |-> value]
       IN
       IF (c.field = "max" => validate_max_subagents(c.to)) /\ f.text # "broken"
       THEN /\ app' = [pc |-> "writing", change |-> c,
                       document |-> IF f.text = "absent" THEN NoSettings ELSE f]
            /\ UNCHANGED <<config, store, foreign>>
       ELSE Unsaved(c)
    /\ UNCHANGED <<onDisk, homes, flags>>

\* write_document: a new file of mode 0600 is renamed over the old one.
Rewritten(a) == [a.document EXCEPT ![a.change.field] = a.change.to, !.private = TRUE]

\* Config::set_thinking, set_max_subagents; the theme is kept by the screen.
Set(c) ==
    IF c.field = "theme" THEN config
    ELSE [config EXCEPT !.thinking = IF c.field = "thinking" THEN c.to ELSE @,
                        !.max = IF c.field = "max" THEN c.to ELSE @]

\* write_document succeeds, and only then the running settings follow.
write_document ==
    /\ app.pc = "writing" /\ app' = Idle
    /\ onDisk' = [onDisk EXCEPT ![config.place] = Rewritten(app)]
    /\ homes' = homes \cup Home(config.place)
    /\ config' = Set(app.change)
    /\ UNCHANGED <<flags, store, foreign, spent>>

\* One of its steps fails: the old file is still in place.
write_failed ==
    /\ app.pc = "writing" /\ Unsaved(app.change)
    /\ UNCHANGED <<onDisk, homes, flags, spent>>

\* Config::reload: the workspace stays.
Reloaded(next) == [next EXCEPT !.workspace = config.workspace]

\* RootEffect::ReloadConfig: the file is loaded; a refused one changes nothing.
reload ==
    /\ app = Idle /\ spent.changes < MaxSaves
    /\ spent' = [spent EXCEPT !.changes = @ + 1]
    /\ LET f == read(onDisk[config_path]) IN
       /\ Accepted(f)
       /\ app' = [pc |-> "connecting", next |-> Reloaded(load_with(f))]
       /\ foreign' = FALSE
    /\ UNCHANGED <<onDisk, homes, flags, config, store>>

\* A host for the new settings answers, or it does not and the old ones stay.
connected(ok) ==
    /\ app.pc = "connecting" /\ app' = Idle
    /\ config' = IF ok THEN app.next ELSE config
    /\ foreign' = (foreign \/ ~ok)
    /\ UNCHANGED <<onDisk, homes, flags, store, spent>>

\* The .git entry of each workspace: a directory, the file of a worktree that
\* its repository lists or one that was copied, or nothing.  The repository is
\* the one of the configured root.
DotGit ==
    [here |-> "directory", linked |-> "worktree", copied |-> "copy", outside |-> "nothing"]

Repository == "repository of the root"

\* A .git file counts only if the repository it names lists it.
repository_common_directory(w) ==
    IF DotGit[w] \in {"directory", "worktree"} THEN Repository ELSE "none"

\* RemoteMemoryConfig::matches_workspace.
matches_workspace(w) == w = "here" \/ repository_common_directory(w) = Repository

\* configured_memory_store; a root that is gone fails the whole selection.
configured_memory_store(rootExists) ==
    IF ~config.memory THEN "none"
    ELSE IF config.remote = "none" THEN "local"
    ELSE IF ~rootExists THEN "failed"
    ELSE IF matches_workspace(config.workspace) THEN "remote" ELSE "local"

open_memory(rootExists) ==
    /\ app = Idle /\ store' = configured_memory_store(rootExists)
    /\ UNCHANGED <<onDisk, homes, flags, app, config, foreign, spent>>

SettingsNext ==
    \/ \E k \in DOMAIN Fields : \E v \in Fields[k] : edit_file(k, v)
    \/ make_home \/ start_app \/ exit \/ write_document \/ write_failed \/ reload
    \/ persist("thinking", "low") \/ persist("theme", "light")
    \/ \E n \in Limits : persist("max", n)
    \/ \E ok \in BOOLEAN : connected(ok) \/ open_memory(ok)

SettingsSpec == SettingsInit /\ [][SettingsNext]_settingsVars

-----------------------------------------------------------------------------
\* Whatever is edited, reloaded and changed in the terminal, the settings in
\* use are ones load_with accepts: limits and window in range, a remote memory
\* complete and its token read from a file nobody else can read.
SettingsValid ==
    app.pc # "off" =>
        /\ validate_max_subagents(config.max) /\ config.window \in MIN_WINDOW..MAX_WINDOW
        /\ config.remote = "none" \/ (config.remote = "complete" /\ config.private)

\* What the terminal changed stays changed: unless someone else touched the
\* file or a flag overrides it, the file and the settings in use agree, so that
\* a reload or the next start finds them again.
SettingsStick ==
    app.pc = "idle" /\ ~foreign =>
        LET f == read(onDisk[config_path]) IN
        /\ config.place = config_path /\ Accepted(f)
        /\ flags.thinking = unset => config.thinking = load_with(f).thinking
        /\ flags.max = unset => config.max = load_with(f).max
        /\ config.window = load_with(f).window /\ config.remote = load_with(f).remote

\* A change made in the terminal never leaves the token of the remote memory
\* readable by others.
SecretsPrivate ==
    app.pc = "idle" /\ ~foreign => ~secret_exposed(onDisk[config.place])

\* Memories go to the remote store only from the configured workspaces and
\* their registered worktrees, never from a copy of a worktree.
RemoteScoped ==
    store = "remote" => /\ config.workspace \in {"here", "linked"}
                        /\ app.pc # "off"

\* A running terminal never changes its workspace, whatever the file says.
WorkspacePinned ==
    app.pc # "off" /\ app'.pc # "off" => config'.workspace = config.workspace
=============================================================================
