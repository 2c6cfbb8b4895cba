---------------------------- MODULE Capabilities ----------------------------
(***************************************************************************)
(* The tools a model may call: files of a sandboxed workspace              *)
(* (capabilities/files.rs), files of the host and native commands          *)
(* (capabilities/host.rs), behind capabilities.rs.                         *)
(*                                                                         *)
(* Abstractions.  All writes are to one path "parent/name".  An inode      *)
(* carries its contents and a stamp that stands for size, mode, links and  *)
(* times: every change of the inode or of its links moves it.  A file tree *)
(* to search is a sequence of nodes in the order of the walk.  The two     *)
(* output pipes of a command behave alike and are one.                     *)
(***************************************************************************)
EXTENDS Integers, Sequences, FiniteSets, SequencesExt, FiniteSetsExt

CONSTANTS
    ToolCalls,    \* concurrent write calls, all to the same path
    NativeCalls,  \* those of them made by the native tools
    Bodies,       \* contents of a file
    MaxForeign,   \* bound on changes made by programs that are not tools
    WalkDepth,    \* 32
    WalkEntries,  \* 10 000
    MaxPrinted    \* bound on what a command prints

ASSUME CapabilitiesAssumption ==
    NativeCalls \subseteq ToolCalls /\ MaxForeign \in Nat
    /\ WalkDepth \in Nat /\ WalkEntries \in Nat /\ MaxPrinted \in Nat

Deleted == 0                      \* no inode
Dirs == {1, 2}                 \* two directories that may stand at "parent"
Partial == "partial"           \* what a file holds inside an in-place write

VARIABLES
    facet,      \* what this behaviour is about: "files", "search", "command"
    parentAt,  \* the directory the parent path leads to, 0 for a symbolic link
    names,     \* directory -> inode of "name" in it, or Gone
    inodes,    \* sequence of [data, stamp]
    call,      \* write call -> its progress
    stages,    \* calls whose private staging directory exists
    foreign,   \* changes by other programs so far
    walk,      \* a search
    cmd        \* a native command

cVars == <<facet, parentAt, names, inodes, call, stages, foreign, walk, cmd>>
fileVars == <<parentAt, names, inodes, call, stages, foreign>>

(***************************************************************************)
(* Files.                                                                  *)
(***************************************************************************)
\* Expected is "absent" or a digest (the contents stand for it); content is
\* the new contents or "delete".
IdleCall == [pc |-> "idle", expected |-> "absent", content |-> "delete",
             dir |-> 0, ino |-> Deleted, stamp |-> 0, now |-> Deleted, nowStamp |-> 0,
             published |-> FALSE, quiet |-> TRUE, wanted |-> TRUE]
\* published, quiet and wanted only record, for the properties, that the call
\* has changed the path, that nobody else has since it revalidated it, and
\* that what it replaced was what it was told to.

\* Everybody else's revalidated view becomes stale when the path changes.
Disturbed(c) == [k \in ToolCalls |-> IF k = c THEN call[k] ELSE [call[k] EXCEPT !.quiet = FALSE]]

Data(i) == inodes[i].data

\* Every error leaves through the drop of the staging directory.
ToolAnswered(c, pc) == [call EXCEPT ![c] = [IdleCall EXCEPT !.pc = pc, !.published = call[c].published,
                                                        !.wanted = call[c].wanted]]

Fail(c) ==
    /\ call' = ToolAnswered(c, "error")
    /\ stages' = stages \ {c}
    /\ UNCHANGED <<facet, parentAt, names, inodes, foreign, walk, cmd>>

Goto(c, pc) ==
    /\ call' = [call EXCEPT ![c].pc = pc]
    /\ UNCHANGED <<facet, parentAt, names, inodes, stages, foreign, walk, cmd>>

\* validate, decode, the authority to write, and path_budget: a call whose
\* answer might not fit is refused before it does anything.
execute_file_tool(c) ==
    /\ facet = "files" /\ call[c].pc = "idle"
    /\ \E expected \in Bodies \cup {"absent"}, content \in Bodies \cup {"delete"} :
          \/ call' = [call EXCEPT ![c] = [IdleCall EXCEPT !.pc = "parent", !.expected = expected,
                                                          !.content = content]]
          \/ call' = [call EXCEPT ![c] = [IdleCall EXCEPT !.pc = "error"]]
    /\ UNCHANGED <<facet, parentAt, names, inodes, stages, foreign, walk, cmd>>

Native(c) == c \in NativeCalls
Steps(c, pc) == facet = "files" /\ call[c].pc = pc

\* Control::check and I/O errors, between any two steps before publication.
control_check(c) ==
    /\ facet = "files" /\ ~Native(c)
    /\ call[c].pc \in {"parent", "stat", "read", "stage", "parent2", "stat2", "read2", "publish"}
    /\ Fail(c)

\* Workspace::parent: directories are opened one by one without following
\* symbolic links.
parent(c) ==
    /\ Steps(c, "parent") /\ ~Native(c)
    /\ IF parentAt = 0 THEN Fail(c)
       ELSE /\ call' = [call EXCEPT ![c].dir = parentAt, ![c].pc = "stat"]
            /\ UNCHANGED <<facet, parentAt, names, inodes, stages, foreign, walk, cmd>>

Expects(c, present, data) ==
    IF call[c].expected = "absent" THEN ~present ELSE present /\ data = call[c].expected

\* open_file, first half: open and fstat.  A link, a device or a file with
\* other links is refused.
open_file(c) ==
    /\ Steps(c, "stat") /\ ~Native(c)
    /\ \E i \in {names[call[c].dir]} :
          IF i = Deleted
          THEN IF ~Expects(c, FALSE, "") THEN Fail(c)
               ELSE IF call[c].content = "delete"
               THEN call' = ToolAnswered(c, "ok") /\ UNCHANGED <<facet, parentAt, names, inodes, stages, foreign, walk, cmd>>
               ELSE Goto(c, "stage")
          ELSE IF Data(i) = "odd" THEN Fail(c)
          ELSE /\ call' = [call EXCEPT ![c].ino = i, ![c].stamp = inodes[i].stamp, ![c].pc = "read"]
               /\ UNCHANGED <<facet, parentAt, names, inodes, stages, foreign, walk, cmd>>

\* Second half: the bytes, unless the file moved under them; check_expected.
read_file(c) ==
    /\ Steps(c, "read") /\ ~Native(c)
    /\ IF inodes[call[c].ino].stamp # call[c].stamp \/ ~Expects(c, TRUE, Data(call[c].ino))
       THEN Fail(c)
       ELSE Goto(c, IF call[c].content = "delete" THEN "parent2" ELSE "stage")

\* Staging::new in the parent of the workspace, the chunks, fchmod, fsync.
Staging(c) ==
    /\ Steps(c, "stage")
    /\ stages' = stages \cup {c}
    /\ call' = [call EXCEPT ![c].pc = "parent2"]
    /\ UNCHANGED <<facet, parentAt, names, inodes, foreign, walk, cmd>>

\* revalidate: the path still leads to the same directory ...
revalidate_parent(c) ==
    /\ Steps(c, "parent2")
    /\ IF parentAt # call[c].dir THEN Fail(c)
       ELSE /\ call' = [call EXCEPT ![c].pc = "stat2", ![c].quiet = TRUE]
            /\ UNCHANGED <<facet, parentAt, names, inodes, stages, foreign, walk, cmd>>

\* ... the name to a file ...
revalidate_open(c) ==
    /\ Steps(c, "stat2")
    /\ \E i \in {names[call[c].dir]} :
          IF i = Deleted
          THEN IF Expects(c, FALSE, "") THEN Goto(c, "publish") ELSE Fail(c)
          ELSE IF Data(i) = "odd" THEN Fail(c)
          ELSE /\ call' = [call EXCEPT ![c].now = i, ![c].nowStamp = inodes[i].stamp, ![c].pc = "read2"]
               /\ UNCHANGED <<facet, parentAt, names, inodes, stages, foreign, walk, cmd>>

\* ... with the expected contents, the same inode, unchanged since it was
\* opened first.
SameFile(c) == call[c].now = call[c].ino /\ inodes[call[c].ino].stamp = call[c].stamp

revalidate(c) ==
    /\ Steps(c, "read2")
    /\ IF \/ inodes[call[c].now].stamp # call[c].nowStamp
          \/ ~Expects(c, TRUE, Data(call[c].now))
          \/ ~SameFile(c)
       THEN Fail(c)
       ELSE Goto(c, "publish")

WantedFile(c, i) ==
    /\ call[c].expected = "absent" => i = Deleted
    /\ call[c].quiet => /\ parentAt = call[c].dir
                        /\ Expects(c, i # Deleted, IF i = Deleted THEN "" ELSE Data(i))

Publish(c, i) ==
    /\ call' = [Disturbed(c) EXCEPT ![c].pc = "fsync", ![c].published = TRUE,
                                    ![c].wanted = WantedFile(c, names[call[c].dir])]
    /\ names' = [names EXCEPT ![call[c].dir] = i]
    /\ stages' = stages
    /\ UNCHANGED <<facet, parentAt, foreign, walk, cmd>>

Unlinked(s, i) == IF i = Deleted THEN s ELSE [s EXCEPT ![i].stamp = @ + 1]

Replaceable(c) == call[c].expected = "absent" => names[call[c].dir] = Deleted

rename(c) ==
    /\ Steps(c, "publish") /\ call[c].content # "delete"
    /\ IF ~Replaceable(c) THEN Fail(c)
       ELSE /\ inodes' = Append(Unlinked(inodes, names[call[c].dir]),
                                [data |-> call[c].content, stamp |-> 1])
            /\ Publish(c, Len(inodes) + 1)

\* unlinkat
unlink(c) ==
    /\ Steps(c, "publish") /\ call[c].content = "delete"
    /\ IF names[call[c].dir] = Deleted THEN Fail(c)
       ELSE /\ inodes' = Unlinked(inodes, names[call[c].dir])
            /\ Publish(c, Deleted)

After(c) == {"ok"}

finish(c) ==
    /\ Steps(c, "fsync")
    /\ \E pc \in After(c) : call' = ToolAnswered(c, pc)
    /\ stages' = stages \ {c}
    /\ UNCHANGED <<facet, parentAt, names, inodes, foreign, walk, cmd>>

(***************************************************************************)
(* The native file tool: it follows links and writes in place.             *)
(***************************************************************************)
\* read_bounded and the comparison with what is expected.
read_bounded(c) ==
    /\ Steps(c, "parent") /\ Native(c)
    /\ \E i \in {IF parentAt = 0 THEN Deleted ELSE names[parentAt]} :
          IF ~Expects(c, i # Deleted, IF i = Deleted THEN "" ELSE Data(i)) THEN Fail(c)
          ELSE Goto(c, IF call[c].content = "delete" THEN "remove" ELSE "open")

native_check(c) ==
    /\ facet = "files" /\ Native(c) /\ call[c].pc \in {"parent", "open", "remove"}
    /\ Fail(c)

\* OpenOptions: create_new for an absent file, truncate otherwise; a file
\* that is gone by now is not created.
native_open(c) ==
    /\ Steps(c, "open")
    /\ \E i \in {IF parentAt = 0 THEN Deleted ELSE names[parentAt]} :
          IF (call[c].expected = "absent") # (i = Deleted) \/ parentAt = 0 THEN Fail(c)
          ELSE /\ inodes' = IF i = Deleted THEN Append(inodes, [data |-> Partial, stamp |-> 1])
                            ELSE [inodes EXCEPT ![i] = [data |-> Partial, stamp |-> @.stamp + 1]]
               /\ names' = IF i = Deleted THEN [names EXCEPT ![parentAt] = Len(inodes) + 1] ELSE names
               /\ call' = [Disturbed(c) EXCEPT ![c].pc = "write", ![c].published = TRUE,
                                               ![c].wanted = (call[c].expected = "absent" => i = Deleted),
                                               ![c].ino = IF i = Deleted THEN Len(inodes) + 1 ELSE i]
               /\ UNCHANGED <<facet, parentAt, stages, foreign, walk, cmd>>

\* write_all; it may fail half way (a full disk).
native_write(c) ==
    /\ Steps(c, "write")
    /\ \/ /\ inodes' = [inodes EXCEPT ![call[c].ino] = [data |-> call[c].content, stamp |-> @.stamp + 1]]
          /\ call' = [Disturbed(c) EXCEPT ![c].pc = "ok"]
          /\ UNCHANGED <<facet, parentAt, names, stages, foreign, walk, cmd>>
       \/ Fail(c)

\* remove_file
native_remove(c) ==
    /\ Steps(c, "remove")
    /\ IF parentAt = 0 \/ names[IF parentAt = 0 THEN 1 ELSE parentAt] = Deleted THEN Fail(c)
       ELSE /\ inodes' = Unlinked(inodes, names[parentAt])
            /\ names' = [names EXCEPT ![parentAt] = Deleted]
            /\ call' = [Disturbed(c) EXCEPT ![c].pc = "ok", ![c].published = TRUE]
            /\ UNCHANGED <<facet, parentAt, stages, foreign, walk, cmd>>

\* A command, an editor or the user changes the path: in place, by a new
\* file, a removal, a link, or another directory in the place of the parent.
Foreign ==
    /\ facet = "files" /\ foreign < MaxForeign
    /\ foreign' = foreign + 1
    /\ call' = [k \in ToolCalls |-> [call[k] EXCEPT !.quiet = FALSE]]
    /\ UNCHANGED <<facet, stages, walk, cmd>>
    /\ \/ /\ parentAt # 0 /\ names[parentAt] # Deleted
          /\ \E b \in Bodies :
                inodes' = [inodes EXCEPT ![names[parentAt]] = [data |-> b, stamp |-> @.stamp + 1]]
          /\ UNCHANGED <<parentAt, names>>
       \/ /\ parentAt # 0
          /\ \E b \in Bodies \cup {"odd"} :
                inodes' = Append(Unlinked(inodes, names[parentAt]), [data |-> b, stamp |-> 1])
          /\ names' = [names EXCEPT ![parentAt] = Len(inodes) + 1]
          /\ UNCHANGED parentAt
       \/ /\ parentAt # 0 /\ names[parentAt] # Deleted
          /\ inodes' = Unlinked(inodes, names[parentAt])
          /\ names' = [names EXCEPT ![parentAt] = Deleted]
          /\ UNCHANGED parentAt
       \/ /\ parentAt' \in (Dirs \cup {0}) \ {parentAt}
          /\ UNCHANGED <<names, inodes>>

(***************************************************************************)
(* Searching.  A node is [depth, kind, size, hits, real]: a link leads to  *)
(* the node `real`, or nowhere (0).                                        *)
(***************************************************************************)
Node(d, k, s, h, r) == [depth |-> d, kind |-> k, size |-> s, hits |-> h, real |-> r]

TreesNow ==
    { << Node(0, "dir", 0, 0, 0), Node(1, "file", 2, 2, 0), Node(1, "dir", 0, 0, 0),
         Node(2, "file", 1, 1, 0), Node(0, "file", 1, 1, 0) >>,
      << Node(0, "file", 1, 0, 0), Node(0, "link", 0, 0, 3), Node(0, "file", 2, 1, 0),
         Node(0, "link", 0, 0, 0), Node(0, "dir", 0, 0, 0) >>,
      << Node(0, "file", 1, 1, 0), Node(0, "dir", 0, 0, 0), Node(1, "file", 1, 2, 0) >> }

IdleWalk == [pc |-> "idle", tree |-> <<>>, native |-> FALSE, results |-> 1, files |-> 1,
             bytes |-> 1, room |-> 1, at |-> 1, read |-> 0, found |-> 0, scanned |-> 0,
             entries |-> 0, reasons |-> {}, pending |-> <<>>, seen |-> {}]

search ==
    /\ facet = "search" /\ walk.pc = "idle"
    /\ \E t \in TreesNow, native \in BOOLEAN, r \in {1, 4}, f \in {1, 3}, b \in {2, 4}, o \in {2, 5} :
          walk' = [IdleWalk EXCEPT !.pc = IF native THEN "pop" ELSE "entry", !.tree = t,
                        !.native = native, !.results = r, !.files = f, !.bytes = b, !.room = o,
                        !.pending = SetToSortSeq({i \in DOMAIN t : t[i].depth = 0}, <)]
    /\ UNCHANGED <<facet, cmd>> /\ UNCHANGED fileVars

\* Search::exhausted
exhausted(w) == w.reasons \cap {"entries", "files", "bytes", "results", "output"} # {}

\* The node behind a subtree.
Past(t, i) == CHOOSE j \in (i + 1)..(Len(t) + 1) :
                 /\ \A k \in (i + 1)..(j - 1) : t[k].depth > t[i].depth
                 /\ j = Len(t) + 1 \/ t[j].depth <= t[i].depth

limit(w, reason) == [w EXCEPT !.reasons = @ \cup {reason}]
skip(w, next) == [limit(w, "unsearched_entries") EXCEPT !.at = next]

LinesShown(w, hits) ==
    LET pushed == Min({hits, w.room - w.found, w.results - w.found})
        out == [w EXCEPT !.found = @ + pushed]
    IN  IF out.found >= w.results THEN limit(out, "results")
        ELSE IF pushed < hits THEN limit(out, "output") ELSE out

\* search_directory, one entry.
search_entry(w, n, odd) ==
    IF w.entries >= WalkEntries THEN limit(w, "entries")
    ELSE IF n.kind = "link" \/ odd
    THEN skip([w EXCEPT !.entries = @ + 1], Past(w.tree, w.at))
    ELSE IF n.kind = "dir"
    THEN IF n.depth + 1 >= WalkDepth
         THEN [limit(w, "depth") EXCEPT !.at = Past(w.tree, w.at), !.entries = @ + 1]
         ELSE [w EXCEPT !.at = @ + 1, !.entries = @ + 1]
    ELSE IF w.scanned >= w.files THEN limit(w, "files")
    ELSE IF w.read + n.size > w.bytes THEN limit(w, "bytes")
    ELSE LinesShown([w EXCEPT !.at = @ + 1, !.entries = @ + 1, !.scanned = @ + 1, !.read = @ + n.size],
               n.hits)

search_directory ==
    /\ facet = "search" /\ walk.pc = "entry"
    /\ IF walk.at > Len(walk.tree) \/ exhausted(walk)
       THEN walk' = [walk EXCEPT !.pc = "done"]
       ELSE \E odd \in BOOLEAN : walk' = search_entry(walk, walk.tree[walk.at], odd)
    /\ UNCHANGED <<facet, cmd>> /\ UNCHANGED fileVars

Ordered(S) == SetToSortSeq(S, <)
Children(t, i) == Ordered({j \in (i + 1)..(Past(t, i) - 1) : t[j].depth = t[i].depth + 1})

\* The native search of one canonical path.
NativeLines(w, hits) ==
    LET pushed == Min({hits, w.room - w.found, w.results - w.found})
    IN  [w EXCEPT !.found = @ + pushed,
                  !.reasons = IF pushed < hits THEN @ \cup {"truncated"} ELSE @]

native_visit(w, i) ==
    IF w.tree[i].kind = "dir"
    THEN [w EXCEPT !.pending = @ \o Children(w.tree, i)]
    ELSE \* read up to what is left of max_bytes
         LET size == Min({w.tree[i].size, w.bytes - w.read})
             read == [w EXCEPT !.scanned = @ + 1, !.read = @ + size]
         IN  IF size < w.tree[i].size
             THEN limit(NativeLines(read, Min({size, w.tree[i].hits})), "truncated")
             ELSE NativeLines(read, w.tree[i].hits)

SeenFile(w, i) == i \in w.seen

native_search ==
    /\ facet = "search" /\ walk.pc = "pop"
    /\ UNCHANGED <<facet, cmd>> /\ UNCHANGED fileVars
    /\ IF walk.pending = <<>> THEN walk' = [walk EXCEPT !.pc = "done"]
       ELSE IF walk.scanned >= walk.files \/ walk.read >= walk.bytes \/ walk.found >= walk.results
       THEN walk' = [limit(walk, "truncated") EXCEPT !.pc = "done"]
       ELSE \E i \in {walk.pending[Len(walk.pending)]} :
            \E real \in {IF walk.tree[i].kind = "link" THEN walk.tree[i].real ELSE i} :
            \E w \in {[walk EXCEPT !.pending = SubSeq(@, 1, Len(@) - 1)]} :
               IF real = 0 THEN walk' = limit(w, "skipped")
               ELSE IF SeenFile(w, real) THEN walk' = w
               ELSE \E unreadable \in BOOLEAN :
                       walk' = IF unreadable
                               THEN limit([w EXCEPT !.seen = @ \cup {real}], "skipped")
                               ELSE native_visit([w EXCEPT !.seen = @ \cup {real}], real)

(***************************************************************************)
(* Native commands.                                                        *)
(***************************************************************************)
\* Descendants: in the process group or not, holding the output or not.
Descendants == {[escaped |-> e, pipe |-> p] : e, p \in BOOLEAN}

IdleCmd == [pc |-> "idle", shell |-> "none", kids |-> {}, pipe |-> 0, printed |-> 0,
            captured |-> 0, limit |-> 1, truncated |-> FALSE, exited |-> FALSE,
            cancelled |-> FALSE, status |-> "none"]

OnlyCmd == UNCHANGED facet /\ UNCHANGED fileVars /\ UNCHANGED walk
ToolRunning == facet = "command" /\ cmd.pc # "idle" /\ cmd.pc # "done"
PipeOpen == cmd.shell = "running" \/ \E k \in cmd.kids : k.pipe

\* execute_recorded and the spawn of /bin/sh in a process group of its own.
run_command ==
    /\ facet = "command" /\ cmd.pc = "idle"
    /\ \E l \in {1, MaxPrinted} :
          cmd' = [IdleCmd EXCEPT !.pc = "loop", !.shell = "running", !.limit = l]
    /\ OnlyCmd

\* The shell and its descendants.
ShellWorks ==
    /\ ToolRunning /\ OnlyCmd
    /\ \/ \E k \in Descendants \ cmd.kids :
             /\ cmd.shell = "running" \/ \E p \in cmd.kids : (p.escaped => k.escaped) /\ (k.pipe => p.pipe)
             /\ cmd' = [cmd EXCEPT !.kids = @ \cup {k}]
       \/ cmd.shell = "running" /\ cmd' = [cmd EXCEPT !.shell = "zombie"]
       \/ \E k \in cmd.kids : cmd' = [cmd EXCEPT !.kids = @ \ {k}]
       \/ /\ PipeOpen /\ cmd.printed < MaxPrinted
          /\ cmd' = [cmd EXCEPT !.printed = @ + 1, !.pipe = @ + 1]
       \/ ~cmd.cancelled /\ cmd' = [cmd EXCEPT !.cancelled = TRUE]

Breaks(status) == cmd' = [cmd EXCEPT !.pc = "kill", !.status = status]

\* The select loop, in the order of its branches.
Ready == cmd.exited /\ ~PipeOpen /\ cmd.pipe = 0

select ==
    /\ facet = "command" /\ cmd.pc = "loop" /\ OnlyCmd
    /\ IF Ready THEN Breaks("exited")
       ELSE \/ cmd.cancelled /\ Breaks("cancelled")
            \/ ~cmd.cancelled /\ Breaks("timed_out")
            \/ ~cmd.cancelled /\ cmd.shell = "zombie" /\ ~cmd.exited /\ cmd' = [cmd EXCEPT !.exited = TRUE]
            \/ /\ ~cmd.cancelled /\ cmd.pipe > 0
               /\ \E n \in {1, cmd.pipe} :
                     cmd' = [cmd EXCEPT !.pipe = @ - n,
                                !.captured = @ + Min({n, cmd.limit - cmd.captured}),
                                !.truncated = @ \/ n > cmd.limit - cmd.captured]
            \/ ~cmd.cancelled /\ Breaks("unknown")

Survivors(kids) == {k \in kids : k.escaped}

kill_process_group ==
    /\ facet = "command" /\ cmd.pc = "kill" /\ OnlyCmd
    /\ \/ cmd' = [cmd EXCEPT !.pc = "wait", !.kids = Survivors(@),
                             !.shell = IF @ = "running" THEN "zombie" ELSE @]
       \/ cmd' = [cmd EXCEPT !.pc = "wait", !.status = "unknown"]

\* The wait of at most two seconds; an interrupted command is unknown even
\* then, since descendants may have left the group.
reap ==
    /\ facet = "command" /\ cmd.pc = "wait" /\ OnlyCmd
    /\ \/ /\ cmd.shell = "zombie"
          /\ cmd' = [cmd EXCEPT !.pc = "done",
                        !.status = IF @ \in {"cancelled", "timed_out"} THEN "unknown" ELSE @]
       \/ cmd' = [cmd EXCEPT !.pc = "done", !.status = "unknown"]

(***************************************************************************)
(* The specification.                                                      *)
(***************************************************************************)
CapabilitiesInit ==
    /\ facet \in {"files", "search", "command"}
    /\ parentAt = 1
    /\ \E b \in {CHOOSE b \in Bodies : TRUE} : inodes = <<[data |-> b, stamp |-> 1], [data |-> b, stamp |-> 1]>>
    /\ names \in {[d \in Dirs |-> Deleted], [d \in Dirs |-> d]}
    /\ call = [c \in ToolCalls |-> IdleCall]
    /\ stages = {} /\ foreign = 0
    /\ walk = IdleWalk /\ cmd = IdleCmd

CapabilitiesNext ==
    \/ \E c \in ToolCalls :
          \/ execute_file_tool(c) \/ control_check(c) \/ parent(c) \/ open_file(c) \/ read_file(c)
          \/ Staging(c) \/ revalidate_parent(c) \/ revalidate_open(c) \/ revalidate(c)
          \/ rename(c) \/ unlink(c) \/ finish(c)
          \/ read_bounded(c) \/ native_check(c) \/ native_open(c) \/ native_write(c) \/ native_remove(c)
    \/ Foreign
    \/ search \/ search_directory \/ native_search
    \/ run_command \/ ShellWorks \/ select \/ kill_process_group \/ reap

CapabilitiesTypeOK ==
    /\ parentAt \in Dirs \cup {0}
    /\ \A d \in Dirs : names[d] \in 0..Len(inodes)
    /\ \A c \in ToolCalls : call[c].ino \in 0..Len(inodes) /\ call[c].now \in 0..Len(inodes)
    /\ stages \subseteq ToolCalls
    /\ walk.found \in Nat /\ cmd.kids \subseteq Descendants

\* A workspace write that answers with an error has published nothing, and
\* whatever it answers its staging directory is gone: an error may be
\* retried as if the call had never been made ("rather than returning a
\* retryable pre-mutation failure", files.rs:173).
ErrorUnchanged ==
    \A c \in ToolCalls \ NativeCalls :
       /\ call[c].pc = "error" => ~call[c].published
       /\ call[c].pc \in {"ok", "error"} => c \notin stages

\* Two tool calls and other programs race for one path: a file expected to
\* be absent is never replaced, whoever writes; and when nobody else writes
\* between its revalidation and its rename, a call replaces exactly the
\* contents its caller expected, in the directory the path leads to.
ReplacesExpected == \A c \in ToolCalls : call[c].published => call[c].wanted

\* Limits, skipped entries and links: a search that reports no reason for
\* being incomplete has found every hit of the tree, and each once.
AllHits(t) == LET files == {i \in DOMAIN t : t[i].kind = "file"}
              IN  FoldLeft(LAMBDA n, i : n + t[i].hits, 0, Ordered(files))
SearchHonest ==
    walk.pc = "done" /\ walk.reasons = {} => walk.found = AllHits(walk.tree)

\* A command that ends, is cancelled, times out, forks and leaves its group:
\* a known outcome means that no process of the group is left and that
\* nobody can still write to its output, all of which was captured unless
\* the result says it was cut (host.rs:2, :478).
KnownOutcome ==
    cmd.pc = "done" /\ cmd.status = "exited" =>
       /\ cmd.shell # "running" /\ \A k \in cmd.kids : k.escaped /\ ~k.pipe
       /\ cmd.truncated \/ cmd.captured = cmd.printed

=============================================================================
