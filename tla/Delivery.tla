------------------------------ MODULE Delivery ------------------------------
(***************************************************************************)
(* Snapshots of a workspace and the patch that delivers one                *)
(* (crates/harness/src/workspace.rs, delivery.rs, delivery/git.rs).        *)
(*                                                                         *)
(* A capture reads a checkout twice, path by path, while other processes   *)
(* edit it.  A delivery turns two snapshots into a patch with a series of  *)
(* git processes, applies the patch to a copy of the baseline and issues a *)
(* receipt only when the copy is the candidate; a verification does the    *)
(* same from a stored patch.  Every git process may fail, flood its        *)
(* output, outlive its deadline or leave children behind.                  *)
(***************************************************************************)
EXTENDS Naturals, FiniteSets, Sequences, SequencesExt

CONSTANTS MaxChanges   \* edits of the checkout during one capture

ASSUME DeliveryAssumption == MaxChanges \in Nat

VARIABLES deliveryJob,        \* "capture", "build" or "verify"
          pc,         \* the next step of the job
          disk,       \* the checkout on disk: path |-> entry
          changes,    \* edits by other processes so far
          seen,       \* every state the checkout has had
          scans,      \* the entries of the scans done and under way
          base, cand, \* the two snapshots of a delivery
          patch,      \* the patch: path |-> what git records of it, or PathGone
          work,       \* the copy of the baseline the patch is applied to
          child,      \* the git process: "none", "running" or its status
          group,      \* its process group: "none", "alive" or "gone"
          stop,       \* "", "Cancelled" or "TimedOut"
          binary,     \* which git executable is installed
          ran,        \* the executables that ran
          result      \* "" or how the job ended

deliveryVars == <<deliveryJob, pc, disk, changes, seen, scans, base, cand, patch, work,
                  child, group, stop, binary, ran, result>>

----------------------------------------------------------------------------
(* Snapshots.                                                              *)

\* A directory (or a file in its place), a file in it, a link in the root.
TreePaths == {"d", "d/f", "l"}
\* The order in which a scan reads them.
NextPath(p) == CASE p = "d" -> "d/f" [] p = "d/f" -> "l" [] p = "l" -> "scanned"
Ancestors(p) == IF p = "d/f" THEN {"d"} ELSE {}

Entry(k, x, m) == [kind |-> k, data |-> x, mode |-> m]
Files == {Entry("file", "one", "644"), Entry("file", "two", "644"),
          Entry("file", "one", "755"), Entry("file", "one", "600")}
Directories == {Entry("directory", "", m) : m \in {"755", "700"}}
Links == {Entry("link", t, "777") : t \in {"d/f", "l"}}
TreeEntries(p) == CASE p = "d" -> {Entry("file", "one", "644")} \cup Directories
                [] p = "d/f" -> Files
                [] p = "l" -> Links

Kind(s, p) == IF p \in DOMAIN s THEN s[p].kind ELSE "absent"

\* A link is kept only when it resolves to a file or a directory.
resolves(s, p) == Kind(s, s[p].data) \in {"file", "directory"}

\* Snapshot::validate: parents are directories, links resolve.
validateTree(s) ==
    \A p \in DOMAIN s : /\ \A a \in Ancestors(p) : Kind(s, a) = "directory"
                        /\ s[p].kind = "link" => resolves(s, p)

Drop(s, Q) == [p \in DOMAIN s \ Q |-> s[p]]
Put(s, p, e) == [q \in DOMAIN s \cup {p} |-> IF q = p THEN e ELSE s[q]]

\* What may be on disk: any tree, its links resolved or not.
Trees == {s \in UNION {[P -> UNION {TreeEntries(p) : p \in TreePaths}] : P \in SUBSET TreePaths} :
             \A p \in DOMAIN s : /\ s[p] \in TreeEntries(p)
                                 /\ \A a \in Ancestors(p) : Kind(s, a) = "directory"}
\* While a capture runs, only the usual modes.
Checkouts == {s \in Trees : \A p \in DOMAIN s :
                 s[p].mode = CASE s[p].kind = "file" -> "644"
                               [] s[p].kind = "directory" -> "755" [] OTHER -> "777"}
Snapshots == {s \in Trees : validateTree(s)}

\* Snapshot::changed_paths
changed_paths(s, t) == {p \in DOMAIN s \cup DOMAIN t :
                           ~(p \in DOMAIN s /\ p \in DOMAIN t /\ s[p] = t[p])}

----------------------------------------------------------------------------
(* What git records and what its application does.                         *)

\* GitWorkspace::tree: directories are left out, of a mode only the
\* executable bit stays.
tree(s) == [p \in {q \in DOMAIN s : s[q].kind # "directory"} |->
               [s[p] EXCEPT !.mode = IF s[p].kind = "file" /\ @ # "755" THEN "644" ELSE @]]

PathGone == Entry("absent", "", "")
\* git treeDiff-tree between the two trees, renames off: the old and the new side.
treeDiff(s, t) == [p \in changed_paths(s, t) |->
                 [old |-> IF p \in DOMAIN s THEN s[p] ELSE PathGone,
                  new |-> IF p \in DOMAIN t THEN t[p] ELSE PathGone]]

\* git apply refuses a preimage that is not there; modes only warn.
Applies(s, d) ==
    \A p \in DOMAIN d :
        LET now == IF p \in DOMAIN tree(s) THEN tree(s)[p] ELSE PathGone
        IN  now.kind = d[p].old.kind /\ now.data = d[p].old.data

\* git apply writes what the patch names (new files 0644 or 0755 under the
\* umask 022), creates missing parents 0755 and removes emptied ones.
Applied(s, d) ==
    LET written == {p \in DOMAIN d : d[p].new # PathGone}
        kept == Drop(s, DOMAIN d)
        files == [p \in DOMAIN kept \cup written |->
                     IF p \in written THEN d[p].new ELSE kept[p]]
        parents == UNION {Ancestors(p) : p \in written}
        emptied == {a \in UNION {Ancestors(p) : p \in DOMAIN d \ written} :
                       ~\E p \in DOMAIN files : a \in Ancestors(p)}
        made == {a \in parents : Kind(files, a) # "directory"}
        rest == Drop(files, emptied \ DOMAIN d)
    IN  [p \in DOMAIN rest \cup made |->
            IF p \in made THEN Entry("directory", "", "755") ELSE rest[p]]

----------------------------------------------------------------------------
(* What a patch can represent (delivery.rs).                               *)

GitModes == {"644", "755"}

empty_directory(s, p) == ~\E q \in DOMAIN s : p \in Ancestors(q) /\ s[q].kind # "directory"

representable(s, t) ==
    \A p \in changed_paths(s, t) :
        LET old == IF p \in DOMAIN s THEN s[p] ELSE PathGone
            new == IF p \in DOMAIN t THEN t[p] ELSE PathGone
        IN  /\ new.kind = "file" => new.mode \in GitModes
            /\ old.kind = "file" /\ new.kind = "file" /\ old.mode # new.mode
                  => old.mode \in GitModes
            /\ new.kind = "directory" => new.mode = "755" /\ old.kind # "directory"
            /\ \A r \in {s, t} : Kind(r, p) = "directory" => ~empty_directory(r, p)

----------------------------------------------------------------------------
(* Capturing a checkout.                                                   *)

snapVars == <<disk, changes, seen, scans>>
gitVars == <<base, cand, patch, work, child, group, stop, binary, ran>>

NoTree == [p \in {} |-> PathGone]

DeliveryInit ==
    /\ pc = "start" /\ changes = 0 /\ child = "none" /\ group = "none" /\ stop = ""
    /\ binary = 1 /\ ran = {} /\ result = "" /\ work = NoTree
    /\ \/ /\ deliveryJob = "capture"
          /\ disk \in Checkouts /\ seen = {disk} /\ scans = <<>>
          /\ base = NoTree /\ cand = NoTree /\ patch = NoTree
       \/ /\ deliveryJob \in {"build", "verify"}
          /\ disk = NoTree /\ seen = {} /\ scans = <<>>
          /\ base \in Snapshots /\ cand \in Snapshots
          /\ deliveryJob = "verify" => "l" \notin DOMAIN base \cup DOMAIN cand
          /\ patch \in IF deliveryJob = "build" THEN {NoTree}
                       ELSE {treeDiff(tree(base), tree(cand)), treeDiff(tree(cand), tree(base))}

\* Another process creates, replaces or removes one path.
edit ==
    /\ deliveryJob = "capture" /\ result = "" /\ changes < MaxChanges
    /\ \E p \in TreePaths, t \in Checkouts :
          /\ t # disk /\ changed_paths(disk, t) = {p}
          /\ disk' = t /\ seen' = seen \cup {t}
    /\ changes' = changes + 1
    /\ UNCHANGED <<deliveryJob, pc, scans, result>> /\ UNCHANGED gitVars

\* Snapshot::capture starts a scan.
begin_scan ==
    /\ deliveryJob = "capture" /\ pc = "start" /\ result = ""
    /\ scans' = Append(scans, NoTree) /\ pc' = "d"
    /\ UNCHANGED <<deliveryJob, disk, changes, seen, result>> /\ UNCHANGED gitVars

\* Scanner::directory reads the next path: below a directory it has read.
\* A path that goes between the listing and the read is an IO error.
read_path ==
    /\ deliveryJob = "capture" /\ pc \in TreePaths /\ result = ""
    /\ LET p == pc
           now == Last(scans)
           under == \A a \in Ancestors(p) : Kind(now, a) = "directory"
       IN  \/ /\ scans' = [scans EXCEPT ![Len(scans)] =
                              IF under /\ p \in DOMAIN disk THEN Put(now, p, disk[p]) ELSE now]
              /\ pc' = NextPath(pc)
              /\ UNCHANGED result
           \/ /\ changes > 0 /\ under
              /\ result' = "Io" /\ UNCHANGED <<scans, pc>>
    /\ UNCHANGED <<deliveryJob, disk, changes, seen>> /\ UNCHANGED gitVars

supported(s) == Drop(s, {p \in DOMAIN s : s[p].kind = "link" /\ ~resolves(s, p)})

agreed(one, two) == one = two

end_scan ==
    /\ deliveryJob = "capture" /\ pc = "scanned" /\ result = ""
    /\ scans' = [scans EXCEPT ![Len(scans)] = supported(@)]
    /\ pc' = IF Len(scans) = 1 THEN "start" ELSE "compared"
    /\ UNCHANGED <<deliveryJob, disk, changes, seen, result>> /\ UNCHANGED gitVars

captured ==
    /\ deliveryJob = "capture" /\ pc = "compared" /\ result = ""
    /\ result' = IF ~agreed(scans[1], scans[2]) THEN "ConcurrentChange"
                 ELSE IF ~validateTree(scans[1]) THEN "UnsafePath" ELSE "Captured"
    /\ UNCHANGED <<deliveryJob, pc>> /\ UNCHANGED snapVars /\ UNCHANGED gitVars

----------------------------------------------------------------------------
(* Building and verifying a patch.                                         *)

Delivering == deliveryJob # "capture" /\ result = ""

GitFails(why) ==
    /\ result' = why
    /\ UNCHANGED <<deliveryJob, pc, base, cand, patch, work, child, group, stop, binary, ran>>
    /\ UNCHANGED snapVars

\* Control::check, before every synchronous step.
interrupted(here) == Delivering /\ pc = here /\ child = "none" /\ stop # "" /\ GitFails(stop)

\* PatchBuilder::prepare
prepareDelivery ==
    /\ Delivering /\ pc = "start" /\ stop = ""
    /\ IF representable(base, cand)
       THEN /\ pc' = "open" /\ ran' = {binary}
            /\ UNCHANGED <<deliveryJob, base, cand, patch, work, child, group, stop, binary, result>>
            /\ UNCHANGED snapVars
       ELSE GitFails("Unrepresentable")

\* The git processes of a deliveryJob, in order, and what follows each of them.
Following == [open |-> "trees", trees |-> "treeDiff", treeDiff |-> "apply", apply |-> "compare"]
Commands == DOMAIN Following
After(c) == IF c = "open" /\ deliveryJob = "verify" THEN "apply" ELSE Following[c]

\* GitWorkspace::run, to the spawn of a process in a group of its own.
\* Before the application the baseline is materialized.
spawn ==
    /\ Delivering /\ pc \in Commands /\ child = "none" /\ stop = ""
    /\ child' = "running" /\ group' = "alive" /\ ran' = ran \cup {binary}
    /\ work' = IF pc = "apply" THEN base ELSE work
    /\ UNCHANGED <<deliveryJob, pc, base, cand, patch, stop, binary, result>> /\ UNCHANGED snapVars

\* The process ends.  Its children may outlive it.
child_ends ==
    /\ child = "running" /\ result = ""
    /\ child' \in {"failed", "flooded"} \cup
                  (IF pc = "apply" /\ ~Applies(work, patch) THEN {} ELSE {"succeeded"})
    /\ group' \in {"alive", "gone"}
    /\ work' = IF pc = "apply" /\ child' = "succeeded" THEN Applied(work, patch) ELSE work
    /\ patch' = IF pc = "treeDiff" /\ child' = "succeeded"
                THEN treeDiff(tree(base), tree(cand)) ELSE patch
    /\ UNCHANGED <<deliveryJob, pc, base, cand, stop, binary, ran, result>> /\ UNCHANGED snapVars

\* The last of its children goes.
group_ends ==
    /\ group = "alive" /\ child # "running"
    /\ group' = "gone"
    /\ UNCHANGED <<deliveryJob, pc, base, cand, patch, work, child, stop, binary, ran, result>>
    /\ UNCHANGED snapVars

killed(why) ==
    /\ child' = "killed" /\ group' \in {"alive", "gone"}
    /\ result' = IF group' = "gone" THEN why ELSE "OutcomeUnknown"

kill_group ==
    /\ Delivering /\ child \in {"running", "flooded"}
    /\ \/ child = "flooded" /\ killed("Limit")
       \/ stop # "" /\ killed(stop)
    /\ UNCHANGED <<deliveryJob, pc, base, cand, patch, work, stop, binary, ran>> /\ UNCHANGED snapVars

\* The process is waited for; the group must be gone within a second.
Quiescent == group = "gone"

child_waited ==
    /\ Delivering /\ child \in {"succeeded", "failed"}
    /\ \/ /\ Quiescent
          /\ \/ child = "failed" /\ result' = "GitFailed" /\ UNCHANGED pc
             \/ child = "succeeded" /\ stop # "" /\ result' = stop /\ UNCHANGED pc
             \/ child = "succeeded" /\ stop = "" /\ pc' = After(pc) /\ UNCHANGED result
       \/ group = "alive" /\ result' = "OutcomeUnknown" /\ UNCHANGED pc
    /\ child' = "none"
    /\ UNCHANGED <<deliveryJob, base, cand, patch, work, group, stop, binary, ran>>
    /\ UNCHANGED snapVars

apply_and_compare ==
    /\ Delivering /\ pc = "compare" /\ stop = ""
    /\ IF supported(work) = cand
       THEN /\ pc' = "publishDelivery"
            /\ UNCHANGED <<deliveryJob, base, cand, patch, work, child, group, stop, binary, ran, result>>
            /\ UNCHANGED snapVars
       ELSE GitFails("ReproductionMismatch")

\* PatchBuilder::publish: with the git that was identified at the start.
publishDelivery ==
    /\ Delivering /\ pc = "publishDelivery" /\ stop = ""
    /\ GitFails(IF {binary} # ran THEN "GitUnavailable" ELSE "Receipt")

\* The caller cancels, the deadline passes, a package update replaces git:
\* one of them in a deliveryJob, a bound.
stopping ==
    /\ Delivering /\ stop = "" /\ binary = 1
    /\ stop' \in {"Cancelled", "TimedOut"}
    /\ UNCHANGED <<deliveryJob, pc, base, cand, patch, work, child, group, binary, ran, result>>
    /\ UNCHANGED snapVars
upgrade_git ==
    /\ Delivering /\ binary = 1 /\ stop = ""
    /\ binary' = 2
    /\ UNCHANGED <<deliveryJob, pc, base, cand, patch, work, child, group, stop, ran, result>>
    /\ UNCHANGED snapVars

DeliveryNext ==
    \/ edit \/ begin_scan \/ read_path \/ end_scan \/ captured
    \/ \E here \in Commands \cup {"start", "compare", "publishDelivery"} : interrupted(here)
    \/ prepareDelivery \/ spawn \/ child_ends \/ group_ends \/ kill_group \/ child_waited
    \/ apply_and_compare \/ publishDelivery \/ stopping \/ upgrade_git

----------------------------------------------------------------------------
(* Properties.                                                             *)

Ends == {"", "Captured", "ConcurrentChange", "UnsafePath", "Io", "Unrepresentable",
         "GitFailed", "GitUnavailable", "Limit", "Cancelled", "TimedOut",
         "OutcomeUnknown", "ReproductionMismatch", "Receipt"}

\* Jobs, processes and results stay within their types.
DeliveryTypeOK ==
    /\ deliveryJob \in {"capture", "build", "verify"} /\ changes \in 0..MaxChanges
    /\ Len(scans) <= 2 /\ result \in Ends
    /\ child \in {"none", "running", "succeeded", "failed", "flooded", "killed"}
    /\ group \in {"none", "alive", "gone"} /\ ran \subseteq {1, 2}

\* A capture is never torn: what it returns, its dangling links aside, is a
\* state the checkout really had, however edits interleave with the two
\* scans (capture, the comparison of first and second).
CaptureConsistent == result = "Captured" => \E s \in seen : scans[1] = supported(s)

\* Whatever tree is on disk and whatever happens to it, a capture whose
\* scans agree is a valid snapshot: dropping the links that lead nowhere is
\* enough, and UnsafePath never blames a user's checkout (scan, validateTree).
CaptureValid == result # "UnsafePath"

\* A receipt means what it says: the patch, applied by the one git that ran,
\* turns the baseline into exactly the candidate, and nothing of git is left
\* running (build, verify_patch, publishDelivery).
ReceiptHonest ==
    result = "Receipt" => /\ Applies(base, patch) /\ supported(Applied(base, patch)) = cand
                          /\ Cardinality(ran) = 1 /\ binary \in ran /\ group = "gone"

\* What representable lets through, git reproduces: a freshly built patch
\* fails to reproduce its candidate only when the candidate keeps a
\* directory whose last file went.
OnlyEmptiedMismatch ==
    deliveryJob = "build" /\ result = "ReproductionMismatch" =>
        \E p \in DOMAIN cand : /\ Kind(cand, p) = "directory" /\ empty_directory(cand, p)
                               /\ ~empty_directory(base, p)

\* Every end but OutcomeUnknown, which asks for reconciliation, leaves no
\* git process behind (run, requires_reconciliation).
NoProcessLeft == result \notin {"", "OutcomeUnknown"} => group # "alive"
=============================================================================
