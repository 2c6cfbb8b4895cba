---------------------------- MODULE ReviewCapture ----------------------------
(***************************************************************************)
(* What a review shows is frozen first: review::inspect reads a repository *)
(* that its owner keeps changing (harness review.rs, review/git.rs and     *)
(* review/files.rs), inspect_snapshots compares two snapshots of a task    *)
(* (review/snapshots.rs), and catalog lists what can be reviewed           *)
(* (review/catalog.rs).                                                    *)
(***************************************************************************)
EXTENDS Naturals, FiniteSets, TLC

CONSTANTS
    Names,          \* the paths of the repository
    MaxTreeEdits,   \* bounds on what the owner does while a review is captured:
    MaxIndexEdits,  \* files written, the index replaced, HEAD moved
    MaxHeadMoves

ASSUME ReviewCaptureAssumption ==
    Names # {} /\ {MaxTreeEdits, MaxIndexEdits, MaxHeadMoves} \subseteq Nat

VARIABLES
    repo,     \* HEAD, the index and the working tree, as they are now
    since,    \* every state of the repository since the capture began
    capture,  \* what inspect_with_limits knows
    done,     \* changes of the owner so far
    compared  \* the last comparison of two snapshots

captureVars == <<repo, since, capture, done, compared>>

Gone == "absent"
BlobContents == {"a", "b"}
Commits == 0..1
\* The tree of a commit; which paths an index holds and with what content.
WorkTree == [Names -> BlobContents \cup {Gone}]
CommitTree(c) == [n \in Names |-> IF c = 0 THEN "a" ELSE "b"]
CaptureRanges == {"WorkingTree", "Staged", "Commits"}

NoCapture == [pc |-> "idle", range |-> "WorkingTree", head |-> 0, base |-> 0, index |-> CommitTree(0),
              pass |-> 0, list |-> {}, read |-> CommitTree(0), after |-> CommitTree(0)]

CaptureTypeOK ==
    /\ repo.head \in Commits /\ repo.index \in WorkTree /\ repo.tree \in WorkTree
    /\ repo \in since /\ capture.range \in CaptureRanges /\ capture.pass \in 0..3
    /\ capture.base \in Commits /\ capture.list \subseteq Names

CaptureInit ==
    /\ repo = [head |-> 0, index |-> CommitTree(0), tree |-> CommitTree(0)]
    /\ since = {repo} /\ capture = NoCapture
    /\ done = [tree |-> 0, index |-> 0, head |-> 0]
    /\ compared = {}

CaptureStep(from, to) == capture.pc = from /\ capture' = to
Same == UNCHANGED <<repo, done, since, compared>>

-----------------------------------------------------------------------------
(* inspect_with_limits *)

\* Git::new looks at the repository only to find its parts; HEAD is resolved
\* first and compared at the end.
inspect(range) ==
    /\ CaptureStep("idle", [NoCapture EXCEPT !.pc = "base", !.range = range, !.head = repo.head])
    /\ compared = {} /\ since' = {repo} /\ UNCHANGED <<repo, done, compared>>

\* freeze_objects: the content of every object, verified against its name.
FreezeObjects(t) == [n \in {n \in Names : t[n] # Gone} |-> t[n]] @@ [n \in Names |-> Gone]

\* The base is resolved by name again, and then frozen as an object.
resolve_base ==
    /\ CaptureStep("base", [capture EXCEPT !.base = repo.head,
              !.pc = IF capture.range = "Commits" THEN "diff" ELSE "index",
              !.after = FreezeObjects(CommitTree(repo.head))])
    /\ Same

\* copy_index: the index is read once and used from the copy.
copy_index ==
    /\ CaptureStep("index", [capture EXCEPT !.index = repo.index, !.after = FreezeObjects(repo.index),
              !.pc = IF capture.range = "Staged" THEN "diff" ELSE "list"])
    /\ Same

\* working: git lists the paths of the copied index and the other files,
\* then each of them is opened; a file that is gone is not captured.
Tracked == {n \in Names : capture.index[n] # Gone}
list_paths ==
    /\ CaptureStep("list", [capture EXCEPT !.pc = "read", !.read = [n \in Names |-> Gone],
              !.list = Tracked \cup {n \in Names : repo.tree[n] # Gone}])
    /\ Same

\* Root::capture of one path: the file is the same before and after the read.
capture_file(n) ==
    /\ n \in capture.list
    /\ CaptureStep("read", [capture EXCEPT !.list = @ \ {n}, !.read[n] = repo.tree[n]])
    /\ Same

PassesAgree == capture.read = capture.after

\* The second pass and the one after the diff must find what the first did.
finish_pass ==
    /\ capture.list = {} /\ capture.pc = "read"
    /\ capture' =
         IF capture.pass = 0
         THEN [capture EXCEPT !.pc = "list", !.pass = 1, !.after = capture.read]
         ELSE IF ~PassesAgree THEN [capture EXCEPT !.pc = "Changed"]
         ELSE IF capture.pass = 1 THEN [capture EXCEPT !.pc = "diff", !.pass = 2]
         ELSE [capture EXCEPT !.pc = "publish"]
    /\ Same

\* diff works on the frozen trees; then HEAD and the index are looked at again.
diff ==
    /\ CaptureStep("diff", [capture EXCEPT !.pc = "head"]) /\ Same

HeadMoved == repo.head # capture.head

check_head ==
    /\ CaptureStep("head", [capture EXCEPT !.pc = IF HeadMoved THEN "Changed"
              ELSE IF capture.range = "Commits" THEN "publish" ELSE "identity"])
    /\ Same

check_index ==
    /\ CaptureStep("identity", [capture EXCEPT !.pc =
              IF repo.index # capture.index THEN "Changed"
              ELSE IF capture.range = "WorkingTree" THEN "list" ELSE "publish"])
    /\ Same

\* The trees, the patch and the manifest are put into the artifact store.
publish_review ==
    /\ CaptureStep("publish", [capture EXCEPT !.pc = "shown"]) /\ Same

\* Git fails, the deadline passes, the operator cancels, a limit is met or an
\* object is not what its name says: nothing is shown.
capture_fails ==
    /\ capture.pc \notin {"idle", "shown", "Changed", "failed"}
    /\ capture' = [capture EXCEPT !.pc = "failed"] /\ Same

-----------------------------------------------------------------------------
(* The owner of the repository *)

\* Only what happens while a capture runs can matter to it.
Change(next) ==
    /\ capture.pc \notin {"idle", "shown", "Changed", "failed"}
    /\ repo' = next /\ since' = since \cup {next} /\ UNCHANGED <<capture, compared>>

owner_writes(n, v) ==
    /\ done.tree < MaxTreeEdits /\ repo.tree[n] # v
    /\ done' = [done EXCEPT !.tree = @ + 1] /\ Change([repo EXCEPT !.tree[n] = v])

\* add, reset, or the index that a checkout writes.
owner_stages(t) ==
    /\ done.index < MaxIndexEdits /\ repo.index # t
    /\ done' = [done EXCEPT !.index = @ + 1] /\ Change([repo EXCEPT !.index = t])

owner_moves_head(c) ==
    /\ done.head < MaxHeadMoves /\ repo.head # c
    /\ done' = [done EXCEPT !.head = @ + 1] /\ Change([repo EXCEPT !.head = c])

-----------------------------------------------------------------------------
(* inspect_snapshots: two trees of one path each, entry by entry *)

File(content, permissions) ==
    [kind |-> "File", exec |-> permissions \in {"0755", "0700"}, permissions |-> permissions, content |-> content]
Directory(permissions) == [kind |-> "Directory", exec |-> FALSE, permissions |-> permissions, content |-> "a"]
Symlink(target) == [kind |-> "Symlink", exec |-> FALSE, permissions |-> Gone, content |-> target]
Missing == [kind |-> Gone, exec |-> FALSE, permissions |-> Gone, content |-> "a"]

Entries ==
    {Missing} \cup {Directory(m) : m \in {"0755", "0700"}} \cup {Symlink(t) : t \in BlobContents}
    \cup {File(c, m) : c \in BlobContents, m \in {"0644", "0600", "0755", "0700"}}

\* Git knows the content and whether a file may be executed; directories are
\* not written into its tree.
GitEntry(e) ==
    IF e.kind \in {"Directory", Gone} THEN <<Gone>> ELSE <<e.kind, e.exec, e.content>>

\* write_tree of both sides and diff-tree.
Patched(left, right) == GitEntry(left) # GitEntry(right)

Noncanonical(e) == e.kind = "File" /\ e.permissions # (IF e.exec THEN "0755" ELSE "0644")

\* metadata_changes: what the patch cannot say.
MetadataChanged(left, right) ==
    /\ left # right
    /\ \/ "Directory" \in {left.kind, right.kind}
       \/ /\ left.kind = "File" /\ right.kind = "File" /\ left.permissions # right.permissions
          /\ Noncanonical(left) \/ Noncanonical(right)
       \/ ~(left.kind = "File" /\ right.kind = "File") /\ right.kind # Gone /\ Noncanonical(right)

inspect_snapshots(left, right) ==
    /\ compared' = {[left |-> left, right |-> right, patch |-> Patched(left, right),
                     metadata |-> MetadataChanged(left, right)]}
    /\ capture.pc = "idle" /\ compared = {}
    /\ UNCHANGED <<repo, since, capture, done>>

-----------------------------------------------------------------------------
CaptureNext ==
    \/ \E range \in CaptureRanges : inspect(range)
    \/ resolve_base \/ copy_index \/ list_paths \/ finish_pass \/ diff \/ check_head \/ check_index
    \/ publish_review \/ capture_fails
    \/ \E n \in Names : capture_file(n) \/ \E v \in BlobContents \cup {Gone} : owner_writes(n, v)
    \/ \E t \in {CommitTree(0), CommitTree(1)} : owner_stages(t)
    \/ \E c \in Commits : owner_moves_head(c)
    \/ \E left, right \in Entries : inspect_snapshots(left, right)

-----------------------------------------------------------------------------
(* Properties *)

\* A review that is shown is of one moment: HEAD, the index and every file
\* were together what it says at some point of the capture, although each is
\* read on its own and the owner commits, checks out and saves in between.
ReviewOfOneMoment ==
    capture.pc = "shown" =>
        \E r \in since :
            /\ r.head = capture.base
            /\ capture.range = "Staged" => r.index = capture.after
            /\ capture.range = "WorkingTree" => r.tree = capture.after /\ r.index = capture.index

\* Whatever a task changed in an entry is shown: by the patch or, when Git
\* has no word for it, by the list of metadata changes; and nothing is shown
\* of an entry that is the same.
EveryChangeShown ==
    \A c \in compared : (c.left # c.right) <=> (c.patch \/ c.metadata)
=============================================================================
