----------------------------- MODULE Installer -----------------------------
(***************************************************************************)
(* Updating the executable (app/update.rs) and installing the files of the *)
(* review page (review/assets.rs).  Several processes work on the same     *)
(* executable and the same directory while the release they download is    *)
(* still being uploaded, or is uploaded again, file by file.               *)
(*                                                                         *)
(* Abstractions.  A file of a release is the build it was made from: an    *)
(* archive matches a checksum or a signature of its own build only.        *)
(* "torn" is an archive whose bytes are of no build.  The                  *)
(* archives of OddBuilds hold what the extraction does not expect (another *)
(* version's root, a duplicate or missing entry, a wrong manifest).        *)
(***************************************************************************)
EXTENDS Integers, FiniteSets, TLC

CONSTANTS
    Installers,   \* processes of this program
    Builds,       \* builds of a release
    FirstBuild,   \* the one the release of this version was published with
    OddBuilds,    \* builds whose archive is signed but not as expected
    MaxUploads,   \* bound on the files uploaded while processes run
    MaxDamage     \* bound on the times the installed files are damaged

ASSUME InstallerAssumption ==
    /\ FirstBuild \in Builds /\ OddBuilds \subseteq Builds
    /\ Builds \cap {"absent", "damaged", "development"} = {} /\ "nobody" \notin Installers
    /\ MaxUploads \in Nat /\ MaxDamage \in Nat

Artifacts == {"binary", "review"}
Files == {"archive", "checksum", "signature"}
NoBuild == "missing"

VARIABLES
    releases,     \* artifact -> file -> the build uploaded last, or NoBuild
    latest,       \* the release GitHub calls the latest: 1 (ours) or 2
    uploads,      \* how many files were uploaded
    executable,   \* the build the executable was replaced with, or NoBuild
    installed,    \* the review directory: "absent", "damaged", "development" or a build
    damages,      \* how often it was damaged
    lockHolder,   \* the process that holds the install lock
    installer,    \* process -> what it does and what it has downloaded
    kinds         \* process -> how it was installed

iVars == <<releases, latest, uploads, executable, installed, damages,
           lockHolder, installer, kinds>>

FreshRelease == [job |-> "none", pc |-> "idle",
          got |-> [f \in Files |-> NoBuild]]

(***************************************************************************)
(* The release server and the disk.                                        *)
(***************************************************************************)
\* A file of the release, or all of them, are uploaded or replaced.
Upload(a, fs) ==
    /\ uploads < MaxUploads
    /\ \E b \in Builds :
          /\ releases' = [releases EXCEPT ![a] = [f \in Files |-> IF f \in fs THEN b ELSE @[f]]]
          /\ releases' # releases
    /\ uploads' = uploads + 1
    /\ UNCHANGED <<latest, executable, installed, damages, lockHolder,
                   installer, kinds>>

\* The installed files are damaged, or the system stopped before their
\* contents reached the disk.
Damage ==
    /\ damages < MaxDamage /\ installed # "absent"
    /\ installed' = "damaged" /\ damages' = damages + 1
    /\ UNCHANGED <<releases, latest, uploads, executable, lockHolder,
                   installer, kinds>>

(***************************************************************************)
(* Steps of a process.                                                     *)
(***************************************************************************)
UpdaterAt(p, pc) == installer[p].pc = pc
UpdaterGoes(p, pc) == installer' = [installer EXCEPT ![p].pc = pc]

Released(p) == IF lockHolder = p THEN "nobody" ELSE lockHolder

\* Ends with a status, the files or an error; the guard of the lock is
\* dropped and the temporary files are removed.
UpdaterEnded(p) ==
    /\ installer' = [installer EXCEPT ![p] = [FreshRelease EXCEPT !.pc = "done"]]
    /\ lockHolder' = Released(p)

OtherUpdaters == UNCHANGED <<releases, latest, uploads, damages, kinds>>

\* install_latest: only a release archive replaces itself; the others are
\* told what to run.
install_latest(p) ==
    /\ UpdaterAt(p, "idle")
    /\ IF kinds[p] = "archive"
       THEN installer' = [installer EXCEPT ![p] = [FreshRelease EXCEPT !.job = "binary", !.pc = "latest"]]
       ELSE UpdaterGoes(p, "done")
    /\ OtherUpdaters /\ UNCHANGED <<executable, installed, lockHolder>>

\* latest_release; a release without one of the three files is a failure.
latest_release(p) ==
    /\ UpdaterAt(p, "latest")
    /\ IF latest = 1 THEN UpdaterEnded(p)
       ELSE UpdaterGoes(p, "key") /\ UNCHANGED lockHolder
    /\ OtherUpdaters /\ UNCHANGED <<executable, installed>>

\* fetch_signing_key: the crate of the version, its checksum, its manifest,
\* and the key in it; one that is missing or malformed is a failure (fail).
fetch_signing_key(p) ==
    /\ UpdaterAt(p, "key")
    /\ UpdaterGoes(p, "archive") /\ UNCHANGED lockHolder
    /\ OtherUpdaters /\ UNCHANGED <<executable, installed>>

NextFile == [archive |-> "checksum", checksum |-> "signature", signature |-> "verify"]

\* download_to_file and fetch_bytes: one request for each file, in order.
fetch(p) ==
    /\ installer[p].pc \in Files
    /\ \E f \in {installer[p].pc} :
          \E b \in {releases[installer[p].job][f]} \cup (IF f = "archive" THEN {"torn"} ELSE {}) :
             /\ installer' = [installer EXCEPT ![p].got[f] = b, ![p].pc = NextFile[f]]
    /\ OtherUpdaters /\ UNCHANGED <<executable, installed, lockHolder>>

verify_archive_checksum(got) == got["archive"] = got["checksum"]
verify_archive_signature(got) == got["archive"] = got["signature"]

Verified(got) == verify_archive_checksum(got) /\ verify_archive_signature(got)

verify(p) ==
    /\ UpdaterAt(p, "verify")
    /\ IF Verified(installer[p].got) THEN UpdaterGoes(p, "extract") /\ UNCHANGED lockHolder
       ELSE UpdaterEnded(p)
    /\ OtherUpdaters /\ UNCHANGED <<executable, installed>>

\* extract_binary and self_replace: the new executable is put in place by a
\* rename.
extract_binary(p) ==
    /\ UpdaterAt(p, "extract") /\ installer[p].job = "binary"
    /\ IF installer[p].got["archive"] \in OddBuilds
       THEN UpdaterEnded(p) /\ UNCHANGED executable
       ELSE /\ executable' = installer[p].got["archive"]
            /\ UpdaterEnded(p)
    /\ OtherUpdaters /\ UNCHANGED installed

\* validate_directory, for a release and for a development build.
Managed(p) == kinds[p] # "development"

\* validate_manifest: schema, API, version, paths and files as declared.
validate_manifest(p, dir) ==
    \/ dir \in Builds \ OddBuilds
    \/ dir = "development" /\ ~Managed(p)

validate_directory(p, dir) == dir # "damaged" /\ validate_manifest(p, dir)

\* ReviewAssets::availability: no lock is taken to look.
availability(p) ==
    /\ UpdaterAt(p, "idle")
    /\ CASE installed # "absent" /\ validate_directory(p, installed) ->
              UpdaterGoes(p, "done")
         [] Managed(p) /\ ~(installed # "absent" /\ validate_directory(p, installed)) ->
              installer' = [installer EXCEPT ![p] = [FreshRelease EXCEPT !.job = "review", !.pc = "lock"]]
         [] OTHER -> UpdaterGoes(p, "done")
    /\ OtherUpdaters /\ UNCHANGED <<executable, installed, lockHolder>>

\* A user of a development build puts files of his own there.
InstallDevelopment(p) ==
    /\ ~Managed(p) /\ UpdaterAt(p, "idle") /\ installed = "absent"
    /\ installed' = "development"
    /\ OtherUpdaters /\ UNCHANGED <<executable, lockHolder, installer>>

LockFree(p) == lockHolder = "nobody"

acquire_install_lock(p) ==
    /\ UpdaterAt(p, "lock") /\ LockFree(p)
    /\ lockHolder' = p /\ UpdaterGoes(p, "look")
    /\ OtherUpdaters /\ UNCHANGED <<executable, installed>>

Whole(p) == installed # "absent" /\ validate_directory(p, installed)

look(p) ==
    /\ UpdaterAt(p, "look")
    /\ IF Whole(p) THEN UpdaterEnded(p)
       ELSE UpdaterGoes(p, IF installed = "absent" THEN "key" ELSE "quarantine") /\ UNCHANGED lockHolder
    /\ OtherUpdaters /\ UNCHANGED <<executable, installed>>

\* quarantine: the damaged directory is renamed.
quarantine(p) ==
    /\ UpdaterAt(p, "quarantine")
    /\ UpdaterGoes(p, "key") /\ installed' = "absent"
    /\ OtherUpdaters /\ UNCHANGED <<executable, lockHolder>>

\* extract, from_directory and the rename of the whole directory, which
\* refuses to replace one.
extract(p) ==
    /\ UpdaterAt(p, "extract") /\ installer[p].job = "review"
    /\ IF installed # "absent" \/ ~validate_directory(p, installer[p].got["archive"])
       THEN UpdaterEnded(p) /\ UNCHANGED installed
       ELSE /\ installed' = installer[p].got["archive"]
            /\ UpdaterGoes(p, "sync") /\ UNCHANGED lockHolder
    /\ OtherUpdaters /\ UNCHANGED executable

\* sync_directory
sync_directory(p) ==
    /\ UpdaterAt(p, "sync")
    /\ UpdaterEnded(p)
    /\ OtherUpdaters /\ UNCHANGED <<executable, installed>>

\* A request times out, is refused or exceeds its limit; or the process is
\* killed, and the system drops its lock.
fail(p) ==
    /\ installer[p].pc \notin {"idle", "done"}
    /\ UpdaterEnded(p)
    /\ OtherUpdaters /\ UNCHANGED <<executable, installed>>

InstallerInit ==
    /\ releases = [a \in Artifacts |-> [f \in Files |-> FirstBuild]]
    /\ latest \in 1..2 /\ uploads = 0
    /\ executable = NoBuild /\ installed \in {"absent", "damaged"} /\ damages = 0
    /\ lockHolder = "nobody"
    /\ installer = [p \in Installers |-> FreshRelease]
    /\ kinds \in [Installers -> {"archive", "cargo", "development"}]
    /\ \E p \in Installers : kinds[p] = "archive"

InstallerNext ==
    \/ \E a \in Artifacts, fs \in {{f} : f \in Files} \cup {Files} : Upload(a, fs)
    \/ Damage
    \/ \E p \in Installers :
          \/ install_latest(p) \/ latest_release(p) \/ fetch_signing_key(p)
          \/ fetch(p) \/ verify(p) \/ extract_binary(p)
          \/ availability(p) \/ InstallDevelopment(p) \/ acquire_install_lock(p)
          \/ look(p) \/ quarantine(p) \/ extract(p) \/ sync_directory(p) \/ fail(p)

(***************************************************************************)
(* Properties                                                              *)
(***************************************************************************)
InstallerTypeOK ==
    /\ \A a \in Artifacts, f \in Files : releases[a][f] \in Builds \cup {NoBuild}
    /\ latest \in 1..2 /\ uploads \in 0..MaxUploads /\ damages \in 0..MaxDamage
    /\ lockHolder \in Installers \cup {"nobody"}
    /\ \A p \in Installers : installer[p].job \in Artifacts \cup {"none"}

\* However the release changes while it is downloaded and whichever request
\* fails: what is installed was made from one build, whole and as expected.
OnlyVerified ==
    /\ executable \in (Builds \ OddBuilds) \cup {NoBuild}
    /\ installed \in (Builds \ OddBuilds) \cup {"absent", "damaged", "development"}

\* Files that a release finds whole stay until something damages them: no
\* process moves them away or replaces them because of what it saw earlier.
ValidStays ==
    (installed \in Builds) => (installed' = installed \/ installed' = "damaged")

\* Nobody downloads the review page while it is there: the second process
\* waits for the first and then uses what it installed.
Downloads(p) == installer[p].job = "review" /\ installer[p].pc \in Files \cup {"key", "verify", "extract"}

DownloadsOnce ==
    \A p \in Installers : Downloads(p) =>
        /\ installed \notin Builds
        /\ \A q \in Installers \ {p} : ~Downloads(q)
=============================================================================
