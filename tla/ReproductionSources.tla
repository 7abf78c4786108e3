------------------------ MODULE ReproductionSources -------------------------
(***************************************************************************)
(* The public sources of a reproduction and the replay prepared from them: *)
(* fetch_reproduction_sources.py puts an archive and a Git checkout under  *)
(* a root that every job shares, run_landreman_original.py extracts the    *)
(* archive into the run root of one job and launches the archived driver,  *)
(* and check_reproduction_manifest.py verifies what is there.              *)
(*                                                                         *)
(* A job may be killed at any step and run again, in the same run root (a  *)
(* requeued job) or a new one.  The server sends the pinned bytes or fewer *)
(* of them.  An inode is named by a number, 0 is no file.                  *)
(***************************************************************************)
EXTENDS Naturals, FiniteSets, FiniteSetsExt

CONSTANTS
    Jobs,
    MaxStarts           \* bound: how often jobs are started, all together

ASSUME SourcesAssumption == IsFiniteSet(Jobs) /\ MaxStarts \in Nat

VARIABLES
    archive,    \* inodes of the archive in place and of its .part sibling
    content,    \* of each inode
    unpacked,   \* the unpacked archive and its marker
    repo,       \* the checkout: HEAD, whether its files are there and clean; the tip of
                \* its default branch, and whether its pin requires files
    job,        \* at, kind, inode open for writing, tries, why it failed
    root,       \* each job's run root: what it holds, what it was extracted from, replay.json
    together    \* history variable: most fetches that ran at the same time

vars == <<archive, content, unpacked, repo, job, root, together>>

\* the jobs of slurm/: EXACT downloads and executes, FORTBO only checks and prepares;
\* HAND is a fetch of all artifacts with --unpack
Kinds == {"EXACT", "FORTBO", "HAND"}
Inodes == 1..(Cardinality(Jobs) + 2)

\* the default of landreman_fortbo.sbatch puts the fo cache into the run root
NewRoot(kind) ==
    {[holds |-> holds, from |-> "NONE", patched |-> FALSE, replay |-> "NONE"] :
        holds \in {{}} \cup (IF kind = "FORTBO" THEN {{"CACHE"}} ELSE {})}

Init ==
    /\ archive = [dest |-> 0, part |-> 0]
    /\ content = [i \in Inodes |-> "SHORT"]
    /\ unpacked = [tree |-> "NONE", marker |-> FALSE]
    /\ repo \in [at : {"ABSENT"}, tip : {"PIN", "OTHER"}, paths : BOOLEAN,
                 files : {FALSE}, clean : {FALSE}]
    /\ job \in [Jobs -> [at : {"START"}, kind : Kinds, inode : {0}, tries : {0}, why : {""}]]
    /\ root \in [Jobs -> UNION {NewRoot(kind) : kind \in Kinds}]
    /\ \A j \in Jobs : root[j] \in NewRoot(job[j].kind)
    /\ together = 0

Ended == {"START", "DONE", "FAILED", "KILLED"}
Preparing == {"PREPARE", "EXTRACT", "PATCH", "RECORD", "EXECUTE"}
Fetching(j) == job[j].at \notin Ended \cup Preparing

Starts == MapThenSumSet(LAMBDA j : job[j].tries, Jobs)

Goes(j, at) == job' = [job EXCEPT ![j].at = at]
Fails(j, why) == job' = [job EXCEPT ![j].at = "FAILED", ![j].why = why]
-----------------------------------------------------------------------------
\* _download of the archive.
Begins(j) ==
    /\ job[j].at \in {"START", "FAILED", "KILLED"} /\ Starts < MaxStarts
    /\ job' = [job EXCEPT ![j].at = "FETCH", ![j].tries = @ + 1, ![j].why = ""]
    /\ root' \in {root} \cup {[root EXCEPT ![j] = new] : new \in NewRoot(job[j].kind)}
    /\ together' = Max({together, Cardinality({k \in Jobs : Fetching(k)}) + 1})
    /\ UNCHANGED <<archive, content, unpacked, repo>>

AfterFetch(j) == IF job[j].kind = "HAND" THEN "UNPACK" ELSE "PREPARE"
InPlace == content[archive.dest]

\* a file in place is verified and never replaced
FindsFile(j) ==
    /\ job[j].at = "FETCH" /\ archive.dest # 0
    /\ IF InPlace = "PINNED" THEN Goes(j, AfterFetch(j)) ELSE Fails(j, "MISMATCH")
    /\ UNCHANGED <<archive, content, unpacked, repo, root, together>>

FindsNone(j) ==
    /\ job[j].at = "FETCH" /\ archive.dest = 0
    /\ IF job[j].kind = "FORTBO" THEN Fails(j, "MISSING")
       ELSE Goes(j, "UNLINK") \/ Fails(j, "SPACE")
    /\ UNCHANGED <<archive, content, unpacked, repo, root, together>>

Unlinks(j) ==
    /\ job[j].at = "UNLINK"
    /\ archive' = [archive EXCEPT !.part = 0]
    /\ Goes(j, "OPEN")
    /\ UNCHANGED <<content, unpacked, repo, root, together>>

InUse == {archive.dest, archive.part} \cup {job[j].inode : j \in Jobs}

\* .part is created, or cut to nothing if another fetch has created it meanwhile
Opens(j) ==
    /\ job[j].at = "OPEN"
    /\ LET i == IF archive.part # 0 THEN archive.part ELSE Min(Inodes \ InUse)
       IN  /\ archive' = [archive EXCEPT !.part = i]
           /\ content' = [content EXCEPT ![i] = "SHORT"]
           /\ job' = [job EXCEPT ![j].at = "COPY", ![j].inode = i]
    /\ UNCHANGED <<unpacked, repo, root, together>>

\* an early end of the response is not an error
Copies(j) ==
    /\ job[j].at = "COPY"
    /\ content' \in {content, [content EXCEPT ![job[j].inode] = "PINNED"]}
    /\ job' = [job EXCEPT ![j].at = "DIGEST", ![j].inode = 0]
    /\ UNCHANGED <<archive, unpacked, repo, root, together>>

\* the request, the file or a read fails: whatever .part is now is removed
CopyFails(j) ==
    /\ job[j].at \in {"OPEN", "COPY"}
    /\ archive' = [archive EXCEPT !.part = 0]
    /\ job' = [job EXCEPT ![j].at = "FAILED", ![j].inode = 0, ![j].why = "DOWNLOAD"]
    /\ UNCHANGED <<content, unpacked, repo, root, together>>

\* mutant: the digest of the download is not compared
AnyContent(i) == TRUE
DigestMatches(i) == content[i] = "PINNED"

\* the digest is taken of the file that has the name now, if there is one
Digests(j) ==
    /\ job[j].at = "DIGEST"
    /\ IF archive.part # 0 /\ DigestMatches(archive.part)
       THEN Goes(j, "REPLACE") /\ UNCHANGED archive
       ELSE Fails(j, "DOWNLOAD") /\ archive' = [archive EXCEPT !.part = 0]
    /\ UNCHANGED <<content, unpacked, repo, root, together>>

\* and so is the rename
Replaces(j) ==
    /\ job[j].at = "REPLACE"
    /\ IF archive.part = 0 THEN Fails(j, "DOWNLOAD") /\ UNCHANGED archive
       ELSE Goes(j, AfterFetch(j)) /\ archive' = [dest |-> archive.part, part |-> 0]
    /\ UNCHANGED <<content, unpacked, repo, root, together>>

Downloads(j) ==
    \/ FindsFile(j) \/ FindsNone(j) \/ Unlinks(j) \/ Opens(j) \/ Copies(j) \/ CopyFails(j)
    \/ Digests(j) \/ Replaces(j)
-----------------------------------------------------------------------------
\* _unpack: the marker is written after the whole archive is extracted.
FindsMarker(j) ==
    /\ job[j].at = "UNPACK"
    /\ Goes(j, IF unpacked.marker THEN "GIT" ELSE "UNTAR")
    /\ UNCHANGED <<archive, content, unpacked, repo, root, together>>

\* an archive cut at the end of a member is read without an error
Untars(j) ==
    /\ job[j].at = "UNTAR"
    /\ \/ unpacked' = [unpacked EXCEPT !.tree = InPlace] /\ Goes(j, "MARK")
       \/ unpacked' = [unpacked EXCEPT !.tree = "SHORT"] /\ Fails(j, "UNPACK")
    /\ UNCHANGED <<archive, content, repo, root, together>>

Marks(j) ==
    /\ job[j].at = "MARK"
    /\ unpacked' = [unpacked EXCEPT !.marker = TRUE]
    /\ Goes(j, "GIT")
    /\ UNCHANGED <<archive, content, repo, root, together>>

\* _checkout: an existing checkout is verified and never repaired.
FindsRepo(j) ==
    /\ job[j].at = "GIT"
    /\ IF repo.at = "ABSENT" THEN Goes(j, "CLONE") /\ repo' = [repo EXCEPT !.at = "CLONING"]
       ELSE Goes(j, "VERIFY") /\ UNCHANGED repo
    /\ UNCHANGED <<archive, content, unpacked, root, together>>

\* git removes what a failed clone has made
Clones(j) ==
    /\ job[j].at = "CLONE"
    /\ \/ Goes(j, "CHECKOUT") /\ repo' = [repo EXCEPT !.at = "CLONED"]
       \/ Fails(j, "CLONE") /\ repo' = [repo EXCEPT !.at = "ABSENT"]
    /\ UNCHANGED <<archive, content, unpacked, root, together>>

\* git checkout writes the files, then the index, and moves HEAD last of all: till then
\* the files and the index are compared with the tip
WritesFiles(j) ==
    /\ job[j].at = "CHECKOUT"
    /\ \E indexed \in BOOLEAN :
          repo' = [repo EXCEPT !.files = TRUE, !.clean = indexed /\ repo.tip = "PIN"]
    /\ UNCHANGED <<archive, content, unpacked, job, root, together>>

CheckedOut == [repo EXCEPT !.at = "CHECKED_OUT", !.files = TRUE, !.clean = TRUE]

\* fetch and checkout of the pinned revision; nobody removes a clone without it
ChecksOut(j) ==
    /\ job[j].at = "CHECKOUT"
    /\ \/ Goes(j, "VERIFY") /\ repo' = CheckedOut
       \/ Fails(j, "CHECKOUT") /\ UNCHANGED repo
    /\ UNCHANGED <<archive, content, unpacked, root, together>>

AtPin == repo.at = "CHECKED_OUT" \/ (repo.at = "CLONED" /\ repo.tip = "PIN")
HasFiles == repo.files

\* mutant: HEAD is not compared with the pinned revision
AnyRevision == ~repo.paths \/ HasFiles
\* revision and required files; without --require-clean a dirty checkout will do
CheckoutIsUsable == AtPin /\ (~repo.paths \/ HasFiles)

Verifies(j) ==
    /\ job[j].at = "VERIFY"
    /\ IF CheckoutIsUsable THEN Goes(j, "DONE") ELSE Fails(j, "REVISION")
    /\ UNCHANGED <<archive, content, unpacked, repo, root, together>>

Fetches(j) == FindsMarker(j) \/ Untars(j) \/ Marks(j) \/ FindsRepo(j) \/ Clones(j)
                \/ WritesFiles(j) \/ ChecksOut(j) \/ Verifies(j)
-----------------------------------------------------------------------------
\* prepare and execute of run_landreman_original.py in the run root of the job.
\* mutant: what the fetch has reported is not verified again
Reported == archive.dest # 0
ArchiveIsPinned == archive.dest # 0 /\ InPlace = "PINNED"

RootIsEmpty(j) == root[j].holds = {}

Prepares(j) ==
    /\ job[j].at = "PREPARE"
    /\ IF ~ArchiveIsPinned THEN Fails(j, "MISMATCH")
       ELSE IF RootIsEmpty(j) THEN Goes(j, "EXTRACT") ELSE Fails(j, "NOT_EMPTY")
    /\ UNCHANGED <<archive, content, unpacked, repo, root, together>>

\* digests of the pinned members and disk space, before anything is written, then the
\* files one by one; the extraction may end before the last of them
Extracts(j) ==
    /\ job[j].at = "EXTRACT"
    /\ \/ Fails(j, "EXTRACT") /\ UNCHANGED root
       \/ /\ root' = [root EXCEPT ![j].holds = @ \cup {"TREE"}, ![j].from = "SHORT"]
          /\ Fails(j, "EXTRACT")
       \/ /\ root' = [root EXCEPT ![j].holds = @ \cup {"TREE"}, ![j].from = InPlace]
          /\ Goes(j, "PATCH")
    /\ UNCHANGED <<archive, content, unpacked, repo, together>>

\* the driver is kept and its path replaced
Patches(j) ==
    /\ job[j].at = "PATCH"
    /\ root' = [root EXCEPT ![j].patched = TRUE]
    /\ Goes(j, "RECORD")
    /\ UNCHANGED <<archive, content, unpacked, repo, together>>

RecordsReplay(j) ==
    /\ job[j].at = "RECORD"
    /\ root' = [root EXCEPT ![j].replay = "prepared"]
    /\ Goes(j, IF job[j].kind = "EXACT" THEN "EXECUTE" ELSE "DONE")
    /\ UNCHANGED <<archive, content, unpacked, repo, together>>

Executes(j) ==
    /\ job[j].at = "EXECUTE"
    /\ \/ root' = [root EXCEPT ![j].replay = "complete"] /\ Goes(j, "DONE")
       \/ root' = [root EXCEPT ![j].replay = "failed"] /\ Fails(j, "DRIVER")
    /\ UNCHANGED <<archive, content, unpacked, repo, together>>

Replays(j) == Prepares(j) \/ Extracts(j) \/ Patches(j) \/ RecordsReplay(j) \/ Executes(j)

\* Killed between two steps or in one; git may finish its clone or its checkout alone, an
\* extraction may leave any part of its files behind, and a patch or a log may be half
\* written.
Killed(j) ==
    /\ job[j].at \notin Ended
    /\ job' = [job EXCEPT ![j].at = "KILLED", ![j].inode = 0]
    /\ repo' \in {repo}
          \cup (IF job[j].at = "CLONE" THEN {[repo EXCEPT !.at = "CLONED"]} ELSE {})
          \cup (IF job[j].at = "CHECKOUT" THEN {CheckedOut} ELSE {})
    /\ unpacked' \in {unpacked} \cup (IF job[j].at = "UNTAR"
                                      THEN {[unpacked EXCEPT !.tree = "SHORT"]} ELSE {})
    /\ root' \in {root} \cup (IF job[j].at = "EXTRACT"
                              THEN {[root EXCEPT ![j].holds = @ \cup {"TREE"}, ![j].from = "SHORT"]}
                              ELSE {})
    /\ UNCHANGED <<archive, content, together>>

Next == \E j \in Jobs : Begins(j) \/ Downloads(j) \/ Fetches(j) \/ Replays(j) \/ Killed(j)

Spec == Init /\ [][Next]_vars
-----------------------------------------------------------------------------
\* verify_sources of check_reproduction_manifest.py: what it does not find or accept
SourceFailures ==
    (IF archive.dest # 0 /\ InPlace = "PINNED" THEN {} ELSE {"archive"})
        \cup (IF AtPin /\ repo.clean /\ (~repo.paths \/ HasFiles) THEN {} ELSE {"repo"})

TypeOK ==
    /\ archive \in [dest : 0..Cardinality(Inodes), part : 0..Cardinality(Inodes)]
    /\ content \in [Inodes -> {"SHORT", "PINNED"}]
    /\ unpacked \in [tree : {"NONE", "SHORT", "PINNED"}, marker : BOOLEAN]
    /\ repo.at \in {"ABSENT", "CLONING", "CLONED", "CHECKED_OUT"}
    /\ \A j \in Jobs : job[j].kind \in Kinds /\ job[j].tries \in Nat

\* As long as no two fetches have run at the same time, and however often one was killed
\* and run again, the archive in place is the pinned one, a tree with a marker is
\* unpacked whole, and what a fetch of all artifacts has accepted the manifest check
\* accepts too, save a checkout that was cut short in a clone whose tip is the pinned
\* revision: the fetch takes it as it is, the check finds it dirty.
FetchedSourcesVerify ==
    /\ TypeOK
    /\ together <= 1 =>
          /\ archive.dest # 0 => InPlace = "PINNED"
          /\ unpacked.marker => unpacked.tree = "PINNED"
          /\ \A j \in Jobs : job[j].kind = "HAND" /\ job[j].at = "DONE" =>
                SourceFailures \subseteq (IF repo.at # "CHECKED_OUT" /\ repo.tip = "PIN"
                                          THEN {"repo"} ELSE {})

\* Even after two fetches have raced, a replay that is recorded as prepared, complete or
\* failed was extracted whole from the pinned archive and runs the patched driver.
\* (A third can cut the file that the second puts in the place of the first one's
\* between its verification and its extraction.)
ReplaysArePinned ==
    together <= 2 => \A j \in Jobs : root[j].replay # "NONE" =>
        /\ root[j].from = "PINNED" /\ root[j].patched
        /\ root[j].replay # "prepared" => job[j].kind = "EXACT"

\* What no second try can repair has one of three causes: two fetches have run at the
\* same time, a clone or its checkout was cut short, or the run root was used before or
\* holds the cache.
RefusalsAreExplained ==
    \A j \in Jobs :
        /\ job[j].why = "MISMATCH" => together > 1
        /\ job[j].why = "REVISION" => repo.at # "CHECKED_OUT" \/ together > 1
        /\ job[j].why = "NOT_EMPTY" => job[j].tries > 1 \/ root[j].holds = {"CACHE"}
=============================================================================
