--------------------- MODULE ReproductionSources_proofs --------------------
(***************************************************************************)
(* Proofs about ReproductionSources, for any number of jobs and of starts. *)
(*                                                                         *)
(* RInv is inductive.  Its core is two counts: while no two fetches have   *)
(* run at the same time, one that runs is alone with .part, the tree and   *)
(* the checkout; while no three have, the one that still downloads after   *)
(* an archive was put in place cannot have its .part cut by another.       *)
(***************************************************************************)
EXTENDS ReproductionSources, FunctionTheorems, FiniteSetTheorems, WellFoundedInduction, TLAPS

Unpacking == {"UNPACK", "UNTAR", "MARK", "GIT", "CLONE", "CHECKOUT", "VERIFY"}
Downloading == {"UNLINK", "OPEN", "COPY", "DIGEST", "REPLACE"}
Phases == Ended \cup Preparing \cup {"FETCH"} \cup Downloading \cup Unpacking
Reasons == {"", "MISMATCH", "MISSING", "SPACE", "DOWNLOAD", "UNPACK", "CLONE", "CHECKOUT",
            "REVISION", "NOT_EMPTY", "EXTRACT", "DRIVER"}

Job == [at : Phases, kind : Kinds, inode : 0..Cardinality(Inodes), tries : Nat,
        why : Reasons]
RunRoot == [holds : SUBSET {"CACHE", "TREE"}, from : {"NONE", "SHORT", "PINNED"},
            patched : BOOLEAN, replay : {"NONE", "prepared", "complete", "failed"}]

Checkout == [at : {"ABSENT", "CLONING", "CLONED", "CHECKED_OUT"}, tip : {"PIN", "OTHER"},
             paths : BOOLEAN, files : BOOLEAN, clean : BOOLEAN]

Fetchers == {k \in Jobs : Fetching(k)}

Typed ==
    /\ archive \in [dest : 0..Cardinality(Inodes), part : 0..Cardinality(Inodes)]
    /\ content \in [Inodes -> {"SHORT", "PINNED"}]
    /\ unpacked \in [tree : {"NONE", "SHORT", "PINNED"}, marker : BOOLEAN]
    /\ repo \in Checkout
    /\ job \in [Jobs -> Job]
    /\ root \in [Jobs -> RunRoot]
    /\ together \in Nat

\* What a job is doing fits its kind, and what it has behind it.
PathsAreTaken ==
    \A j \in Jobs :
        /\ job[j].at \in Unpacking => job[j].kind = "HAND"
        /\ job[j].at \in Preparing => job[j].kind # "HAND"
        /\ job[j].at = "EXECUTE" => job[j].kind = "EXACT"
        /\ job[j].at = "COPY" => job[j].inode # 0
        /\ job[j].at # "START" => job[j].tries # 0
        /\ job[j].at \in Unpacking \cup Preparing \cup {"DONE"} => archive.dest # 0

\* Two names, two files; and together is at least what runs now.
FilesAreDistinct == archive.part # 0 => archive.part # archive.dest
FetchesAreCounted == Cardinality(Fetchers) <= together

\* While fetches have come one after the other.
OneFetch ==
    together <= 1 =>
        /\ archive.dest # 0 => InPlace = "PINNED"
        /\ unpacked.marker => unpacked.tree = "PINNED"
        /\ repo.at = "CHECKED_OUT" => repo.files /\ repo.clean
        /\ \A j \in Jobs :
              /\ job[j].at = "REPLACE" =>
                    archive.part # 0 /\ content[archive.part] = "PINNED"
              /\ job[j].at = "UNTAR" => ~unpacked.marker
              /\ job[j].at = "MARK" => unpacked.tree = "PINNED"
              /\ job[j].at = "CLONE" => repo.at = "CLONING"
              /\ job[j].at = "CHECKOUT" => repo.at = "CLONED"
              /\ job[j].at = "VERIFY" => repo.at # "ABSENT"
              /\ job[j].kind = "HAND" /\ job[j].at = "DONE" =>
                    \/ repo.at = "CHECKED_OUT"
                    \/ repo.at = "CLONED" /\ repo.tip = "PIN"
              /\ job[j].why = "REVISION" =>
                    /\ repo.at \in {"CLONING", "CLONED"}
                    /\ \A k \in Jobs : job[k].at \notin {"CLONE", "CHECKOUT"}

\* While no three have run at the same time: once an archive is in place at most one
\* fetch is still downloading, and nobody cuts the file that it puts there.
TwoFetches ==
    together <= 2 =>
        /\ archive.dest # 0 =>
              /\ \A j, k \in Jobs :
                    job[j].at \in Downloading /\ job[k].at \in Downloading => j = k
              /\ \A j \in Jobs : job[j].at = "REPLACE" /\ archive.part # 0 =>
                    content[archive.part] = "PINNED"
        /\ \A j \in Jobs :
              /\ job[j].at = "EXTRACT" => InPlace = "PINNED"
              /\ job[j].at \in {"PATCH", "RECORD", "EXECUTE"} => root[j].from = "PINNED"
              /\ root[j].replay # "NONE" => root[j].from = "PINNED"

\* What a run root holds and what is recorded of it.
RootsAreKept ==
    \A j \in Jobs :
        /\ job[j].at = "EXTRACT" => root[j].holds = {}
        /\ job[j].at \in {"PATCH", "RECORD", "EXECUTE"} => "TREE" \in root[j].holds
        /\ job[j].at \in {"RECORD", "EXECUTE"} => root[j].patched
        /\ root[j].replay # "NONE" => "TREE" \in root[j].holds /\ root[j].patched
        /\ root[j].replay \in {"complete", "failed"} => job[j].kind = "EXACT"
        /\ job[j].tries <= 1 /\ job[j].at \in {"START", "PREPARE", "EXTRACT"} \cup {"FETCH"}
                                             \cup Downloading \cup Unpacking =>
              "TREE" \notin root[j].holds

RInv == /\ Typed /\ PathsAreTaken /\ FilesAreDistinct /\ FetchesAreCounted /\ OneFetch
        /\ TwoFetches /\ RootsAreKept /\ RefusalsAreExplained
-----------------------------------------------------------------------------
\* A step that moves one job on.
LEMMA JobGoes ==
    ASSUME Typed, NEW j \in Jobs, NEW at \in Phases, Goes(j, at)
    PROVE  /\ job' \in [Jobs -> Job]
           /\ \A k \in Jobs : k # j => job'[k] = job[k]
           /\ job'[j].at = at /\ job'[j].kind = job[j].kind /\ job'[j].inode = job[j].inode
           /\ job'[j].tries = job[j].tries /\ job'[j].why = job[j].why
<1>1. job \in [Jobs -> Job] /\ job[j] \in Job
  BY DEF Typed
<1>2. PICK n : n = [job[j] EXCEPT !.at = at]
  OBVIOUS
<1>3. /\ n \in Job /\ n.at = at /\ n.kind = job[j].kind /\ n.inode = job[j].inode
      /\ n.tries = job[j].tries /\ n.why = job[j].why
  BY <1>1, <1>2 DEF Job
<1>4. job' = [job EXCEPT ![j] = n]
  BY <1>2 DEF Goes
<1>5. QED
  BY <1>1, <1>3, <1>4

\* A step in which one job fails.
LEMMA JobFails ==
    ASSUME Typed, NEW j \in Jobs, NEW why \in Reasons, Fails(j, why)
    PROVE  /\ job' \in [Jobs -> Job]
           /\ \A k \in Jobs : k # j => job'[k] = job[k]
           /\ job'[j].at = "FAILED" /\ job'[j].kind = job[j].kind
           /\ job'[j].inode = job[j].inode
           /\ job'[j].tries = job[j].tries /\ job'[j].why = why
<1>1. job \in [Jobs -> Job] /\ job[j] \in Job
  BY DEF Typed
<1>2. PICK n : n = [job[j] EXCEPT !.at = "FAILED", !.why = why]
  OBVIOUS
<1>3. /\ n \in Job /\ n.at = "FAILED" /\ n.kind = job[j].kind /\ n.inode = job[j].inode
      /\ n.tries = job[j].tries /\ n.why = why
  BY <1>1, <1>2 DEF Job, Phases, Ended
<1>4. job' = [job EXCEPT ![j] = n]
  BY <1>2 DEF Fails
<1>5. QED
  BY <1>1, <1>3, <1>4

\* The phases a job goes through are told apart by whether it still fetches.
LEMMA PhaseFacts ==
    /\ Unpacking \subseteq Phases /\ Downloading \subseteq Phases
    /\ Preparing \subseteq Phases /\ Ended \subseteq Phases /\ "FETCH" \in Phases
    /\ \A j \in Jobs : job[j].at \in Unpacking \cup Downloading \cup {"FETCH"} => Fetching(j)
    /\ \A j \in Jobs : job[j].at \in Ended \cup Preparing => ~Fetching(j)
BY DEF Unpacking, Downloading, Preparing, Ended, Phases, Fetching

\* The fetches that run are finitely many.
LEMMA FetchersAreFinite ==
    /\ IsFiniteSet(Jobs) /\ Cardinality(Jobs) \in Nat
    /\ IsFiniteSet(Fetchers) /\ Cardinality(Fetchers) \in Nat
<1>1. IsFiniteSet(Jobs)
  BY SourcesAssumption
<1>2. Fetchers \subseteq Jobs
  BY DEF Fetchers
<1>3. QED
  BY <1>1, <1>2, FS_Subset, FS_CardinalityType

\* No step but a start adds a fetch.
LEMMA FetchersShrink ==
    ASSUME Typed, FetchesAreCounted, NEW j \in Jobs, together' = together,
           \A k \in Jobs : k # j => job'[k] = job[k],
           Fetching(j)' => Fetching(j)
    PROVE  FetchesAreCounted'
<1>1. \A k \in Jobs : Fetching(k)' => Fetching(k)
  BY DEF Fetching
<1>2. Fetchers' \subseteq Fetchers
  BY <1>1 DEF Fetchers
<1>3. Cardinality(Fetchers') <= Cardinality(Fetchers) /\ IsFiniteSet(Fetchers')
  BY <1>2, FetchersAreFinite, FS_Subset
<1>4. PICK a : a = Cardinality(Fetchers')
  OBVIOUS
<1>5. a \in Nat
  BY <1>3, <1>4, FS_CardinalityType
<1>6. PICK b : b = Cardinality(Fetchers)
  OBVIOUS
<1>7. b \in Nat
  BY <1>6, FetchersAreFinite
<1>8. a <= b /\ b <= together /\ together \in Nat
  BY <1>3, <1>4, <1>6 DEF FetchesAreCounted, Typed
<1>9. a <= together
  BY <1>5, <1>7, <1>8
<1>10. QED
  BY <1>4, <1>9 DEF FetchesAreCounted

\* While fetches come one after the other, one that runs is alone.
LEMMA Alone ==
    ASSUME Typed, FetchesAreCounted, together <= 1, NEW j \in Jobs, Fetching(j),
           NEW k \in Jobs, Fetching(k)
    PROVE  j = k
<1> SUFFICES ASSUME j # k PROVE FALSE
  OBVIOUS
<1>1. j \in Fetchers /\ k \in Fetchers \ {j}
  BY DEF Fetchers
<1>2. PICK a : a = Cardinality(Fetchers)
  OBVIOUS
<1>3. a \in Nat /\ IsFiniteSet(Fetchers)
  BY <1>2, FetchersAreFinite
<1>4. IsFiniteSet(Fetchers \ {j}) /\ Cardinality(Fetchers \ {j}) = a - 1
  BY <1>1, <1>2, <1>3, FS_RemoveElement
<1>5. Cardinality(Fetchers \ {j}) # 0
  BY <1>1, <1>4, FS_EmptySet
<1>6. a - 1 # 0 /\ a - 1 \in Nat
  BY <1>4, <1>5, FS_CardinalityType
<1>7. a <= together /\ together \in Nat
  BY <1>2 DEF FetchesAreCounted, Typed
<1>8. QED
  BY <1>3, <1>6, <1>7

\* While no three fetches run at the same time, two that run are all.
LEMMA NoThird ==
    ASSUME Typed, FetchesAreCounted, together <= 2, NEW i \in Jobs, Fetching(i),
           NEW j \in Jobs, Fetching(j), NEW k \in Jobs, Fetching(k)
    PROVE  i = j \/ i = k \/ j = k
<1> SUFFICES ASSUME i # j, i # k, j # k PROVE FALSE
  OBVIOUS
<1>1. i \in Fetchers /\ j \in Fetchers \ {i} /\ k \in (Fetchers \ {i}) \ {j}
  BY DEF Fetchers
<1>2. PICK a : a = Cardinality(Fetchers)
  OBVIOUS
<1>3. a \in Nat /\ IsFiniteSet(Fetchers)
  BY <1>2, FetchersAreFinite
<1>4. IsFiniteSet(Fetchers \ {i}) /\ Cardinality(Fetchers \ {i}) = a - 1
  BY <1>1, <1>2, <1>3, FS_RemoveElement
<1>5. /\ IsFiniteSet((Fetchers \ {i}) \ {j})
      /\ Cardinality((Fetchers \ {i}) \ {j}) = (a - 1) - 1
  BY <1>1, <1>4, FS_RemoveElement
<1>6. Cardinality((Fetchers \ {i}) \ {j}) # 0
  BY <1>1, <1>5, FS_EmptySet
<1>7. (a - 1) - 1 # 0 /\ (a - 1) - 1 \in Nat
  BY <1>5, <1>6, FS_CardinalityType
<1>8. a <= together /\ together \in Nat
  BY <1>2 DEF FetchesAreCounted, Typed
<1>9. QED
  BY <1>3, <1>7, <1>8
-----------------------------------------------------------------------------
\* Every nonempty set of natural numbers has a least one.
LEMMA LeastNat ==
    ASSUME NEW T, T \subseteq Nat, T # {}
    PROVE  \E m \in T : \A n \in T : m <= n
<1>1. PICK m \in T : \A n \in T : ~ (<<n, m>> \in OpToRel(<, Nat))
  BY NatLessThanWellFounded, WFMin, Zenon
<1>2. \A n \in T : ~ (n < m)
  BY <1>1 DEF OpToRel
<1>3. QED
  BY <1>2

\* The greater of two numbers, as the history variable takes it.
LEMMA MaxOfTwo ==
    ASSUME NEW a \in Int, NEW b \in Int
    PROVE  Max({a, b}) = IF a >= b THEN a ELSE b
<1>1. PICK m : m = IF a >= b THEN a ELSE b
  OBVIOUS
<1>2. m \in {a, b} /\ \A y \in {a, b} : m >= y
  BY <1>1
<1>3. \A x \in {a, b} : (\A y \in {a, b} : x >= y) => x = m
  BY <1>1
<1>4. Max({a, b}) \in {a, b} /\ \A y \in {a, b} : Max({a, b}) >= y
  BY <1>2 DEF Max
<1>5. QED
  BY <1>1, <1>3, <1>4

\* There are as many inodes as the jobs can have open and two more.
LEMMA InodesAreNumbers ==
    /\ Inodes = 1..(Cardinality(Jobs) + 2) /\ IsFiniteSet(Inodes)
    /\ Cardinality(Inodes) = Cardinality(Jobs) + 2
<1>1. PICK n : n = Cardinality(Jobs) + 2
  OBVIOUS
<1>2. n \in Nat /\ n >= 2
  BY <1>1, FetchersAreFinite
<1>3. 1 \in Int /\ n \in Int /\ ~(1 > n)
  BY <1>2
<1>4. IsFiniteSet(1..n) /\ Cardinality(1..n) = IF 1 > n THEN 0 ELSE n - 1 + 1
  BY <1>3, FS_Interval
<1>5. Cardinality(1..n) = n
  BY <1>2, <1>4
<1>6. QED
  BY <1>1, <1>4, <1>5 DEF Inodes

\* A file that is created has an inode of its own: one that no name and no open file has.
LEMMA FreshInode ==
    ASSUME Typed, archive.part = 0
    PROVE  Min(Inodes \ InUse) \in Inodes \ InUse
<1> DEFINE opened == {job[j].inode : j \in Jobs}
           f == [j \in Jobs |-> job[j].inode]
<1>1. PICK n : n = Cardinality(Jobs)
  OBVIOUS
<1>2. n \in Nat /\ IsFiniteSet(Jobs)
  BY <1>1, FetchersAreFinite
<1>3. f \in Surjection(Jobs, opened)
  <2>1. f \in [Jobs -> opened]
    OBVIOUS
  <2>2. \A t \in opened : \E s \in Jobs : f[s] = t
    OBVIOUS
  <2>3. QED
    BY <2>1, <2>2 DEF Surjection
<1>4. IsFiniteSet(opened) /\ Cardinality(opened) <= n
  BY <1>1, <1>2, <1>3, FS_Surjection
<1>5. PICK o : o = Cardinality(opened)
  OBVIOUS
<1>6. o \in Nat /\ o <= n
  BY <1>4, <1>5, FS_CardinalityType
<1> DEFINE used == opened \cup {archive.dest}
<1>7. IsFiniteSet(used) /\ Cardinality(used) \in {o, o + 1}
  BY <1>4, <1>5, FS_AddElement
<1>8. ~(Inodes \subseteq used)
  <2> SUFFICES ASSUME Inodes \subseteq used PROVE FALSE
    OBVIOUS
  <2>1. Cardinality(Inodes) <= Cardinality(used)
    BY <1>7, FS_Subset
  <2>2. Cardinality(Inodes) = n + 2
    BY <1>1, InodesAreNumbers
  <2>3. QED
    BY <1>2, <1>6, <1>7, <2>1, <2>2
<1>9. Inodes \subseteq Nat /\ 0 \notin Inodes
  BY <1>1, <1>2, InodesAreNumbers
<1>10. InUse = used \cup {0}
  BY DEF InUse
<1>11. Inodes \ InUse # {} /\ Inodes \ InUse \subseteq Nat
  BY <1>8, <1>9, <1>10
<1>12. \E m \in Inodes \ InUse : \A i \in Inodes \ InUse : m <= i
  BY <1>11, LeastNat
<1>13. QED
  BY <1>12 DEF Min
-----------------------------------------------------------------------------
\* What a step of a fetch may use of the others.
LEMMA OthersAreIdle ==
    ASSUME RInv, NEW j \in Jobs, Fetching(j)
    PROVE  together <= 1 => \A k \in Jobs : k # j => job[k].at \in Ended \cup Preparing
BY Alone DEF RInv, Fetching

\* Where a job goes once it has its archive.
LEMMA AfterFetchFacts ==
    ASSUME NEW j \in Jobs
    PROVE  /\ job[j].kind = "HAND" => AfterFetch(j) = "UNPACK"
           /\ job[j].kind # "HAND" => AfterFetch(j) = "PREPARE"
           /\ AfterFetch(j) \in {"UNPACK", "PREPARE"} /\ AfterFetch(j) \in Phases
BY DEF AfterFetch, Phases, Unpacking, Preparing

\* A fetch that finds an archive in place verifies it.
LEMMA FindsFileKeeps == ASSUME RInv, NEW j \in Jobs, FindsFile(j) PROVE RInv'
<1>1. /\ Typed /\ PathsAreTaken /\ FilesAreDistinct /\ FetchesAreCounted /\ OneFetch
      /\ TwoFetches /\ RootsAreKept /\ RefusalsAreExplained
  BY DEF RInv
<1>2. /\ job[j].at = "FETCH" /\ archive.dest # 0
      /\ IF InPlace = "PINNED" THEN Goes(j, AfterFetch(j)) ELSE Fails(j, "MISMATCH")
      /\ archive' = archive /\ content' = content /\ unpacked' = unpacked /\ repo' = repo
      /\ root' = root /\ together' = together
  BY DEF FindsFile
<1>3. /\ job' \in [Jobs -> Job] /\ \A k \in Jobs : k # j => job'[k] = job[k]
      /\ job'[j].kind = job[j].kind /\ job'[j].tries = job[j].tries
      /\ \/ InPlace = "PINNED" /\ job'[j].at = AfterFetch(j) /\ job'[j].why = job[j].why
         \/ InPlace # "PINNED" /\ job'[j].at = "FAILED" /\ job'[j].why = "MISMATCH"
  <2>1. CASE InPlace = "PINNED"
    BY <1>1, <1>2, <2>1, JobGoes, AfterFetchFacts
  <2>2. CASE InPlace # "PINNED"
    <3>1. "MISMATCH" \in Reasons
      BY DEF Reasons
    <3>2. QED
      BY <1>1, <1>2, <2>2, <3>1, JobFails
  <2>3. QED
    BY <2>1, <2>2
<1>4. /\ job[j].kind = "HAND" => AfterFetch(j) = "UNPACK"
      /\ job[j].kind # "HAND" => AfterFetch(j) = "PREPARE"
  BY AfterFetchFacts
<1>5. Typed'
  BY <1>1, <1>2, <1>3, <1>4 DEF Typed
<1>6. Fetching(j) /\ FetchesAreCounted'
  BY <1>1, <1>2, <1>3, FetchersShrink DEF Fetching, Ended, Preparing
<1>7. together <= 1 => \A k \in Jobs : k # j => job[k].at \in Ended \cup Preparing
  BY <1>6, OthersAreIdle
<1>8. PathsAreTaken'
  BY <1>1, <1>2, <1>3, <1>4 DEF PathsAreTaken, Unpacking, Preparing
<1>9. FilesAreDistinct'
  BY <1>1, <1>2, <1>3, <1>4 DEF FilesAreDistinct
<1>10. OneFetch'
  BY <1>1, <1>2, <1>3, <1>4 DEF OneFetch, InPlace
<1>11. TwoFetches'
  BY <1>1, <1>2, <1>3, <1>4 DEF TwoFetches, InPlace, Downloading
<1>12. RootsAreKept'
  BY <1>1, <1>2, <1>3, <1>4 DEF RootsAreKept, Downloading, Unpacking
<1>13. RefusalsAreExplained'
  BY <1>1, <1>2, <1>3, <1>4 DEF RefusalsAreExplained, OneFetch, Typed
<1>14. QED
  BY <1>5, <1>6, <1>8, <1>9, <1>10, <1>11, <1>12, <1>13 DEF RInv

\* A fetch that finds none begins a download, or has no leave or room for one.
LEMMA FindsNoneKeeps == ASSUME RInv, NEW j \in Jobs, FindsNone(j) PROVE RInv'
<1>1. /\ Typed /\ PathsAreTaken /\ FilesAreDistinct /\ FetchesAreCounted /\ OneFetch
      /\ TwoFetches /\ RootsAreKept /\ RefusalsAreExplained
  BY DEF RInv
<1>2. /\ job[j].at = "FETCH" /\ archive.dest = 0
      /\ IF job[j].kind = "FORTBO" THEN Fails(j, "MISSING")
         ELSE Goes(j, "UNLINK") \/ Fails(j, "SPACE")
      /\ archive' = archive /\ content' = content /\ unpacked' = unpacked /\ repo' = repo
      /\ root' = root /\ together' = together
  BY DEF FindsNone
<1>3. /\ job' \in [Jobs -> Job] /\ \A k \in Jobs : k # j => job'[k] = job[k]
      /\ job'[j].kind = job[j].kind /\ job'[j].tries = job[j].tries
      /\ \/ job'[j].at = "UNLINK" /\ job'[j].why = job[j].why
         \/ job'[j].at = "FAILED" /\ job'[j].why \in {"MISSING", "SPACE"}
  <2>1. "UNLINK" \in Phases /\ "MISSING" \in Reasons /\ "SPACE" \in Reasons
    BY DEF Phases, Downloading, Reasons
  <2>2. CASE Goes(j, "UNLINK")
    BY <1>1, <2>1, <2>2, JobGoes
  <2>3. CASE Fails(j, "MISSING")
    BY <1>1, <2>1, <2>3, JobFails
  <2>4. CASE Fails(j, "SPACE")
    BY <1>1, <2>1, <2>4, JobFails
  <2>5. QED
    BY <1>2, <2>2, <2>3, <2>4
<1>4. Typed'
  BY <1>1, <1>2, <1>3 DEF Typed
<1>5. Fetching(j) /\ FetchesAreCounted'
  BY <1>1, <1>2, <1>3, FetchersShrink DEF Fetching, Ended, Preparing
<1>6. together <= 1 => \A k \in Jobs : k # j => job[k].at \in Ended \cup Preparing
  BY <1>5, OthersAreIdle
<1>7. PathsAreTaken'
  BY <1>1, <1>2, <1>3 DEF PathsAreTaken, Unpacking, Preparing
<1>8. FilesAreDistinct'
  BY <1>1, <1>2, <1>3 DEF FilesAreDistinct
<1>9. OneFetch'
  BY <1>1, <1>2, <1>3 DEF OneFetch, InPlace
<1>10. TwoFetches'
  BY <1>1, <1>2, <1>3 DEF TwoFetches, InPlace, Downloading
<1>11. RootsAreKept'
  BY <1>1, <1>2, <1>3 DEF RootsAreKept, Downloading, Unpacking
<1>12. RefusalsAreExplained'
  BY <1>1, <1>2, <1>3 DEF RefusalsAreExplained, OneFetch, Typed
<1>13. QED
  BY <1>4, <1>5, <1>7, <1>8, <1>9, <1>10, <1>11, <1>12 DEF RInv

\* An unpacked archive with a marker is left alone.
LEMMA FindsMarkerKeeps == ASSUME RInv, NEW j \in Jobs, FindsMarker(j) PROVE RInv'
<1>1. /\ Typed /\ PathsAreTaken /\ FilesAreDistinct /\ FetchesAreCounted /\ OneFetch
      /\ TwoFetches /\ RootsAreKept /\ RefusalsAreExplained
  BY DEF RInv
<1>2. /\ job[j].at = "UNPACK"
      /\ Goes(j, IF unpacked.marker THEN "GIT" ELSE "UNTAR")
      /\ archive' = archive /\ content' = content /\ unpacked' = unpacked /\ repo' = repo
      /\ root' = root /\ together' = together
  BY DEF FindsMarker
<1>3. /\ job' \in [Jobs -> Job] /\ \A k \in Jobs : k # j => job'[k] = job[k]
      /\ job'[j].kind = job[j].kind /\ job'[j].tries = job[j].tries
      /\ job'[j].why = job[j].why
      /\ \/ unpacked.marker /\ job'[j].at = "GIT"
         \/ ~unpacked.marker /\ job'[j].at = "UNTAR"
  <2>1. CASE unpacked.marker
    <3>1. "GIT" \in Phases
      BY DEF Phases, Ended, Preparing, Downloading, Unpacking
    <3>2. QED
      BY <1>1, <1>2, <2>1, <3>1, JobGoes
  <2>2. CASE ~unpacked.marker
    <3>1. "UNTAR" \in Phases
      BY DEF Phases, Ended, Preparing, Downloading, Unpacking
    <3>2. QED
      BY <1>1, <1>2, <2>2, <3>1, JobGoes
  <2>3. QED
    BY <1>2, <2>1, <2>2
<1>4. Typed'
  BY <1>1, <1>2, <1>3 DEF Typed
<1>5. Fetching(j) /\ FetchesAreCounted'
  BY <1>1, <1>2, <1>3, FetchersShrink DEF Fetching, Ended, Preparing
<1>6. together <= 1 => \A k \in Jobs : k # j => job[k].at \in Ended \cup Preparing
  BY <1>5, OthersAreIdle
<1>7. PathsAreTaken'
  BY <1>1, <1>2, <1>3 DEF PathsAreTaken, Unpacking, Preparing
<1>8. FilesAreDistinct'
  BY <1>1, <1>2, <1>3 DEF FilesAreDistinct
<1>9. OneFetch'
  BY <1>1, <1>2, <1>3 DEF OneFetch, InPlace
<1>10. TwoFetches'
  BY <1>1, <1>2, <1>3 DEF TwoFetches, InPlace, Downloading
<1>11. RootsAreKept'
  BY <1>1, <1>2, <1>3 DEF RootsAreKept, Downloading, Unpacking
<1>12. RefusalsAreExplained'
  BY <1>1, <1>2, <1>3 DEF RefusalsAreExplained, OneFetch, Typed
<1>13. QED
  BY <1>4, <1>5, <1>7, <1>8, <1>9, <1>10, <1>11, <1>12 DEF RInv

\* A fetch of all artifacts ends with a checkout it can use, or fails.
LEMMA VerifiesKeeps == ASSUME RInv, NEW j \in Jobs, Verifies(j) PROVE RInv'
<1>1. /\ Typed /\ PathsAreTaken /\ FilesAreDistinct /\ FetchesAreCounted /\ OneFetch
      /\ TwoFetches /\ RootsAreKept /\ RefusalsAreExplained
  BY DEF RInv
<1>2. /\ job[j].at = "VERIFY"
      /\ IF CheckoutIsUsable THEN Goes(j, "DONE") ELSE Fails(j, "REVISION")
      /\ archive' = archive /\ content' = content /\ unpacked' = unpacked /\ repo' = repo
      /\ root' = root /\ together' = together
  BY DEF Verifies
<1>3. /\ job' \in [Jobs -> Job] /\ \A k \in Jobs : k # j => job'[k] = job[k]
      /\ job'[j].kind = job[j].kind /\ job'[j].tries = job[j].tries
      /\ \/ CheckoutIsUsable /\ job'[j].at = "DONE" /\ job'[j].why = job[j].why
         \/ ~CheckoutIsUsable /\ job'[j].at = "FAILED" /\ job'[j].why = "REVISION"
  <2>1. CASE CheckoutIsUsable
    <3>1. "DONE" \in Phases
      BY DEF Phases, Ended, Preparing, Downloading, Unpacking
    <3>2. QED
      BY <1>1, <1>2, <2>1, <3>1, JobGoes
  <2>2. CASE ~CheckoutIsUsable
    <3>1. "REVISION" \in Reasons
      BY DEF Reasons
    <3>2. QED
      BY <1>1, <1>2, <2>2, <3>1, JobFails
  <2>3. QED
    BY <1>2, <2>1, <2>2
<1>4. Typed'
  BY <1>1, <1>2, <1>3 DEF Typed
<1>5. Fetching(j) /\ FetchesAreCounted'
  BY <1>1, <1>2, <1>3, FetchersShrink DEF Fetching, Ended, Preparing
<1>6. together <= 1 => \A k \in Jobs : k # j => job[k].at \in Ended \cup Preparing
  BY <1>5, OthersAreIdle
<1>7. PathsAreTaken'
  BY <1>1, <1>2, <1>3 DEF PathsAreTaken, Unpacking, Preparing
<1>8. FilesAreDistinct'
  BY <1>1, <1>2, <1>3 DEF FilesAreDistinct
<1>9. OneFetch'
  BY <1>1, <1>2, <1>3, <1>6
  DEF OneFetch, InPlace, CheckoutIsUsable, AtPin, HasFiles, Typed, Checkout, Ended,
      Preparing
<1>10. TwoFetches'
  BY <1>1, <1>2, <1>3 DEF TwoFetches, InPlace, Downloading
<1>11. RootsAreKept'
  BY <1>1, <1>2, <1>3 DEF RootsAreKept, Downloading, Unpacking
<1>12. RefusalsAreExplained'
  BY <1>1, <1>2, <1>3
  DEF RefusalsAreExplained, OneFetch, Typed, CheckoutIsUsable, AtPin, HasFiles
<1>13. QED
  BY <1>4, <1>5, <1>7, <1>8, <1>9, <1>10, <1>11, <1>12 DEF RInv

\* A replay begins in an empty root, from an archive that was verified again.
LEMMA PreparesKeeps == ASSUME RInv, NEW j \in Jobs, Prepares(j) PROVE RInv'
<1>1. /\ Typed /\ PathsAreTaken /\ FilesAreDistinct /\ FetchesAreCounted /\ OneFetch
      /\ TwoFetches /\ RootsAreKept /\ RefusalsAreExplained
  BY DEF RInv
<1>2. /\ job[j].at = "PREPARE"
      /\ IF ~ArchiveIsPinned THEN Fails(j, "MISMATCH")
         ELSE IF RootIsEmpty(j) THEN Goes(j, "EXTRACT") ELSE Fails(j, "NOT_EMPTY")
      /\ archive' = archive /\ content' = content /\ unpacked' = unpacked /\ repo' = repo
      /\ root' = root /\ together' = together
  BY DEF Prepares
<1>3. /\ job' \in [Jobs -> Job] /\ \A k \in Jobs : k # j => job'[k] = job[k]
      /\ job'[j].kind = job[j].kind /\ job'[j].tries = job[j].tries
      /\ \/ /\ ArchiveIsPinned /\ RootIsEmpty(j)
            /\ job'[j].at = "EXTRACT" /\ job'[j].why = job[j].why
         \/ ~ArchiveIsPinned /\ job'[j].at = "FAILED" /\ job'[j].why = "MISMATCH"
         \/ ~RootIsEmpty(j) /\ job'[j].at = "FAILED" /\ job'[j].why = "NOT_EMPTY"
  <2>1. "EXTRACT" \in Phases /\ "MISMATCH" \in Reasons /\ "NOT_EMPTY" \in Reasons
    BY DEF Phases, Preparing, Reasons
  <2>2. CASE ~ArchiveIsPinned
    BY <1>1, <1>2, <2>1, <2>2, JobFails
  <2>3. CASE ArchiveIsPinned /\ RootIsEmpty(j)
    BY <1>1, <1>2, <2>1, <2>3, JobGoes
  <2>4. CASE ArchiveIsPinned /\ ~RootIsEmpty(j)
    BY <1>1, <1>2, <2>1, <2>4, JobFails
  <2>5. QED
    BY <2>2, <2>3, <2>4
<1>4. ~RootIsEmpty(j) => job[j].tries > 1 \/ root[j].holds = {"CACHE"}
  <2>1. job[j].tries <= 1 => "TREE" \notin root[j].holds
    BY <1>1, <1>2 DEF RootsAreKept
  <2>2. root[j].holds \subseteq {"CACHE", "TREE"} /\ job[j].tries \in Nat
    BY <1>1 DEF Typed, RunRoot, Job
  <2>3. QED
    BY <2>1, <2>2 DEF RootIsEmpty
<1>5. ~ArchiveIsPinned => together > 1
  BY <1>1, <1>2 DEF ArchiveIsPinned, OneFetch, PathsAreTaken, Preparing, Typed
<1>6. Typed'
  BY <1>1, <1>2, <1>3, <1>4, <1>5 DEF Typed
<1>7. FetchesAreCounted'
  BY <1>1, <1>2, <1>3, FetchersShrink DEF Fetching, Ended, Preparing
<1>8. PathsAreTaken'
  BY <1>1, <1>2, <1>3, <1>4, <1>5 DEF PathsAreTaken, Unpacking, Preparing
<1>9. FilesAreDistinct'
  BY <1>1, <1>2, <1>3, <1>4, <1>5 DEF FilesAreDistinct
<1>10. OneFetch'
  BY <1>1, <1>2, <1>3, <1>4, <1>5 DEF OneFetch, InPlace
<1>11. TwoFetches'
  BY <1>1, <1>2, <1>3, <1>4, <1>5 DEF TwoFetches, InPlace, Downloading, ArchiveIsPinned
<1>12. RootsAreKept'
  BY <1>1, <1>2, <1>3, <1>4, <1>5 DEF RootsAreKept, Downloading, Unpacking, RootIsEmpty
<1>13. RefusalsAreExplained'
  BY <1>1, <1>2, <1>3, <1>4, <1>5 DEF RefusalsAreExplained, OneFetch, Typed
<1>14. QED
  BY <1>6, <1>7, <1>8, <1>9, <1>10, <1>11, <1>12, <1>13 DEF RInv
-----------------------------------------------------------------------------
\* A name that is taken names an inode.
LEMMA NamedInodes ==
    ASSUME Typed
    PROVE  /\ archive.dest # 0 => archive.dest \in Inodes
           /\ archive.part # 0 => archive.part \in Inodes
           /\ \A i \in Inodes : i \in 0..Cardinality(Inodes) /\ i # 0
<1>1. PICK n : n = Cardinality(Jobs) + 2
  OBVIOUS
<1>2. n \in Nat /\ Inodes = 1..n /\ Cardinality(Inodes) = n
  BY <1>1, InodesAreNumbers, FetchersAreFinite
<1>3. archive.dest \in 0..n /\ archive.part \in 0..n
  BY <1>2 DEF Typed
<1>4. QED
  BY <1>2, <1>3

\* A .part that is removed is the only thing that changes.
LEMMA PartRemoved ==
    ASSUME Typed, archive' = [archive EXCEPT !.part = 0]
    PROVE  /\ archive'.dest = archive.dest /\ archive'.part = 0
           /\ archive' \in [dest : 0..Cardinality(Inodes), part : 0..Cardinality(Inodes)]
<1>1. 0 \in 0..Cardinality(Inodes)
  BY InodesAreNumbers, FetchersAreFinite
<1>2. QED
  BY <1>1 DEF Typed

\* A leftover .part is removed.
LEMMA UnlinksKeeps == ASSUME RInv, NEW j \in Jobs, Unlinks(j) PROVE RInv'
<1>1. /\ Typed /\ PathsAreTaken /\ FilesAreDistinct /\ FetchesAreCounted /\ OneFetch
      /\ TwoFetches /\ RootsAreKept /\ RefusalsAreExplained
  BY DEF RInv
<1>2. /\ job[j].at = "UNLINK" /\ Goes(j, "OPEN")
      /\ archive' = [archive EXCEPT !.part = 0]
      /\ content' = content /\ unpacked' = unpacked /\ repo' = repo /\ root' = root
      /\ together' = together
  BY DEF Unlinks
<1>3. /\ job' \in [Jobs -> Job] /\ \A k \in Jobs : k # j => job'[k] = job[k]
      /\ job'[j].kind = job[j].kind /\ job'[j].tries = job[j].tries
      /\ job'[j].at = "OPEN" /\ job'[j].why = job[j].why
  <2>1. "OPEN" \in Phases
    BY DEF Phases, Ended, Preparing, Downloading, Unpacking
  <2>2. QED
    BY <1>1, <1>2, <2>1, JobGoes
<1>4. /\ archive'.dest = archive.dest /\ archive'.part = 0
      /\ archive' \in [dest : 0..Cardinality(Inodes), part : 0..Cardinality(Inodes)]
  BY <1>1, <1>2, PartRemoved
<1>5. Typed'
  BY <1>1, <1>2, <1>3, <1>4 DEF Typed
<1>6. Fetching(j) /\ FetchesAreCounted'
  BY <1>1, <1>2, <1>3, FetchersShrink DEF Fetching, Ended, Preparing
<1>7. together <= 1 => \A k \in Jobs : k # j => job[k].at \in Ended \cup Preparing
  BY <1>6, OthersAreIdle
<1>8. PathsAreTaken'
  BY <1>1, <1>2, <1>3, <1>4 DEF PathsAreTaken, Unpacking, Preparing
<1>9. FilesAreDistinct'
  BY <1>1, <1>2, <1>3, <1>4 DEF FilesAreDistinct
<1>10. OneFetch'
  BY <1>1, <1>2, <1>3, <1>4, <1>7 DEF OneFetch, InPlace, Ended, Preparing
<1>11. TwoFetches'
  BY <1>1, <1>2, <1>3, <1>4 DEF TwoFetches, InPlace, Downloading
<1>12. RootsAreKept'
  BY <1>1, <1>2, <1>3, <1>4 DEF RootsAreKept, Downloading, Unpacking
<1>13. RefusalsAreExplained'
  BY <1>1, <1>2, <1>3, <1>4 DEF RefusalsAreExplained, OneFetch, Typed
<1>14. QED
  BY <1>5, <1>6, <1>8, <1>9, <1>10, <1>11, <1>12, <1>13 DEF RInv

\* The .part that is created is a new file, and the one cut is never the one in place.
LEMMA OpensKeeps == ASSUME RInv, NEW j \in Jobs, Opens(j) PROVE RInv'
<1>1. /\ Typed /\ PathsAreTaken /\ FilesAreDistinct /\ FetchesAreCounted /\ OneFetch
      /\ TwoFetches /\ RootsAreKept /\ RefusalsAreExplained
  BY DEF RInv
<1>2. /\ job[j].at = "OPEN"
      /\ archive' = [archive EXCEPT !.part = IF archive.part # 0 THEN archive.part
                                             ELSE Min(Inodes \ InUse)]
      /\ content' = [content EXCEPT ![IF archive.part # 0 THEN archive.part
                                   ELSE Min(Inodes \ InUse)] = "SHORT"]
      /\ job' = [job EXCEPT ![j].at = "COPY",
                            ![j].inode = IF archive.part # 0 THEN archive.part
                                         ELSE Min(Inodes \ InUse)]
      /\ unpacked' = unpacked /\ repo' = repo /\ root' = root /\ together' = together
  BY DEF Opens
<1>3. /\ job' \in [Jobs -> Job] /\ \A k \in Jobs : k # j => job'[k] = job[k]
      /\ job'[j].kind = job[j].kind /\ job'[j].tries = job[j].tries
      /\ job'[j].at = "COPY" /\ job'[j].why = job[j].why
      /\ job'[j].inode # 0 /\ archive'.dest = archive.dest /\ archive'.part # archive.dest
      /\ archive' \in [dest : 0..Cardinality(Inodes), part : 0..Cardinality(Inodes)]
      /\ content' \in [Inodes -> {"SHORT", "PINNED"}]
      /\ archive.dest # 0 => InPlace' = InPlace
  <2>1. PICK i : i = IF archive.part # 0 THEN archive.part ELSE Min(Inodes \ InUse)
    OBVIOUS
  <2>2. i \in Inodes /\ i # archive.dest
    <3>1. CASE archive.part # 0
      BY <1>1, <2>1, <3>1, NamedInodes DEF FilesAreDistinct
    <3>2. CASE archive.part = 0
      <4>1. i \in Inodes \ InUse
        BY <1>1, <2>1, <3>2, FreshInode
      <4>2. QED
        BY <4>1 DEF InUse
    <3>3. QED
      BY <3>1, <3>2
  <2>3. i \in 0..Cardinality(Inodes) /\ i # 0
    BY <1>1, <2>2, NamedInodes
  <2>4. /\ archive' = [archive EXCEPT !.part = i]
        /\ content' = [content EXCEPT ![i] = "SHORT"]
        /\ job' = [job EXCEPT ![j].at = "COPY", ![j].inode = i]
    BY <1>2, <2>1
  <2>5. PICK n : n = [job[j] EXCEPT !.at = "COPY", !.inode = i]
    OBVIOUS
  <2>6. job \in [Jobs -> Job] /\ job[j] \in Job
    BY <1>1 DEF Typed
  <2>7. /\ n \in Job /\ n.at = "COPY" /\ n.kind = job[j].kind /\ n.inode = i
        /\ n.tries = job[j].tries /\ n.why = job[j].why
    BY <2>3, <2>5, <2>6 DEF Job, Phases, Downloading
  <2>8. job' = [job EXCEPT ![j] = n]
    BY <2>4, <2>5
  <2>9. /\ job' \in [Jobs -> Job] /\ \A k \in Jobs : k # j => job'[k] = job[k]
        /\ job'[j] = n
    BY <2>6, <2>7, <2>8
  <2>10. /\ archive'.dest = archive.dest /\ archive'.part = i
         /\ archive' \in [dest : 0..Cardinality(Inodes), part : 0..Cardinality(Inodes)]
    BY <1>1, <2>3, <2>4 DEF Typed
  <2>11. /\ content' \in [Inodes -> {"SHORT", "PINNED"}]
         /\ \A o \in Inodes : o # i => content'[o] = content[o]
    BY <1>1, <2>2, <2>4 DEF Typed
  <2>12. archive.dest # 0 => InPlace' = InPlace
    BY <1>1, <2>2, <2>10, <2>11, NamedInodes DEF InPlace
  <2>13. QED
    BY <2>2, <2>3, <2>7, <2>9, <2>10, <2>11, <2>12
<1>4. job[j].tries # 0
  BY <1>1, <1>2 DEF PathsAreTaken
<1>5. Typed'
  BY <1>1, <1>2, <1>3, <1>4 DEF Typed
<1>6. Fetching(j) /\ FetchesAreCounted'
  BY <1>1, <1>2, <1>3, FetchersShrink DEF Fetching, Ended, Preparing
<1>7. together <= 1 => \A k \in Jobs : k # j => job[k].at \in Ended \cup Preparing
  BY <1>6, OthersAreIdle
<1>8. PathsAreTaken'
  BY <1>1, <1>3, <1>4 DEF PathsAreTaken, Unpacking, Preparing
<1>9. FilesAreDistinct'
  BY <1>1, <1>2, <1>3, <1>4 DEF FilesAreDistinct
<1>10. OneFetch'
  BY <1>1, <1>2, <1>3, <1>4, <1>7 DEF OneFetch, Ended, Preparing
<1>11. TwoFetches'
  BY <1>1, <1>2, <1>3, <1>4 DEF TwoFetches, Downloading, PathsAreTaken, Preparing
<1>12. RootsAreKept'
  BY <1>1, <1>2, <1>3, <1>4 DEF RootsAreKept, Downloading, Unpacking
<1>13. RefusalsAreExplained'
  BY <1>1, <1>2, <1>3, <1>4 DEF RefusalsAreExplained, OneFetch, Typed
<1>14. QED
  BY <1>5, <1>6, <1>8, <1>9, <1>10, <1>11, <1>12, <1>13 DEF RInv

\* A copy that is done or cut short.
LEMMA CopiesKeeps == ASSUME RInv, NEW j \in Jobs, Copies(j) PROVE RInv'
<1>1. /\ Typed /\ PathsAreTaken /\ FilesAreDistinct /\ FetchesAreCounted /\ OneFetch
      /\ TwoFetches /\ RootsAreKept /\ RefusalsAreExplained
  BY DEF RInv
<1>2. /\ job[j].at = "COPY"
      /\ content' \in {content, [content EXCEPT ![job[j].inode] = "PINNED"]}
      /\ job' = [job EXCEPT ![j].at = "DIGEST", ![j].inode = 0]
      /\ archive' = archive /\ unpacked' = unpacked /\ repo' = repo /\ root' = root
      /\ together' = together
  BY DEF Copies
<1>3. /\ job' \in [Jobs -> Job] /\ \A k \in Jobs : k # j => job'[k] = job[k]
      /\ job'[j].kind = job[j].kind /\ job'[j].tries = job[j].tries
      /\ job'[j].at = "DIGEST" /\ job'[j].why = job[j].why
      /\ content' \in [Inodes -> {"SHORT", "PINNED"}]
      /\ \A i \in Inodes : content[i] = "PINNED" => content'[i] = "PINNED"
  <2>1. PICK n : n = [job[j] EXCEPT !.at = "DIGEST", !.inode = 0]
    OBVIOUS
  <2>2. /\ job \in [Jobs -> Job] /\ job[j] \in Job
        /\ content \in [Inodes -> {"SHORT", "PINNED"}]
    BY <1>1 DEF Typed
  <2>3. 0 \in 0..Cardinality(Inodes)
    BY InodesAreNumbers, FetchersAreFinite
  <2>4. /\ n \in Job /\ n.at = "DIGEST" /\ n.kind = job[j].kind
        /\ n.tries = job[j].tries /\ n.why = job[j].why
    BY <2>1, <2>2, <2>3 DEF Job, Phases, Downloading
  <2>5. job' = [job EXCEPT ![j] = n]
    BY <1>2, <2>1
  <2>6. /\ job' \in [Jobs -> Job] /\ \A k \in Jobs : k # j => job'[k] = job[k]
        /\ job'[j] = n
    BY <2>2, <2>4, <2>5
  <2>7. PICK o : o = job[j].inode
    OBVIOUS
  <2>8. content' = content \/ content' = [content EXCEPT ![o] = "PINNED"]
    BY <1>2, <2>7
  <2>9. /\ content' \in [Inodes -> {"SHORT", "PINNED"}]
        /\ \A i \in Inodes : content[i] = "PINNED" => content'[i] = "PINNED"
    BY <2>2, <2>8
  <2>10. QED
    BY <2>4, <2>6, <2>9
<1>4. archive.dest # 0 /\ InPlace = "PINNED" => InPlace' = "PINNED"
  BY <1>1, <1>2, <1>3, NamedInodes DEF InPlace
<1>5. /\ archive.part # 0 /\ content[archive.part] = "PINNED" =>
            content'[archive'.part] = "PINNED"
      /\ archive'.dest = archive.dest /\ archive'.part = archive.part
  BY <1>1, <1>2, <1>3, NamedInodes
<1>6. Typed'
  BY <1>1, <1>2, <1>3, <1>4, <1>5 DEF Typed
<1>7. Fetching(j) /\ FetchesAreCounted'
  BY <1>1, <1>2, <1>3, FetchersShrink DEF Fetching, Ended, Preparing
<1>8. together <= 1 => \A k \in Jobs : k # j => job[k].at \in Ended \cup Preparing
  BY <1>7, OthersAreIdle
<1>9. PathsAreTaken'
  BY <1>1, <1>2, <1>3, <1>4, <1>5 DEF PathsAreTaken, Unpacking, Preparing
<1>10. FilesAreDistinct'
  BY <1>1, <1>2, <1>3, <1>4, <1>5 DEF FilesAreDistinct
<1>11. OneFetch'
  BY <1>1, <1>2, <1>3, <1>4, <1>5, <1>8 DEF OneFetch, Ended, Preparing
<1>12. TwoFetches'
  BY <1>1, <1>2, <1>3, <1>4, <1>5 DEF TwoFetches, Downloading, PathsAreTaken, Preparing
<1>13. RootsAreKept'
  BY <1>1, <1>2, <1>3, <1>4, <1>5 DEF RootsAreKept, Downloading, Unpacking
<1>14. RefusalsAreExplained'
  BY <1>1, <1>2, <1>3, <1>4, <1>5 DEF RefusalsAreExplained, OneFetch, Typed
<1>15. QED
  BY <1>6, <1>7, <1>9, <1>10, <1>11, <1>12, <1>13, <1>14 DEF RInv

\* A download that fails removes whatever .part is then.
LEMMA CopyFailsKeeps == ASSUME RInv, NEW j \in Jobs, CopyFails(j) PROVE RInv'
<1>1. /\ Typed /\ PathsAreTaken /\ FilesAreDistinct /\ FetchesAreCounted /\ OneFetch
      /\ TwoFetches /\ RootsAreKept /\ RefusalsAreExplained
  BY DEF RInv
<1>2. /\ job[j].at \in {"OPEN", "COPY"}
      /\ archive' = [archive EXCEPT !.part = 0]
      /\ job' = [job EXCEPT ![j].at = "FAILED", ![j].inode = 0, ![j].why = "DOWNLOAD"]
      /\ content' = content /\ unpacked' = unpacked /\ repo' = repo /\ root' = root
      /\ together' = together
  BY DEF CopyFails
<1>3. /\ job' \in [Jobs -> Job] /\ \A k \in Jobs : k # j => job'[k] = job[k]
      /\ job'[j].kind = job[j].kind /\ job'[j].tries = job[j].tries
      /\ job'[j].at = "FAILED" /\ job'[j].why = "DOWNLOAD"
  <2>1. PICK n : n = [job[j] EXCEPT !.at = "FAILED", !.inode = 0, !.why = "DOWNLOAD"]
    OBVIOUS
  <2>2. job \in [Jobs -> Job] /\ job[j] \in Job
    BY <1>1 DEF Typed
  <2>3. 0 \in 0..Cardinality(Inodes)
    BY InodesAreNumbers, FetchersAreFinite
  <2>4. /\ n \in Job /\ n.at = "FAILED" /\ n.kind = job[j].kind
        /\ n.tries = job[j].tries /\ n.why = "DOWNLOAD"
    BY <2>1, <2>2, <2>3 DEF Job, Phases, Ended, Reasons
  <2>5. job' = [job EXCEPT ![j] = n]
    BY <1>2, <2>1
  <2>6. QED
    BY <2>2, <2>4, <2>5
<1>4. /\ archive'.dest = archive.dest /\ archive'.part = 0
      /\ archive' \in [dest : 0..Cardinality(Inodes), part : 0..Cardinality(Inodes)]
  BY <1>1, <1>2, PartRemoved
<1>5. Typed'
  BY <1>1, <1>2, <1>3, <1>4 DEF Typed
<1>6. Fetching(j) /\ FetchesAreCounted'
  BY <1>1, <1>2, <1>3, FetchersShrink DEF Fetching, Ended, Preparing
<1>7. together <= 1 => \A k \in Jobs : k # j => job[k].at \in Ended \cup Preparing
  BY <1>6, OthersAreIdle
<1>8. PathsAreTaken'
  BY <1>1, <1>2, <1>3, <1>4 DEF PathsAreTaken, Unpacking, Preparing
<1>9. FilesAreDistinct'
  BY <1>1, <1>2, <1>3, <1>4 DEF FilesAreDistinct
<1>10. OneFetch'
  BY <1>1, <1>2, <1>3, <1>4, <1>7 DEF OneFetch, InPlace, Ended, Preparing
<1>11. TwoFetches'
  BY <1>1, <1>2, <1>3, <1>4 DEF TwoFetches, InPlace, Downloading
<1>12. RootsAreKept'
  BY <1>1, <1>2, <1>3, <1>4 DEF RootsAreKept, Downloading, Unpacking
<1>13. RefusalsAreExplained'
  BY <1>1, <1>2, <1>3, <1>4 DEF RefusalsAreExplained, OneFetch, Typed
<1>14. QED
  BY <1>5, <1>6, <1>8, <1>9, <1>10, <1>11, <1>12, <1>13 DEF RInv

\* A download is put in place only if the digest of what .part is now is right.
LEMMA DigestsKeeps == ASSUME RInv, NEW j \in Jobs, Digests(j) PROVE RInv'
<1>1. /\ Typed /\ PathsAreTaken /\ FilesAreDistinct /\ FetchesAreCounted /\ OneFetch
      /\ TwoFetches /\ RootsAreKept /\ RefusalsAreExplained
  BY DEF RInv
<1>2. /\ job[j].at = "DIGEST"
      /\ IF archive.part # 0 /\ content[archive.part] = "PINNED"
         THEN Goes(j, "REPLACE") /\ archive' = archive
         ELSE Fails(j, "DOWNLOAD") /\ archive' = [archive EXCEPT !.part = 0]
      /\ content' = content /\ unpacked' = unpacked /\ repo' = repo /\ root' = root
      /\ together' = together
  BY DEF Digests, DigestMatches
<1>3. /\ job' \in [Jobs -> Job] /\ \A k \in Jobs : k # j => job'[k] = job[k]
      /\ job'[j].kind = job[j].kind /\ job'[j].tries = job[j].tries
      /\ \/ /\ archive.part # 0 /\ content[archive.part] = "PINNED" /\ archive' = archive
            /\ job'[j].at = "REPLACE" /\ job'[j].why = job[j].why
         \/ /\ archive'.part = 0
            /\ job'[j].at = "FAILED" /\ job'[j].why = "DOWNLOAD"
      /\ archive'.dest = archive.dest
      /\ archive' \in [dest : 0..Cardinality(Inodes), part : 0..Cardinality(Inodes)]
  <2>1. "REPLACE" \in Phases /\ "DOWNLOAD" \in Reasons
    BY DEF Phases, Downloading, Reasons
  <2>2. CASE archive.part # 0 /\ content[archive.part] = "PINNED"
    BY <1>1, <1>2, <2>1, <2>2, JobGoes DEF Typed
  <2>3. CASE ~(archive.part # 0 /\ content[archive.part] = "PINNED")
    BY <1>1, <1>2, <2>1, <2>3, JobFails, PartRemoved
  <2>4. QED
    BY <2>2, <2>3
<1>4. Typed'
  BY <1>1, <1>2, <1>3 DEF Typed
<1>5. Fetching(j) /\ FetchesAreCounted'
  BY <1>1, <1>2, <1>3, FetchersShrink DEF Fetching, Ended, Preparing
<1>6. together <= 1 => \A k \in Jobs : k # j => job[k].at \in Ended \cup Preparing
  BY <1>5, OthersAreIdle
<1>7. PathsAreTaken'
  BY <1>1, <1>2, <1>3 DEF PathsAreTaken, Unpacking, Preparing
<1>8. FilesAreDistinct'
  BY <1>1, <1>2, <1>3 DEF FilesAreDistinct
<1>9. OneFetch'
  BY <1>1, <1>2, <1>3, <1>6 DEF OneFetch, InPlace, Ended, Preparing
<1>10. TwoFetches'
  BY <1>1, <1>2, <1>3 DEF TwoFetches, InPlace, Downloading
<1>11. RootsAreKept'
  BY <1>1, <1>2, <1>3 DEF RootsAreKept, Downloading, Unpacking
<1>12. RefusalsAreExplained'
  BY <1>1, <1>2, <1>3 DEF RefusalsAreExplained, OneFetch, Typed
<1>13. QED
  BY <1>4, <1>5, <1>7, <1>8, <1>9, <1>10, <1>11, <1>12 DEF RInv

\* The rename puts what .part is now in the place of the archive.
LEMMA ReplacesKeeps == ASSUME RInv, NEW j \in Jobs, Replaces(j) PROVE RInv'
<1>1. /\ Typed /\ PathsAreTaken /\ FilesAreDistinct /\ FetchesAreCounted /\ OneFetch
      /\ TwoFetches /\ RootsAreKept /\ RefusalsAreExplained
  BY DEF RInv
<1>2. /\ job[j].at = "REPLACE"
      /\ IF archive.part = 0 THEN Fails(j, "DOWNLOAD") /\ archive' = archive
         ELSE Goes(j, AfterFetch(j)) /\ archive' = [dest |-> archive.part, part |-> 0]
      /\ content' = content /\ unpacked' = unpacked /\ repo' = repo /\ root' = root
      /\ together' = together
  BY DEF Replaces
<1>3. /\ job' \in [Jobs -> Job] /\ \A k \in Jobs : k # j => job'[k] = job[k]
      /\ job'[j].kind = job[j].kind /\ job'[j].tries = job[j].tries
      /\ \/ /\ archive.part = 0 /\ archive' = archive
            /\ job'[j].at = "FAILED" /\ job'[j].why = "DOWNLOAD"
         \/ /\ archive.part # 0 /\ archive'.dest = archive.part /\ archive'.part = 0
            /\ job'[j].at = AfterFetch(j) /\ job'[j].why = job[j].why
      /\ archive' \in [dest : 0..Cardinality(Inodes), part : 0..Cardinality(Inodes)]
  <2>1. "DOWNLOAD" \in Reasons /\ 0 \in 0..Cardinality(Inodes)
    BY InodesAreNumbers, FetchersAreFinite DEF Reasons
  <2>2. CASE archive.part = 0
    BY <1>1, <1>2, <2>1, <2>2, JobFails DEF Typed
  <2>3. CASE archive.part # 0
    <3>1. archive' = [dest |-> archive.part, part |-> 0]
      BY <1>2, <2>3
    <3>2. archive' \in [dest : 0..Cardinality(Inodes), part : 0..Cardinality(Inodes)]
      BY <1>1, <2>1, <3>1 DEF Typed
    <3>3. QED
      BY <1>1, <1>2, <2>3, <3>1, <3>2, JobGoes, AfterFetchFacts
  <2>4. QED
    BY <2>2, <2>3
<1>4. /\ job[j].kind = "HAND" => AfterFetch(j) = "UNPACK"
      /\ job[j].kind # "HAND" => AfterFetch(j) = "PREPARE"
      /\ AfterFetch(j) \in {"UNPACK", "PREPARE"}
  BY AfterFetchFacts
<1>5. together <= 2 /\ archive.dest = 0 =>
         \A k, l \in Jobs :
            k # j /\ l # j /\ job[k].at \in Downloading /\ job[l].at \in Downloading => k = l
  BY <1>1, <1>2, NoThird DEF Fetching, Ended, Preparing, Downloading
<1>6. Typed'
  BY <1>1, <1>2, <1>3, <1>4, <1>5 DEF Typed
<1>7. Fetching(j) /\ FetchesAreCounted'
  BY <1>1, <1>2, <1>3, FetchersShrink DEF Fetching, Ended, Preparing
<1>8. together <= 1 => \A k \in Jobs : k # j => job[k].at \in Ended \cup Preparing
  BY <1>7, OthersAreIdle
<1>9. PathsAreTaken'
  BY <1>1, <1>2, <1>3, <1>4, <1>5 DEF PathsAreTaken, Unpacking, Preparing
<1>10. FilesAreDistinct'
  BY <1>1, <1>2, <1>3, <1>4, <1>5 DEF FilesAreDistinct
<1>11. OneFetch'
  BY <1>1, <1>2, <1>3, <1>4, <1>5, <1>8 DEF OneFetch, InPlace, Ended, Preparing
<1>12. TwoFetches'
  <2> SUFFICES ASSUME together <= 2 PROVE TwoFetches'
    BY <1>2 DEF TwoFetches
  <2>1. CASE archive.part = 0
    BY <1>1, <1>2, <1>3, <1>4, <2>1 DEF TwoFetches, InPlace, Downloading
  <2>2. CASE archive.part # 0
    <3>1. archive'.dest = archive.part /\ archive'.part = 0 /\ content' = content
      BY <1>2, <1>3, <2>2
    <3>2. \A k \in Jobs : job'[k].at \in Downloading => k # j /\ job[k].at \in Downloading
      BY <1>3, <1>4, <2>2 DEF Downloading
    <3>3. \A k, l \in Jobs :
             job'[k].at \in Downloading /\ job'[l].at \in Downloading => k = l
      BY <1>1, <1>5, <3>2 DEF TwoFetches
    <3>4. \A k \in Jobs : job[k].at = "EXTRACT" => content[archive.part] = "PINNED"
      BY <1>1, <1>2, <2>2 DEF TwoFetches, PathsAreTaken, Preparing
    <3>5. \A k \in Jobs : job'[k].at \in {"EXTRACT", "PATCH", "RECORD", "EXECUTE"} =>
             k # j /\ job'[k] = job[k]
      BY <1>3, <1>4, <2>2
    <3>6. QED
      BY <1>1, <1>2, <3>1, <3>3, <3>4, <3>5 DEF TwoFetches, InPlace
  <2>3. QED
    BY <2>1, <2>2
<1>13. RootsAreKept'
  BY <1>1, <1>2, <1>3, <1>4, <1>5 DEF RootsAreKept, Downloading, Unpacking
<1>14. RefusalsAreExplained'
  BY <1>1, <1>2, <1>3, <1>4, <1>5 DEF RefusalsAreExplained, OneFetch, Typed
<1>15. QED
  BY <1>6, <1>7, <1>9, <1>10, <1>11, <1>12, <1>13, <1>14 DEF RInv
-----------------------------------------------------------------------------
\* The archive in place is unpacked, whole or in part.
LEMMA UntarsKeeps == ASSUME RInv, NEW j \in Jobs, Untars(j) PROVE RInv'
<1>1. /\ Typed /\ PathsAreTaken /\ FilesAreDistinct /\ FetchesAreCounted /\ OneFetch
      /\ TwoFetches /\ RootsAreKept /\ RefusalsAreExplained
  BY DEF RInv
<1>2. /\ job[j].at = "UNTAR"
      /\ \/ unpacked' = [unpacked EXCEPT !.tree = InPlace] /\ Goes(j, "MARK")
         \/ unpacked' = [unpacked EXCEPT !.tree = "SHORT"] /\ Fails(j, "UNPACK")
      /\ archive' = archive /\ content' = content /\ repo' = repo /\ root' = root
      /\ together' = together
  BY DEF Untars
<1>3. /\ job' \in [Jobs -> Job] /\ \A k \in Jobs : k # j => job'[k] = job[k]
      /\ job'[j].kind = job[j].kind /\ job'[j].tries = job[j].tries
      /\ unpacked' \in [tree : {"NONE", "SHORT", "PINNED"}, marker : BOOLEAN]
      /\ unpacked'.marker = unpacked.marker
      /\ \/ unpacked'.tree = InPlace /\ job'[j].at = "MARK" /\ job'[j].why = job[j].why
         \/ unpacked'.tree = "SHORT" /\ job'[j].at = "FAILED" /\ job'[j].why = "UNPACK"
  <2>1. "MARK" \in Phases /\ "UNPACK" \in Reasons
    BY DEF Phases, Unpacking, Reasons
  <2>2. archive.dest # 0 /\ InPlace \in {"SHORT", "PINNED"}
    <3>1. archive.dest # 0
      BY <1>1, <1>2 DEF PathsAreTaken, Unpacking
    <3>2. QED
      BY <1>1, <3>1, NamedInodes DEF Typed, InPlace
  <2>3. CASE unpacked' = [unpacked EXCEPT !.tree = InPlace] /\ Goes(j, "MARK")
    BY <1>1, <2>1, <2>2, <2>3, JobGoes DEF Typed
  <2>4. CASE unpacked' = [unpacked EXCEPT !.tree = "SHORT"] /\ Fails(j, "UNPACK")
    BY <1>1, <2>1, <2>4, JobFails DEF Typed
  <2>5. QED
    BY <1>2, <2>3, <2>4
<1>4. Typed'
  BY <1>1, <1>2, <1>3 DEF Typed
<1>5. Fetching(j) /\ FetchesAreCounted'
  BY <1>1, <1>2, <1>3, FetchersShrink DEF Fetching, Ended, Preparing
<1>6. together <= 1 => \A k \in Jobs : k # j => job[k].at \in Ended \cup Preparing
  BY <1>5, OthersAreIdle
<1>7. PathsAreTaken'
  BY <1>1, <1>2, <1>3 DEF PathsAreTaken, Unpacking, Preparing
<1>8. FilesAreDistinct'
  BY <1>1, <1>2, <1>3 DEF FilesAreDistinct
<1>9. OneFetch'
  BY <1>1, <1>2, <1>3, <1>6 DEF OneFetch, InPlace, Ended, Preparing, PathsAreTaken, Unpacking
<1>10. TwoFetches'
  BY <1>1, <1>2, <1>3 DEF TwoFetches, InPlace, Downloading
<1>11. RootsAreKept'
  BY <1>1, <1>2, <1>3 DEF RootsAreKept, Downloading, Unpacking
<1>12. RefusalsAreExplained'
  BY <1>1, <1>2, <1>3 DEF RefusalsAreExplained, OneFetch, Typed
<1>13. QED
  BY <1>4, <1>5, <1>7, <1>8, <1>9, <1>10, <1>11, <1>12 DEF RInv

\* The marker is written.
LEMMA MarksKeeps == ASSUME RInv, NEW j \in Jobs, Marks(j) PROVE RInv'
<1>1. /\ Typed /\ PathsAreTaken /\ FilesAreDistinct /\ FetchesAreCounted /\ OneFetch
      /\ TwoFetches /\ RootsAreKept /\ RefusalsAreExplained
  BY DEF RInv
<1>2. /\ job[j].at = "MARK" /\ Goes(j, "GIT")
      /\ unpacked' = [unpacked EXCEPT !.marker = TRUE]
      /\ archive' = archive /\ content' = content /\ repo' = repo /\ root' = root
      /\ together' = together
  BY DEF Marks
<1>3. /\ job' \in [Jobs -> Job] /\ \A k \in Jobs : k # j => job'[k] = job[k]
      /\ job'[j].kind = job[j].kind /\ job'[j].tries = job[j].tries
      /\ unpacked' \in [tree : {"NONE", "SHORT", "PINNED"}, marker : BOOLEAN]
      /\ unpacked'.tree = unpacked.tree
      /\ job'[j].at = "GIT" /\ job'[j].why = job[j].why
  <2>1. "GIT" \in Phases
    BY DEF Phases, Unpacking
  <2>2. unpacked' \in [tree : {"NONE", "SHORT", "PINNED"}, marker : BOOLEAN]
        /\ unpacked'.tree = unpacked.tree
    BY <1>1, <1>2 DEF Typed
  <2>3. QED
    BY <1>1, <1>2, <2>1, <2>2, JobGoes
<1>4. Typed'
  BY <1>1, <1>2, <1>3 DEF Typed
<1>5. Fetching(j) /\ FetchesAreCounted'
  BY <1>1, <1>2, <1>3, FetchersShrink DEF Fetching, Ended, Preparing
<1>6. together <= 1 => \A k \in Jobs : k # j => job[k].at \in Ended \cup Preparing
  BY <1>5, OthersAreIdle
<1>7. PathsAreTaken'
  BY <1>1, <1>2, <1>3 DEF PathsAreTaken, Unpacking, Preparing
<1>8. FilesAreDistinct'
  BY <1>1, <1>2, <1>3 DEF FilesAreDistinct
<1>9. OneFetch'
  BY <1>1, <1>2, <1>3, <1>6 DEF OneFetch, InPlace, Ended, Preparing
<1>10. TwoFetches'
  BY <1>1, <1>2, <1>3 DEF TwoFetches, InPlace, Downloading
<1>11. RootsAreKept'
  BY <1>1, <1>2, <1>3 DEF RootsAreKept, Downloading, Unpacking
<1>12. RefusalsAreExplained'
  BY <1>1, <1>2, <1>3 DEF RefusalsAreExplained, OneFetch, Typed
<1>13. QED
  BY <1>4, <1>5, <1>7, <1>8, <1>9, <1>10, <1>11, <1>12 DEF RInv

\* A checkout that is there is verified, one that is not is cloned.
LEMMA FindsRepoKeeps == ASSUME RInv, NEW j \in Jobs, FindsRepo(j) PROVE RInv'
<1>1. /\ Typed /\ PathsAreTaken /\ FilesAreDistinct /\ FetchesAreCounted /\ OneFetch
      /\ TwoFetches /\ RootsAreKept /\ RefusalsAreExplained
  BY DEF RInv
<1>2. /\ job[j].at = "GIT"
      /\ IF repo.at = "ABSENT"
         THEN Goes(j, "CLONE") /\ repo' = [repo EXCEPT !.at = "CLONING"]
         ELSE Goes(j, "VERIFY") /\ repo' = repo
      /\ archive' = archive /\ content' = content /\ unpacked' = unpacked /\ root' = root
      /\ together' = together
  BY DEF FindsRepo
<1>3. /\ job' \in [Jobs -> Job] /\ \A k \in Jobs : k # j => job'[k] = job[k]
      /\ job'[j].kind = job[j].kind /\ job'[j].tries = job[j].tries
      /\ job'[j].why = job[j].why
      /\ repo' \in Checkout
      /\ repo'.tip = repo.tip /\ repo'.paths = repo.paths
      /\ repo'.files = repo.files /\ repo'.clean = repo.clean
      /\ \/ repo.at = "ABSENT" /\ repo'.at = "CLONING" /\ job'[j].at = "CLONE"
         \/ repo.at # "ABSENT" /\ repo'.at = repo.at /\ job'[j].at = "VERIFY"
  <2>1. "CLONE" \in Phases /\ "VERIFY" \in Phases
    BY DEF Phases, Unpacking
  <2>2. CASE repo.at = "ABSENT"
    BY <1>1, <1>2, <2>1, <2>2, JobGoes DEF Typed, Checkout
  <2>3. CASE repo.at # "ABSENT"
    BY <1>1, <1>2, <2>1, <2>3, JobGoes DEF Typed, Checkout
  <2>4. QED
    BY <2>2, <2>3
<1>4. Typed'
  BY <1>1, <1>2, <1>3 DEF Typed
<1>5. Fetching(j) /\ FetchesAreCounted'
  BY <1>1, <1>2, <1>3, FetchersShrink DEF Fetching, Ended, Preparing
<1>6. together <= 1 => \A k \in Jobs : k # j => job[k].at \in Ended \cup Preparing
  BY <1>5, OthersAreIdle
<1>7. PathsAreTaken'
  BY <1>1, <1>2, <1>3 DEF PathsAreTaken, Unpacking, Preparing
<1>8. FilesAreDistinct'
  BY <1>1, <1>2, <1>3 DEF FilesAreDistinct
<1>9. OneFetch'
  BY <1>1, <1>2, <1>3, <1>6 DEF OneFetch, InPlace, Ended, Preparing
<1>10. TwoFetches'
  BY <1>1, <1>2, <1>3 DEF TwoFetches, InPlace, Downloading
<1>11. RootsAreKept'
  BY <1>1, <1>2, <1>3 DEF RootsAreKept, Downloading, Unpacking
<1>12. RefusalsAreExplained'
  BY <1>1, <1>2, <1>3 DEF RefusalsAreExplained, OneFetch, Typed, Typed
<1>13. QED
  BY <1>4, <1>5, <1>7, <1>8, <1>9, <1>10, <1>11, <1>12 DEF RInv

\* A clone is made, or fails and is removed.
LEMMA ClonesKeeps == ASSUME RInv, NEW j \in Jobs, Clones(j) PROVE RInv'
<1>1. /\ Typed /\ PathsAreTaken /\ FilesAreDistinct /\ FetchesAreCounted /\ OneFetch
      /\ TwoFetches /\ RootsAreKept /\ RefusalsAreExplained
  BY DEF RInv
<1>2. /\ job[j].at = "CLONE"
      /\ \/ Goes(j, "CHECKOUT") /\ repo' = [repo EXCEPT !.at = "CLONED"]
         \/ Fails(j, "CLONE") /\ repo' = [repo EXCEPT !.at = "ABSENT"]
      /\ archive' = archive /\ content' = content /\ unpacked' = unpacked /\ root' = root
      /\ together' = together
  BY DEF Clones
<1>3. /\ job' \in [Jobs -> Job] /\ \A k \in Jobs : k # j => job'[k] = job[k]
      /\ job'[j].kind = job[j].kind /\ job'[j].tries = job[j].tries
      /\ repo' \in Checkout
      /\ repo'.tip = repo.tip /\ repo'.paths = repo.paths
      /\ repo'.files = repo.files /\ repo'.clean = repo.clean
      /\ \/ repo'.at = "CLONED" /\ job'[j].at = "CHECKOUT" /\ job'[j].why = job[j].why
         \/ repo'.at = "ABSENT" /\ job'[j].at = "FAILED" /\ job'[j].why = "CLONE"
  <2>1. "CHECKOUT" \in Phases /\ "CLONE" \in Reasons
    BY DEF Phases, Unpacking, Reasons
  <2>2. CASE Goes(j, "CHECKOUT") /\ repo' = [repo EXCEPT !.at = "CLONED"]
    BY <1>1, <2>1, <2>2, JobGoes DEF Typed, Checkout
  <2>3. CASE Fails(j, "CLONE") /\ repo' = [repo EXCEPT !.at = "ABSENT"]
    BY <1>1, <2>1, <2>3, JobFails DEF Typed, Checkout
  <2>4. QED
    BY <1>2, <2>2, <2>3
<1>4. Typed'
  BY <1>1, <1>2, <1>3 DEF Typed
<1>5. Fetching(j) /\ FetchesAreCounted'
  BY <1>1, <1>2, <1>3, FetchersShrink DEF Fetching, Ended, Preparing
<1>6. together <= 1 => \A k \in Jobs : k # j => job[k].at \in Ended \cup Preparing
  BY <1>5, OthersAreIdle
<1>7. PathsAreTaken'
  BY <1>1, <1>2, <1>3 DEF PathsAreTaken, Unpacking, Preparing
<1>8. FilesAreDistinct'
  BY <1>1, <1>2, <1>3 DEF FilesAreDistinct
<1>9. OneFetch'
  BY <1>1, <1>2, <1>3, <1>6 DEF OneFetch, InPlace, Ended, Preparing
<1>10. TwoFetches'
  BY <1>1, <1>2, <1>3 DEF TwoFetches, InPlace, Downloading
<1>11. RootsAreKept'
  BY <1>1, <1>2, <1>3 DEF RootsAreKept, Downloading, Unpacking
<1>12. RefusalsAreExplained'
  BY <1>1, <1>2, <1>3 DEF RefusalsAreExplained, OneFetch, Typed
<1>13. QED
  BY <1>4, <1>5, <1>7, <1>8, <1>9, <1>10, <1>11, <1>12 DEF RInv

\* The files of a checkout are written while HEAD is still at the tip.
LEMMA WritesFilesKeeps == ASSUME RInv, NEW j \in Jobs, WritesFiles(j) PROVE RInv'
<1>1. /\ Typed /\ PathsAreTaken /\ FilesAreDistinct /\ FetchesAreCounted /\ OneFetch
      /\ TwoFetches /\ RootsAreKept /\ RefusalsAreExplained
  BY DEF RInv
<1>2. PICK indexed \in BOOLEAN :
         repo' = [repo EXCEPT !.files = TRUE, !.clean = indexed /\ repo.tip = "PIN"]
  BY DEF WritesFiles
<1>3. /\ job[j].at = "CHECKOUT" /\ job' = job /\ archive' = archive /\ content' = content
      /\ unpacked' = unpacked /\ root' = root /\ together' = together
  BY DEF WritesFiles
<1>4. /\ repo' \in Checkout
      /\ repo'.at = repo.at /\ repo'.tip = repo.tip /\ repo'.paths = repo.paths
  BY <1>1, <1>2 DEF Typed, Checkout
<1>5. Typed'
  BY <1>1, <1>3, <1>4 DEF Typed
<1>6. FetchesAreCounted'
  BY <1>1, <1>3, FetchersShrink DEF Fetching
<1>7. PathsAreTaken' /\ FilesAreDistinct'
  BY <1>1, <1>3 DEF PathsAreTaken, FilesAreDistinct
<1>8. OneFetch'
  BY <1>1, <1>3, <1>4 DEF OneFetch, InPlace
<1>9. TwoFetches' /\ RootsAreKept'
  BY <1>1, <1>3 DEF TwoFetches, RootsAreKept, InPlace
<1>10. RefusalsAreExplained'
  BY <1>1, <1>3, <1>4 DEF RefusalsAreExplained
<1>11. QED
  BY <1>5, <1>6, <1>7, <1>8, <1>9, <1>10 DEF RInv

\* The pinned revision is checked out, or cannot be.
LEMMA ChecksOutKeeps == ASSUME RInv, NEW j \in Jobs, ChecksOut(j) PROVE RInv'
<1>1. /\ Typed /\ PathsAreTaken /\ FilesAreDistinct /\ FetchesAreCounted /\ OneFetch
      /\ TwoFetches /\ RootsAreKept /\ RefusalsAreExplained
  BY DEF RInv
<1>2. /\ job[j].at = "CHECKOUT"
      /\ \/ Goes(j, "VERIFY") /\ repo' = CheckedOut
         \/ Fails(j, "CHECKOUT") /\ repo' = repo
      /\ archive' = archive /\ content' = content /\ unpacked' = unpacked /\ root' = root
      /\ together' = together
  BY DEF ChecksOut
<1>3. /\ job' \in [Jobs -> Job] /\ \A k \in Jobs : k # j => job'[k] = job[k]
      /\ job'[j].kind = job[j].kind /\ job'[j].tries = job[j].tries
      /\ repo' \in Checkout
      /\ repo'.tip = repo.tip /\ repo'.paths = repo.paths
      /\ \/ /\ repo'.at = "CHECKED_OUT" /\ repo'.files /\ repo'.clean
            /\ job'[j].at = "VERIFY" /\ job'[j].why = job[j].why
         \/ repo' = repo /\ job'[j].at = "FAILED" /\ job'[j].why = "CHECKOUT"
  <2>1. "VERIFY" \in Phases /\ "CHECKOUT" \in Reasons
    BY DEF Phases, Unpacking, Reasons
  <2>2. CASE Goes(j, "VERIFY") /\ repo' = CheckedOut
    BY <1>1, <2>1, <2>2, JobGoes DEF Typed, Checkout, CheckedOut
  <2>3. CASE Fails(j, "CHECKOUT") /\ repo' = repo
    BY <1>1, <2>1, <2>3, JobFails DEF Typed
  <2>4. QED
    BY <1>2, <2>2, <2>3
<1>4. Typed'
  BY <1>1, <1>2, <1>3 DEF Typed
<1>5. Fetching(j) /\ FetchesAreCounted'
  BY <1>1, <1>2, <1>3, FetchersShrink DEF Fetching, Ended, Preparing
<1>6. together <= 1 => \A k \in Jobs : k # j => job[k].at \in Ended \cup Preparing
  BY <1>5, OthersAreIdle
<1>7. PathsAreTaken'
  BY <1>1, <1>2, <1>3 DEF PathsAreTaken, Unpacking, Preparing
<1>8. FilesAreDistinct'
  BY <1>1, <1>2, <1>3 DEF FilesAreDistinct
<1>9. OneFetch'
  BY <1>1, <1>2, <1>3, <1>6 DEF OneFetch, InPlace, Ended, Preparing
<1>10. TwoFetches'
  BY <1>1, <1>2, <1>3 DEF TwoFetches, InPlace, Downloading
<1>11. RootsAreKept'
  BY <1>1, <1>2, <1>3 DEF RootsAreKept, Downloading, Unpacking
<1>12. RefusalsAreExplained'
  BY <1>1, <1>2, <1>3 DEF RefusalsAreExplained, OneFetch, Typed
<1>13. QED
  BY <1>4, <1>5, <1>7, <1>8, <1>9, <1>10, <1>11, <1>12 DEF RInv
-----------------------------------------------------------------------------
\* A step that extracts into the run root of a job.
LEMMA RootGetsTree ==
    ASSUME Typed, NEW j \in Jobs, NEW from \in {"SHORT", "PINNED"},
           root' = [root EXCEPT ![j].holds = @ \cup {"TREE"}, ![j].from = from]
    PROVE  /\ root' \in [Jobs -> RunRoot] /\ \A k \in Jobs : k # j => root'[k] = root[k]
           /\ root'[j].holds = root[j].holds \cup {"TREE"} /\ root'[j].from = from
           /\ root'[j].patched = root[j].patched /\ root'[j].replay = root[j].replay
<1>1. root \in [Jobs -> RunRoot] /\ root[j] \in RunRoot
  BY DEF Typed
<1>2. PICK h : h = root[j].holds \cup {"TREE"}
  OBVIOUS
<1>3. h \in SUBSET {"CACHE", "TREE"}
  BY <1>1, <1>2 DEF RunRoot
<1>4. PICK r : r = [root[j] EXCEPT !.holds = h, !.from = from]
  OBVIOUS
<1>5. /\ r \in RunRoot /\ r.holds = h /\ r.from = from
      /\ r.patched = root[j].patched /\ r.replay = root[j].replay
  BY <1>1, <1>3, <1>4 DEF RunRoot
<1>6. root' = [root EXCEPT ![j] = r]
  BY <1>2, <1>4
<1>7. QED
  BY <1>1, <1>2, <1>5, <1>6

\* A step that records a replay in the run root of a job.
LEMMA RootGetsReplay ==
    ASSUME Typed, NEW j \in Jobs, NEW replay \in {"prepared", "complete", "failed"},
           root' = [root EXCEPT ![j].replay = replay]
    PROVE  /\ root' \in [Jobs -> RunRoot] /\ \A k \in Jobs : k # j => root'[k] = root[k]
           /\ root'[j].holds = root[j].holds /\ root'[j].from = root[j].from
           /\ root'[j].patched = root[j].patched /\ root'[j].replay = replay
<1>1. root \in [Jobs -> RunRoot] /\ root[j] \in RunRoot
  BY DEF Typed
<1>2. PICK r : r = [root[j] EXCEPT !.replay = replay]
  OBVIOUS
<1>3. /\ r \in RunRoot /\ r.holds = root[j].holds /\ r.from = root[j].from
      /\ r.patched = root[j].patched /\ r.replay = replay
  BY <1>1, <1>2 DEF RunRoot
<1>4. root' = [root EXCEPT ![j] = r]
  BY <1>2
<1>5. QED
  BY <1>1, <1>3, <1>4

\* The archive is extracted into an empty root, whole, in part or not at all.
LEMMA ExtractsKeeps == ASSUME RInv, NEW j \in Jobs, Extracts(j) PROVE RInv'
<1>1. /\ Typed /\ PathsAreTaken /\ FilesAreDistinct /\ FetchesAreCounted /\ OneFetch
      /\ TwoFetches /\ RootsAreKept /\ RefusalsAreExplained
  BY DEF RInv
<1>2. /\ job[j].at = "EXTRACT"
      /\ \/ Fails(j, "EXTRACT") /\ root' = root
         \/ /\ root' = [root EXCEPT ![j].holds = @ \cup {"TREE"}, ![j].from = "SHORT"]
            /\ Fails(j, "EXTRACT")
         \/ /\ root' = [root EXCEPT ![j].holds = @ \cup {"TREE"}, ![j].from = InPlace]
            /\ Goes(j, "PATCH")
      /\ archive' = archive /\ content' = content /\ unpacked' = unpacked /\ repo' = repo
      /\ together' = together
  BY DEF Extracts
<1>3. /\ job' \in [Jobs -> Job] /\ \A k \in Jobs : k # j => job'[k] = job[k]
      /\ job'[j].kind = job[j].kind /\ job'[j].tries = job[j].tries
      /\ root' \in [Jobs -> RunRoot] /\ \A k \in Jobs : k # j => root'[k] = root[k]
      /\ root'[j].patched = root[j].patched /\ root'[j].replay = root[j].replay
      /\ \/ /\ root' = root /\ job'[j].at = "FAILED" /\ job'[j].why = "EXTRACT"
         \/ /\ root'[j].holds = root[j].holds \cup {"TREE"} /\ root'[j].from = "SHORT"
            /\ job'[j].at = "FAILED" /\ job'[j].why = "EXTRACT"
         \/ /\ root'[j].holds = root[j].holds \cup {"TREE"} /\ root'[j].from = InPlace
            /\ job'[j].at = "PATCH" /\ job'[j].why = job[j].why
  <2>1. "PATCH" \in Phases /\ "EXTRACT" \in Reasons
    BY DEF Phases, Preparing, Reasons
  <2>2. InPlace \in {"SHORT", "PINNED"}
    <3>1. archive.dest # 0
      BY <1>1, <1>2 DEF PathsAreTaken, Preparing
    <3>2. QED
      BY <1>1, <3>1, NamedInodes DEF Typed, InPlace
  <2>3. CASE Fails(j, "EXTRACT") /\ root' = root
    BY <1>1, <2>1, <2>3, JobFails DEF Typed
  <2>4. CASE /\ root' = [root EXCEPT ![j].holds = @ \cup {"TREE"}, ![j].from = "SHORT"]
             /\ Fails(j, "EXTRACT")
    <3>1. job' \in [Jobs -> Job] /\ \A k \in Jobs : k # j => job'[k] = job[k]
      BY <1>1, <2>1, <2>4, JobFails
    <3>2. /\ job'[j].kind = job[j].kind /\ job'[j].tries = job[j].tries
          /\ job'[j].at = "FAILED" /\ job'[j].why = "EXTRACT"
      BY <1>1, <2>1, <2>4, JobFails
    <3>3. QED
      BY <1>1, <2>4, <3>1, <3>2, RootGetsTree
  <2>5. CASE /\ root' = [root EXCEPT ![j].holds = @ \cup {"TREE"}, ![j].from = InPlace]
             /\ Goes(j, "PATCH")
    <3>1. job' \in [Jobs -> Job] /\ \A k \in Jobs : k # j => job'[k] = job[k]
      BY <1>1, <2>1, <2>5, JobGoes
    <3>2. /\ job'[j].kind = job[j].kind /\ job'[j].tries = job[j].tries
          /\ job'[j].at = "PATCH" /\ job'[j].why = job[j].why
      BY <1>1, <2>1, <2>5, JobGoes
    <3>3. QED
      BY <1>1, <2>2, <2>5, <3>1, <3>2, RootGetsTree
  <2>6. QED
    BY <1>2, <2>3, <2>4, <2>5
<1>4. root[j].holds = {} /\ root[j].replay = "NONE"
      /\ (job[j].why = "NOT_EMPTY" => job[j].tries > 1)
  BY <1>1, <1>2 DEF RootsAreKept, RefusalsAreExplained, Typed, RunRoot
<1>5. Typed'
  BY <1>1, <1>2, <1>3, <1>4 DEF Typed
<1>6. FetchesAreCounted'
  BY <1>1, <1>2, <1>3, FetchersShrink DEF Fetching, Ended, Preparing
<1>7. PathsAreTaken'
  BY <1>1, <1>2, <1>3, <1>4 DEF PathsAreTaken, Unpacking, Preparing
<1>8. FilesAreDistinct'
  BY <1>1, <1>2, <1>3, <1>4 DEF FilesAreDistinct
<1>9. OneFetch'
  BY <1>1, <1>2, <1>3, <1>4 DEF OneFetch, InPlace
<1>10. TwoFetches'
  BY <1>1, <1>2, <1>3, <1>4 DEF TwoFetches, InPlace, Downloading
<1>11. RootsAreKept'
  BY <1>1, <1>2, <1>3, <1>4 DEF RootsAreKept, Downloading, Unpacking
<1>12. RefusalsAreExplained'
  BY <1>1, <1>2, <1>3, <1>4 DEF RefusalsAreExplained, OneFetch, Typed
<1>13. QED
  BY <1>5, <1>6, <1>7, <1>8, <1>9, <1>10, <1>11, <1>12 DEF RInv

\* The driver of the tree is patched.
LEMMA PatchesKeeps == ASSUME RInv, NEW j \in Jobs, Patches(j) PROVE RInv'
<1>1. /\ Typed /\ PathsAreTaken /\ FilesAreDistinct /\ FetchesAreCounted /\ OneFetch
      /\ TwoFetches /\ RootsAreKept /\ RefusalsAreExplained
  BY DEF RInv
<1>2. /\ job[j].at = "PATCH" /\ Goes(j, "RECORD")
      /\ root' = [root EXCEPT ![j].patched = TRUE]
      /\ archive' = archive /\ content' = content /\ unpacked' = unpacked /\ repo' = repo
      /\ together' = together
  BY DEF Patches
<1>3. /\ job' \in [Jobs -> Job] /\ \A k \in Jobs : k # j => job'[k] = job[k]
      /\ job'[j].kind = job[j].kind /\ job'[j].tries = job[j].tries
      /\ root' \in [Jobs -> RunRoot] /\ \A k \in Jobs : k # j => root'[k] = root[k]
      /\ root'[j].holds = root[j].holds /\ root'[j].from = root[j].from
      /\ root'[j].patched = TRUE /\ root'[j].replay = root[j].replay
      /\ job'[j].at = "RECORD" /\ job'[j].why = job[j].why
  <2>1. "RECORD" \in Phases
    BY DEF Phases, Preparing
  <2>2. root \in [Jobs -> RunRoot] /\ root[j] \in RunRoot
    BY <1>1 DEF Typed
  <2>3. PICK r : r = [root[j] EXCEPT !.patched = TRUE]
    OBVIOUS
  <2>4. /\ r \in RunRoot /\ r.holds = root[j].holds /\ r.from = root[j].from
        /\ r.patched = TRUE /\ r.replay = root[j].replay
    BY <2>2, <2>3 DEF RunRoot
  <2>5. root' = [root EXCEPT ![j] = r]
    BY <1>2, <2>3
  <2>6. /\ root' \in [Jobs -> RunRoot] /\ \A k \in Jobs : k # j => root'[k] = root[k]
        /\ root'[j] = r
    BY <2>2, <2>4, <2>5
  <2>7. QED
    BY <1>1, <1>2, <2>1, <2>4, <2>6, JobGoes
<1>4. Typed'
  BY <1>1, <1>2, <1>3 DEF Typed
<1>5. FetchesAreCounted'
  BY <1>1, <1>2, <1>3, FetchersShrink DEF Fetching, Ended, Preparing
<1>6. PathsAreTaken'
  BY <1>1, <1>2, <1>3 DEF PathsAreTaken, Unpacking, Preparing
<1>7. FilesAreDistinct'
  BY <1>1, <1>2, <1>3 DEF FilesAreDistinct
<1>8. OneFetch'
  BY <1>1, <1>2, <1>3 DEF OneFetch, InPlace
<1>9. TwoFetches'
  BY <1>1, <1>2, <1>3 DEF TwoFetches, InPlace, Downloading
<1>10. RootsAreKept'
  BY <1>1, <1>2, <1>3 DEF RootsAreKept, Downloading, Unpacking
<1>11. RefusalsAreExplained'
  BY <1>1, <1>2, <1>3 DEF RefusalsAreExplained, OneFetch, Typed
<1>12. QED
  BY <1>4, <1>5, <1>6, <1>7, <1>8, <1>9, <1>10, <1>11 DEF RInv

\* The replay is recorded as prepared.
LEMMA RecordsReplayKeeps == ASSUME RInv, NEW j \in Jobs, RecordsReplay(j) PROVE RInv'
<1>1. /\ Typed /\ PathsAreTaken /\ FilesAreDistinct /\ FetchesAreCounted /\ OneFetch
      /\ TwoFetches /\ RootsAreKept /\ RefusalsAreExplained
  BY DEF RInv
<1>2. /\ job[j].at = "RECORD" /\ Goes(j, IF job[j].kind = "EXACT" THEN "EXECUTE" ELSE "DONE")
      /\ root' = [root EXCEPT ![j].replay = "prepared"]
      /\ archive' = archive /\ content' = content /\ unpacked' = unpacked /\ repo' = repo
      /\ together' = together
  BY DEF RecordsReplay
<1>3. /\ job' \in [Jobs -> Job] /\ \A k \in Jobs : k # j => job'[k] = job[k]
      /\ job'[j].kind = job[j].kind /\ job'[j].tries = job[j].tries
      /\ root' \in [Jobs -> RunRoot] /\ \A k \in Jobs : k # j => root'[k] = root[k]
      /\ root'[j].holds = root[j].holds /\ root'[j].from = root[j].from
      /\ root'[j].patched = root[j].patched /\ root'[j].replay = "prepared"
      /\ job'[j].at = (IF job[j].kind = "EXACT" THEN "EXECUTE" ELSE "DONE")
      /\ job'[j].why = job[j].why
  <2>1. (IF job[j].kind = "EXACT" THEN "EXECUTE" ELSE "DONE") \in Phases
    BY DEF Phases, Preparing, Ended
  <2>2. /\ job' \in [Jobs -> Job] /\ \A k \in Jobs : k # j => job'[k] = job[k]
        /\ job'[j].kind = job[j].kind /\ job'[j].tries = job[j].tries
        /\ job'[j].at = (IF job[j].kind = "EXACT" THEN "EXECUTE" ELSE "DONE")
        /\ job'[j].why = job[j].why
    BY <1>1, <1>2, <2>1, JobGoes
  <2>3. QED
    BY <1>1, <1>2, <2>2, RootGetsReplay
<1>4. job[j].kind # "HAND" /\ "TREE" \in root[j].holds /\ root[j].patched
  BY <1>1, <1>2 DEF PathsAreTaken, RootsAreKept, Preparing
<1>5. Typed'
  BY <1>1, <1>2, <1>3, <1>4 DEF Typed
<1>6. FetchesAreCounted'
  BY <1>1, <1>2, <1>3, FetchersShrink DEF Fetching, Ended, Preparing
<1>7. PathsAreTaken'
  BY <1>1, <1>2, <1>3, <1>4 DEF PathsAreTaken, Unpacking, Preparing
<1>8. FilesAreDistinct'
  BY <1>1, <1>2, <1>3, <1>4 DEF FilesAreDistinct
<1>9. OneFetch'
  BY <1>1, <1>2, <1>3, <1>4 DEF OneFetch, InPlace
<1>10. TwoFetches'
  BY <1>1, <1>2, <1>3, <1>4 DEF TwoFetches, InPlace, Downloading
<1>11. RootsAreKept'
  BY <1>1, <1>2, <1>3, <1>4 DEF RootsAreKept, Downloading, Unpacking
<1>12. RefusalsAreExplained'
  BY <1>1, <1>2, <1>3, <1>4 DEF RefusalsAreExplained, OneFetch, Typed
<1>13. QED
  BY <1>5, <1>6, <1>7, <1>8, <1>9, <1>10, <1>11, <1>12 DEF RInv

\* The replay is recorded as complete or failed.
LEMMA ExecutesKeeps == ASSUME RInv, NEW j \in Jobs, Executes(j) PROVE RInv'
<1>1. /\ Typed /\ PathsAreTaken /\ FilesAreDistinct /\ FetchesAreCounted /\ OneFetch
      /\ TwoFetches /\ RootsAreKept /\ RefusalsAreExplained
  BY DEF RInv
<1>2. /\ job[j].at = "EXECUTE"
      /\ \/ root' = [root EXCEPT ![j].replay = "complete"] /\ Goes(j, "DONE")
         \/ root' = [root EXCEPT ![j].replay = "failed"] /\ Fails(j, "DRIVER")
      /\ archive' = archive /\ content' = content /\ unpacked' = unpacked /\ repo' = repo
      /\ together' = together
  BY DEF Executes
<1>3. /\ job' \in [Jobs -> Job] /\ \A k \in Jobs : k # j => job'[k] = job[k]
      /\ job'[j].kind = job[j].kind /\ job'[j].tries = job[j].tries
      /\ root' \in [Jobs -> RunRoot] /\ \A k \in Jobs : k # j => root'[k] = root[k]
      /\ root'[j].holds = root[j].holds /\ root'[j].from = root[j].from
      /\ root'[j].patched = root[j].patched
      /\ root'[j].replay \in {"complete", "failed"}
      /\ \/ job'[j].at = "DONE" /\ job'[j].why = job[j].why
         \/ job'[j].at = "FAILED" /\ job'[j].why = "DRIVER"
  <2>1. "DONE" \in Phases /\ "DRIVER" \in Reasons
    BY DEF Phases, Ended, Reasons
  <2>2. CASE root' = [root EXCEPT ![j].replay = "complete"] /\ Goes(j, "DONE")
    <3>1. /\ job' \in [Jobs -> Job] /\ \A k \in Jobs : k # j => job'[k] = job[k]
          /\ job'[j].kind = job[j].kind /\ job'[j].tries = job[j].tries
          /\ job'[j].at = "DONE" /\ job'[j].why = job[j].why
      BY <1>1, <2>1, <2>2, JobGoes
    <3>2. QED
      BY <1>1, <2>2, <3>1, RootGetsReplay
  <2>3. CASE root' = [root EXCEPT ![j].replay = "failed"] /\ Fails(j, "DRIVER")
    <3>1. /\ job' \in [Jobs -> Job] /\ \A k \in Jobs : k # j => job'[k] = job[k]
          /\ job'[j].kind = job[j].kind /\ job'[j].tries = job[j].tries
          /\ job'[j].at = "FAILED" /\ job'[j].why = "DRIVER"
      BY <1>1, <2>1, <2>3, JobFails
    <3>2. QED
      BY <1>1, <2>3, <3>1, RootGetsReplay
  <2>4. QED
    BY <1>2, <2>2, <2>3
<1>4. job[j].kind = "EXACT" /\ "TREE" \in root[j].holds /\ root[j].patched
  BY <1>1, <1>2 DEF PathsAreTaken, RootsAreKept, Preparing
<1>5. Typed'
  BY <1>1, <1>2, <1>3, <1>4 DEF Typed
<1>6. FetchesAreCounted'
  BY <1>1, <1>2, <1>3, FetchersShrink DEF Fetching, Ended, Preparing
<1>7. PathsAreTaken'
  BY <1>1, <1>2, <1>3, <1>4 DEF PathsAreTaken, Unpacking, Preparing
<1>8. FilesAreDistinct'
  BY <1>1, <1>2, <1>3, <1>4 DEF FilesAreDistinct
<1>9. OneFetch'
  BY <1>1, <1>2, <1>3, <1>4 DEF OneFetch, InPlace
<1>10. TwoFetches'
  BY <1>1, <1>2, <1>3, <1>4 DEF TwoFetches, InPlace, Downloading
<1>11. RootsAreKept'
  <2>1. /\ job'[j].at \in {"DONE", "FAILED"} /\ "TREE" \in root'[j].holds
        /\ root'[j].patched /\ job'[j].kind = "EXACT"
    BY <1>3, <1>4
  <2>2. \A k \in Jobs : k # j => job'[k] = job[k] /\ root'[k] = root[k]
    BY <1>3
  <2>3. QED
    BY <1>1, <2>1, <2>2 DEF RootsAreKept, Downloading, Unpacking
<1>12. RefusalsAreExplained'
  BY <1>1, <1>2, <1>3, <1>4 DEF RefusalsAreExplained, OneFetch, Typed
<1>13. QED
  BY <1>5, <1>6, <1>7, <1>8, <1>9, <1>10, <1>11, <1>12 DEF RInv
-----------------------------------------------------------------------------
\* A new run root is empty or holds the cache.
LEMMA NewRootFacts ==
    ASSUME NEW kind, NEW r \in NewRoot(kind)
    PROVE  /\ r \in RunRoot /\ "TREE" \notin r.holds
           /\ r.from = "NONE" /\ r.patched = FALSE /\ r.replay = "NONE"
<1>1. PICK holds \in {{}} \cup (IF kind = "FORTBO" THEN {{"CACHE"}} ELSE {}) :
         r = [holds |-> holds, from |-> "NONE", patched |-> FALSE, replay |-> "NONE"]
  BY DEF NewRoot
<1>2. holds \in SUBSET {"CACHE", "TREE"} /\ "TREE" \notin holds
  BY <1>1
<1>3. QED
  BY <1>1, <1>2 DEF RunRoot

\* A job that is killed leaves what it was at half done.
LEMMA KilledKeeps == ASSUME RInv, NEW j \in Jobs, Killed(j) PROVE RInv'
<1>1. /\ Typed /\ PathsAreTaken /\ FilesAreDistinct /\ FetchesAreCounted /\ OneFetch
      /\ TwoFetches /\ RootsAreKept /\ RefusalsAreExplained
  BY DEF RInv
<1>2. /\ job[j].at \notin Ended
      /\ job' = [job EXCEPT ![j].at = "KILLED", ![j].inode = 0]
      /\ repo' \in {repo}
            \cup (IF job[j].at = "CLONE" THEN {[repo EXCEPT !.at = "CLONED"]} ELSE {})
            \cup (IF job[j].at = "CHECKOUT" THEN {CheckedOut} ELSE {})
      /\ unpacked' \in {unpacked} \cup (IF job[j].at = "UNTAR"
                                      THEN {[unpacked EXCEPT !.tree = "SHORT"]} ELSE {})
      /\ root' \in {root} \cup
                  (IF job[j].at = "EXTRACT"
                   THEN {[root EXCEPT ![j].holds = @ \cup {"TREE"}, ![j].from = "SHORT"]}
                   ELSE {})
      /\ archive' = archive /\ content' = content /\ together' = together
  BY DEF Killed
<1>3. /\ job' \in [Jobs -> Job] /\ \A k \in Jobs : k # j => job'[k] = job[k]
      /\ job'[j].kind = job[j].kind /\ job'[j].tries = job[j].tries
      /\ job'[j].at = "KILLED" /\ job'[j].why = job[j].why
  <2>1. PICK n : n = [job[j] EXCEPT !.at = "KILLED", !.inode = 0]
    OBVIOUS
  <2>2. job \in [Jobs -> Job] /\ job[j] \in Job
    BY <1>1 DEF Typed
  <2>3. 0 \in 0..Cardinality(Inodes)
    BY InodesAreNumbers, FetchersAreFinite
  <2>4. /\ n \in Job /\ n.at = "KILLED" /\ n.kind = job[j].kind
        /\ n.tries = job[j].tries /\ n.why = job[j].why
    BY <2>1, <2>2, <2>3 DEF Job, Phases, Ended
  <2>5. job' = [job EXCEPT ![j] = n]
    BY <1>2, <2>1
  <2>6. QED
    BY <2>2, <2>4, <2>5
<1>4. /\ repo' \in Checkout
      /\ repo'.tip = repo.tip /\ repo'.paths = repo.paths
      /\ \/ repo' = repo
         \/ job[j].at = "CLONE" /\ repo'.at = "CLONED"
         \/ /\ job[j].at = "CHECKOUT"
            /\ repo'.at = "CHECKED_OUT" /\ repo'.files /\ repo'.clean
  <2>1. CASE repo' = repo
    BY <1>1, <2>1 DEF Typed
  <2>2. CASE job[j].at = "CLONE" /\ repo' = [repo EXCEPT !.at = "CLONED"]
    BY <1>1, <2>2 DEF Typed, Checkout
  <2>3. CASE job[j].at = "CHECKOUT" /\ repo' = CheckedOut
    BY <1>1, <2>3 DEF Typed, Checkout, CheckedOut
  <2>4. QED
    BY <1>2, <2>1, <2>2, <2>3
<1>5. /\ unpacked' \in [tree : {"NONE", "SHORT", "PINNED"}, marker : BOOLEAN]
      /\ unpacked' = unpacked
         \/ (job[j].at = "UNTAR" /\ unpacked'.marker = unpacked.marker)
  <2>1. \/ unpacked' = unpacked
        \/ job[j].at = "UNTAR" /\ unpacked' = [unpacked EXCEPT !.tree = "SHORT"]
    BY <1>2
  <2>2. QED
    BY <1>1, <2>1 DEF Typed
<1>6. /\ root' \in [Jobs -> RunRoot] /\ \A k \in Jobs : k # j => root'[k] = root[k]
      /\ \/ root' = root
         \/ /\ job[j].at = "EXTRACT" /\ root'[j].holds = root[j].holds \cup {"TREE"}
            /\ root'[j].replay = root[j].replay
  <2>1. CASE root' = root
    BY <1>1, <2>1 DEF Typed
  <2>2. CASE /\ job[j].at = "EXTRACT"
             /\ root' = [root EXCEPT ![j].holds = @ \cup {"TREE"}, ![j].from = "SHORT"]
    BY <1>1, <2>2, RootGetsTree
  <2>3. QED
    BY <1>2, <2>1, <2>2
<1>7. job[j].at \in {"CLONE", "CHECKOUT", "UNTAR"} /\ together <= 1 =>
         \A k \in Jobs : k # j => job[k].at \in Ended \cup Preparing
  BY OthersAreIdle DEF Fetching, Ended, Preparing
<1>8. job[j].at = "EXTRACT" => /\ root[j].holds = {} /\ root[j].replay = "NONE"
                               /\ (job[j].why = "NOT_EMPTY" => job[j].tries > 1)
  BY <1>1 DEF RootsAreKept, RefusalsAreExplained, Typed, RunRoot
<1>9. Typed'
  BY <1>1, <1>2, <1>3, <1>4, <1>5, <1>6, <1>7, <1>8 DEF Typed
<1>10. FetchesAreCounted'
  BY <1>1, <1>2, <1>3, FetchersShrink DEF Fetching, Ended, Preparing
<1>11. PathsAreTaken'
  BY <1>1, <1>2, <1>3, <1>4, <1>5, <1>6, <1>7, <1>8
  DEF PathsAreTaken, Unpacking, Preparing, Ended
<1>12. FilesAreDistinct'
  BY <1>1, <1>2, <1>3, <1>4, <1>5, <1>6, <1>7, <1>8 DEF FilesAreDistinct
<1>13. OneFetch'
  BY <1>1, <1>2, <1>3, <1>4, <1>5, <1>6, <1>7, <1>8 DEF OneFetch, InPlace, Ended, Preparing
<1>14. TwoFetches'
  BY <1>1, <1>2, <1>3, <1>4, <1>5, <1>6, <1>7, <1>8 DEF TwoFetches, InPlace, Downloading
<1>15. RootsAreKept'
  BY <1>1, <1>2, <1>3, <1>4, <1>5, <1>6, <1>7, <1>8 DEF RootsAreKept, Downloading, Unpacking
<1>16. RefusalsAreExplained'
  BY <1>1, <1>2, <1>3, <1>4, <1>5, <1>6, <1>7, <1>8 DEF RefusalsAreExplained, OneFetch, Typed
<1>17. QED
  BY <1>9, <1>10, <1>11, <1>12, <1>13, <1>14, <1>15, <1>16 DEF RInv
-----------------------------------------------------------------------------
\* A job that starts is one more fetch, in the run root it had or a new one.
LEMMA BeginsKeeps == ASSUME RInv, NEW j \in Jobs, Begins(j) PROVE RInv'
<1>1. /\ Typed /\ PathsAreTaken /\ FilesAreDistinct /\ FetchesAreCounted /\ OneFetch
      /\ TwoFetches /\ RootsAreKept /\ RefusalsAreExplained
  BY DEF RInv
<1>2. /\ job[j].at \in {"START", "FAILED", "KILLED"}
      /\ job' = [job EXCEPT ![j].at = "FETCH", ![j].tries = @ + 1, ![j].why = ""]
      /\ root' \in {root} \cup {[root EXCEPT ![j] = new] : new \in NewRoot(job[j].kind)}
      /\ together' = Max({together, Cardinality(Fetchers) + 1})
      /\ archive' = archive /\ content' = content /\ unpacked' = unpacked /\ repo' = repo
  BY DEF Begins, Fetchers
<1>3. /\ job' \in [Jobs -> Job] /\ \A k \in Jobs : k # j => job'[k] = job[k]
      /\ job'[j].kind = job[j].kind /\ job'[j].tries = job[j].tries + 1
      /\ job'[j].at = "FETCH" /\ job'[j].why = ""
  <2>1. PICK t : t = job[j].tries + 1
    OBVIOUS
  <2>2. PICK n : n = [job[j] EXCEPT !.at = "FETCH", !.tries = t, !.why = ""]
    OBVIOUS
  <2>3. job \in [Jobs -> Job] /\ job[j] \in Job
    BY <1>1 DEF Typed
  <2>4. job[j].tries \in Nat
    BY <2>3 DEF Job
  <2>5. t \in Nat
    BY <2>1, <2>4
  <2>6. n \in Job /\ n.at = "FETCH" /\ n.kind = job[j].kind /\ n.tries = t /\ n.why = ""
    BY <2>2, <2>3, <2>5 DEF Job, Phases, Reasons
  <2>7. job' = [job EXCEPT ![j] = n]
    BY <1>2, <2>1, <2>2
  <2>8. QED
    BY <2>1, <2>3, <2>6, <2>7
<1>4. /\ job'[j].tries # 0
      /\ job'[j].tries <= 1 => job[j].at = "START" /\ job[j].tries <= 1
  <2>1. PICK t : t = job[j].tries
    OBVIOUS
  <2>2. PICK u : u = job'[j].tries
    OBVIOUS
  <2>3. t \in Nat
    BY <1>1, <2>1 DEF Typed, Job
  <2>4. u = t + 1
    BY <1>3, <2>1, <2>2
  <2>5. u # 0 /\ (u <= 1 => t = 0 /\ t <= 1)
    BY <2>3, <2>4
  <2>6. job[j].at # "START" => t # 0
    BY <1>1, <2>1 DEF PathsAreTaken
  <2>7. QED
    BY <2>1, <2>2, <2>5, <2>6
<1>5. /\ root' \in [Jobs -> RunRoot] /\ \A k \in Jobs : k # j => root'[k] = root[k]
      /\ \/ root'[j] = root[j]
         \/ root'[j].replay = "NONE" /\ "TREE" \notin root'[j].holds
  <2>1. CASE root' = root
    BY <1>1, <2>1 DEF Typed
  <2>2. ASSUME NEW new \in NewRoot(job[j].kind), root' = [root EXCEPT ![j] = new]
        PROVE  <1>5
    <3>1. new \in RunRoot /\ new.replay = "NONE" /\ "TREE" \notin new.holds
      BY NewRootFacts
    <3>2. QED
      BY <1>1, <2>2, <3>1 DEF Typed
  <2>3. QED
    BY <1>2, <2>1, <2>2
<1>6. /\ together' \in Nat /\ together <= together'
      /\ FetchesAreCounted'
  <2>1. j \notin Fetchers
    BY <1>2 DEF Fetchers, Fetching, Ended
  <2>2. Fetchers' = Fetchers \cup {j}
    BY <1>2, <1>3 DEF Fetchers, Fetching, Ended, Preparing
  <2>3. PICK c : c = Cardinality(Fetchers)
    OBVIOUS
  <2>4. c \in Nat /\ IsFiniteSet(Fetchers)
    BY <2>3, FetchersAreFinite
  <2>5. Cardinality(Fetchers') = c + 1
    BY <2>1, <2>2, <2>3, <2>4, FS_AddElement
  <2>6. PICK d : d = c + 1
    OBVIOUS
  <2>7. d \in Nat /\ together \in Nat
    BY <1>1, <2>4, <2>6 DEF Typed
  <2>8. together' = IF together >= d THEN together ELSE d
    <3>1. together' = Max({together, d})
      BY <1>2, <2>3, <2>6
    <3>2. QED
      BY <2>7, <3>1, MaxOfTwo
  <2>9. together' \in Nat /\ together <= together' /\ d <= together'
    BY <2>7, <2>8
  <2>10. QED
    BY <2>5, <2>6, <2>9 DEF FetchesAreCounted
<1>7. \A n \in {1, 2} : together' <= n => together <= n
  BY <1>1, <1>6 DEF Typed
<1>8. Typed'
  BY <1>1, <1>2, <1>3, <1>5, <1>6 DEF Typed
<1>9. PathsAreTaken'
  <2>1. \A k \in Jobs : k # j => job'[k] = job[k]
    BY <1>3
  <2>2. job'[j].at = "FETCH" /\ job'[j].tries # 0
    BY <1>3, <1>4
  <2>3. QED
    BY <1>1, <1>2, <2>1, <2>2 DEF PathsAreTaken, Unpacking, Preparing
<1>10. FilesAreDistinct'
  BY <1>1, <1>2 DEF FilesAreDistinct
<1>11. OneFetch'
  BY <1>1, <1>2, <1>3, <1>7 DEF OneFetch, InPlace
<1>12. TwoFetches'
  <2> SUFFICES ASSUME together <= 2 PROVE TwoFetches'
    BY <1>7 DEF TwoFetches
  <2>1. \A k \in Jobs : job'[k].at # "FETCH" => job'[k] = job[k] /\ root'[k] = root[k]
    BY <1>3, <1>5
  <2>2. archive.dest # 0 =>
           /\ \A k, l \in Jobs :
                 job'[k].at \in Downloading /\ job'[l].at \in Downloading => k = l
           /\ \A k \in Jobs : job'[k].at = "REPLACE" /\ archive.part # 0 =>
                 content[archive.part] = "PINNED"
    BY <1>1, <2>1 DEF TwoFetches, Downloading
  <2>3. \A k \in Jobs : root'[k].replay # "NONE" => root'[k].from = "PINNED"
    BY <1>1, <1>5 DEF TwoFetches
  <2>4. \A k \in Jobs :
           /\ job'[k].at = "EXTRACT" => InPlace = "PINNED"
           /\ job'[k].at \in {"PATCH", "RECORD", "EXECUTE"} => root'[k].from = "PINNED"
    BY <1>1, <2>1 DEF TwoFetches
  <2>5. InPlace' = InPlace
    BY <1>2 DEF InPlace
  <2>6. QED
    BY <1>2, <2>2, <2>3, <2>4, <2>5 DEF TwoFetches
<1>13. RootsAreKept'
  <2>1. \A k \in Jobs : k # j => job'[k] = job[k] /\ root'[k] = root[k]
    BY <1>3, <1>5
  <2>2. /\ root'[j].replay # "NONE" => "TREE" \in root'[j].holds /\ root'[j].patched
        /\ root'[j].replay \in {"complete", "failed"} => job'[j].kind = "EXACT"
    BY <1>1, <1>3, <1>5 DEF RootsAreKept
  <2>3. job'[j].tries <= 1 => "TREE" \notin root'[j].holds
    <3> SUFFICES ASSUME job'[j].tries <= 1 PROVE "TREE" \notin root'[j].holds
      OBVIOUS
    <3>1. job[j].at = "START" /\ job[j].tries <= 1
      BY <1>4
    <3>2. "TREE" \notin root[j].holds
      BY <1>1, <3>1 DEF RootsAreKept
    <3>3. QED
      BY <1>5, <3>2
  <2>4. QED
    <3>1. job'[j].at = "FETCH"
      BY <1>3
    <3>2. QED
      BY <1>1, <2>1, <2>2, <2>3, <3>1 DEF RootsAreKept
<1>14. RefusalsAreExplained'
  <2>1. \A k \in Jobs : job'[k].why # "" => k # j /\ job'[k] = job[k] /\ root'[k] = root[k]
    BY <1>3, <1>5
  <2>2. together > 1 => together' > 1
    BY <1>1, <1>6 DEF Typed
  <2>3. QED
    BY <1>1, <1>2, <2>1, <2>2 DEF RefusalsAreExplained
<1>15. QED
  BY <1>6, <1>8, <1>9, <1>10, <1>11, <1>12, <1>13, <1>14 DEF RInv

\* It holds when no job has started.
LEMMA InitStartsIt == Init => RInv
<1> SUFFICES ASSUME Init PROVE RInv
  OBVIOUS
<1>1. /\ archive = [dest |-> 0, part |-> 0] /\ content = [i \in Inodes |-> "SHORT"]
      /\ unpacked = [tree |-> "NONE", marker |-> FALSE] /\ repo.at = "ABSENT"
      /\ repo \in [at : {"ABSENT"}, tip : {"PIN", "OTHER"}, paths : BOOLEAN,
                   files : {FALSE}, clean : {FALSE}]
      /\ together = 0
  BY DEF Init
<1>2. archive.dest = 0 /\ archive.part = 0 /\ ~unpacked.marker
  BY <1>1
<1>3. job \in [Jobs -> [at : {"START"}, kind : Kinds, inode : {0}, tries : {0}, why : {""}]]
  BY DEF Init
<1>4. \A j \in Jobs : /\ job[j].at = "START" /\ job[j].why = "" /\ job[j].tries = 0
                      /\ job[j] \in Job
  <2>1. 0 \in 0..Cardinality(Inodes)
    BY InodesAreNumbers, FetchersAreFinite
  <2>2. QED
    <3>1. \A j \in Jobs : job[j] \in [at : {"START"}, kind : Kinds, inode : {0},
                                      tries : {0}, why : {""}]
      BY <1>3
    <3>2. "START" \in Phases /\ "" \in Reasons
      BY DEF Phases, Ended, Reasons
    <3>3. [at : {"START"}, kind : Kinds, inode : {0}, tries : {0}, why : {""}] \subseteq Job
      <4> SUFFICES ASSUME NEW n \in [at : {"START"}, kind : Kinds, inode : {0},
                                     tries : {0}, why : {""}]
                   PROVE  n \in Job
        OBVIOUS
      <4>1. n.at = "START" /\ n.kind \in Kinds /\ n.inode = 0 /\ n.tries = 0 /\ n.why = ""
        OBVIOUS
      <4>2. /\ n.at \in Phases /\ n.inode \in 0..Cardinality(Inodes) /\ n.tries \in Nat
            /\ n.why \in Reasons
        <5>1. n.at \in Phases /\ n.why \in Reasons
          BY <3>2, <4>1
        <5>2. n.inode \in 0..Cardinality(Inodes)
          BY <2>1, <4>1, Zenon
        <5>3. n.tries \in Nat
          <6>1. PICK z : z = n.tries
            OBVIOUS
          <6>2. z = 0
            BY <4>1, <6>1, Zenon
          <6>3. z \in Nat
            BY <6>2
          <6>4. QED
            BY <6>1, <6>3, Zenon
        <5>4. QED
          BY <5>1, <5>2, <5>3
      <4>3. n = [at |-> n.at, kind |-> n.kind, inode |-> n.inode, tries |-> n.tries,
                 why |-> n.why]
        OBVIOUS
      <4>4. QED
        BY <4>1, <4>2, <4>3 DEF Job
    <3>4. QED
      BY <3>1, <3>3
<1>5. /\ DOMAIN root = Jobs /\ root = [j \in Jobs |-> root[j]]
      /\ \A j \in Jobs : root[j] \in NewRoot(job[j].kind)
  BY DEF Init
<1>6. \A j \in Jobs : root[j] \in RunRoot /\ "TREE" \notin root[j].holds
                      /\ root[j].replay = "NONE"
  BY <1>5, NewRootFacts
<1>7. Typed
  <2>1. archive \in [dest : 0..Cardinality(Inodes), part : 0..Cardinality(Inodes)]
    <3>1. 0 \in 0..Cardinality(Inodes)
      BY InodesAreNumbers, FetchersAreFinite
    <3>2. QED
      BY <1>1, <3>1
  <2>2. job \in [Jobs -> Job]
    BY <1>3, <1>4
  <2>3. root \in [Jobs -> RunRoot]
    BY <1>5, <1>6
  <2>4. repo \in Checkout
    BY <1>1 DEF Checkout
  <2>5. QED
    BY <1>1, <2>1, <2>2, <2>3, <2>4 DEF Typed
<1>8. PathsAreTaken
  BY <1>4 DEF PathsAreTaken, Unpacking, Preparing
<1>9. FilesAreDistinct
  BY <1>2 DEF FilesAreDistinct
<1>10. FetchesAreCounted
  <2>1. Fetchers = {}
    BY <1>4 DEF Fetchers, Fetching, Ended
  <2>2. QED
    BY <1>1, <2>1, FS_EmptySet DEF FetchesAreCounted
<1>11. OneFetch
  BY <1>1, <1>2, <1>4 DEF OneFetch
<1>12. TwoFetches
  BY <1>2, <1>4, <1>6 DEF TwoFetches
<1>13. RootsAreKept
  BY <1>4, <1>6 DEF RootsAreKept
<1>14. RefusalsAreExplained
  BY <1>4 DEF RefusalsAreExplained
<1>15. QED
  BY <1>7, <1>8, <1>9, <1>10, <1>11, <1>12, <1>13, <1>14 DEF RInv

\* Every step keeps it.
LEMMA StepKeepsIt == RInv /\ [Next]_vars => RInv'
<1> SUFFICES ASSUME RInv, [Next]_vars PROVE RInv'
  OBVIOUS
<1>1. CASE UNCHANGED vars
  <2>1. /\ archive' = archive /\ content' = content /\ unpacked' = unpacked /\ repo' = repo
        /\ job' = job /\ root' = root /\ together' = together
    BY <1>1 DEF vars
  <2>2. Typed' /\ PathsAreTaken' /\ FilesAreDistinct'
    BY <2>1 DEF RInv, Typed, PathsAreTaken, FilesAreDistinct
  <2>3. FetchesAreCounted'
    BY <2>1 DEF RInv, FetchesAreCounted, Fetchers, Fetching
  <2>4. OneFetch' /\ TwoFetches'
    BY <2>1 DEF RInv, OneFetch, TwoFetches, InPlace
  <2>5. RootsAreKept' /\ RefusalsAreExplained'
    BY <2>1 DEF RInv, RootsAreKept, RefusalsAreExplained
  <2>6. QED
    BY <2>2, <2>3, <2>4, <2>5 DEF RInv
<1>2. ASSUME NEW j \in Jobs,
             Begins(j) \/ Downloads(j) \/ Fetches(j) \/ Replays(j) \/ Killed(j)
      PROVE  RInv'
  <2>1. CASE Begins(j)
    BY <2>1, BeginsKeeps
  <2>2. CASE Downloads(j)
    BY <2>2, FindsFileKeeps, FindsNoneKeeps, UnlinksKeeps, OpensKeeps, CopiesKeeps,
       CopyFailsKeeps, DigestsKeeps, ReplacesKeeps DEF Downloads
  <2>3. CASE Fetches(j)
    BY <2>3, FindsMarkerKeeps, UntarsKeeps, MarksKeeps, FindsRepoKeeps, ClonesKeeps,
       WritesFilesKeeps, ChecksOutKeeps, VerifiesKeeps DEF Fetches
  <2>4. CASE Replays(j)
    BY <2>4, PreparesKeeps, ExtractsKeeps, PatchesKeeps, RecordsReplayKeeps,
       ExecutesKeeps DEF Replays
  <2>5. CASE Killed(j)
    BY <2>5, KilledKeeps
  <2>6. QED
    BY <1>2, <2>1, <2>2, <2>3, <2>4, <2>5
<1>3. QED
  BY <1>1, <1>2 DEF Next

\* The invariant holds of every run.
LEMMA RInvariant == Spec => []RInv
<1>1. Init => RInv
  BY InitStartsIt
<1>2. RInv /\ [Next]_vars => RInv'
  BY StepKeepsIt
<1>3. QED
  BY <1>1, <1>2, PTL DEF Spec
-----------------------------------------------------------------------------
\* For any number of jobs, however often they are killed and started again: while no two
\* fetches have run at the same time, what was fetched passes the manifest check, all but
\* a checkout cut short in a clone whose tip is the pinned revision (_download, _unpack
\* and _checkout of fetch_reproduction_sources.py, verify_sources of
\* check_reproduction_manifest.py).
THEOREM FetchesVerify == Spec => []FetchedSourcesVerify
<1>1. RInv => FetchedSourcesVerify
  <2> SUFFICES ASSUME RInv PROVE FetchedSourcesVerify
    OBVIOUS
  <2>1. TypeOK
    BY DEF RInv, Typed, TypeOK, Job, Checkout
  <2>2. ASSUME together <= 1
        PROVE  /\ archive.dest # 0 => InPlace = "PINNED"
               /\ unpacked.marker => unpacked.tree = "PINNED"
    BY <2>2 DEF RInv, OneFetch
  <2>3. ASSUME together <= 1, NEW j \in Jobs, job[j].kind = "HAND", job[j].at = "DONE"
        PROVE  SourceFailures \subseteq (IF repo.at # "CHECKED_OUT" /\ repo.tip = "PIN"
                                         THEN {"repo"} ELSE {})
    <3>1. archive.dest # 0 /\ InPlace = "PINNED"
      BY <2>2, <2>3 DEF RInv, PathsAreTaken
    <3>2. \/ repo.at = "CHECKED_OUT" /\ repo.files /\ repo.clean
          \/ repo.at = "CLONED" /\ repo.tip = "PIN"
      BY <2>3 DEF RInv, OneFetch
    <3>3. QED
      BY <3>1, <3>2 DEF SourceFailures, AtPin, HasFiles
  <2>4. QED
    BY <2>1, <2>2, <2>3 DEF FetchedSourcesVerify
<1>2. QED
  BY <1>1, RInvariant, PTL

\* While no three fetches have run at the same time, a replay that is recorded was
\* extracted whole from the pinned archive and runs the patched driver (prepare and
\* execute of run_landreman_original.py).
THEOREM RecordedReplaysArePinned == Spec => []ReplaysArePinned
<1>1. RInv => ReplaysArePinned
  <2> SUFFICES ASSUME RInv, together <= 2, NEW j \in Jobs, root[j].replay # "NONE"
               PROVE  /\ root[j].from = "PINNED" /\ root[j].patched
                      /\ root[j].replay # "prepared" => job[j].kind = "EXACT"
    BY DEF ReplaysArePinned
  <2>1. root[j].from = "PINNED"
    BY DEF RInv, TwoFetches
  <2>2. root[j].patched
    BY DEF RInv, RootsAreKept
  <2>3. root[j].replay \in {"prepared", "complete", "failed"}
    BY DEF RInv, Typed, RunRoot
  <2>4. root[j].replay # "prepared" => job[j].kind = "EXACT"
    BY <2>3 DEF RInv, RootsAreKept
  <2>5. QED
    BY <2>1, <2>2, <2>4
<1>2. QED
  BY <1>1, RInvariant, PTL

\* What no second try can repair (a MISMATCH, a REVISION, a root that is not empty) comes
\* of racing fetches, of a clone or checkout cut short, or of a run root used before
\* (_download, _checkout, prepare of run_landreman_original.py).
THEOREM RefusalsHaveCauses == Spec => []RefusalsAreExplained
<1>1. RInv => RefusalsAreExplained
  BY DEF RInv
<1>2. QED
  BY <1>1, RInvariant, PTL
=============================================================================
