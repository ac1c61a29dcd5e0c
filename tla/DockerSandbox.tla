---------------------------- MODULE DockerSandbox ----------------------------
(***************************************************************************)
(* One sandbox over the run's volume (runtime/sandbox_mgr.py): its          *)
(* container and Docker client from start to teardown, commands with        *)
(* timeouts, reads through the revision-aware cache, and the archives of    *)
(* workspace snapshots.                                                     *)
(*                                                                          *)
(* One node at a time uses a sandbox and each call returns before the next, *)
(* so a call is one step; what a call leaves behind can act between calls:  *)
(* a container that Docker did not remove, and a command that was given up  *)
(* or whose connection was lost.  A file has a version, 0 if it is not     *)
(* there, and the size of a version is the version.  What a snapshot holds  *)
(* is left to WorkspaceTransactions; the checks of paths and the metrics of *)
(* the cache are left out.                                                  *)
(***************************************************************************)
EXTENDS Naturals, Sequences, FiniteSets, FiniteSetsExt, SequencesExt

CONSTANTS
    Files,
    MaxVersion,   \* versions are 1..MaxVersion
    MaxEntries,   \* _READ_CACHE_MAX_ENTRIES
    MaxBytes,     \* _READ_CACHE_MAX_BYTES
    TestsWrite    \* the repository's tests may change files

\* Assumed of the constants where the module is instantiated.
SandboxAssumption == MaxVersion \in Nat \ {0} /\ MaxEntries \in Nat \ {0} /\ MaxBytes \in Nat \ {0}

VARIABLES
    volume,     \* the workspace
    archive,    \* a snapshot is in the volume
    container,  \* "none", "up" or "left" by a teardown that could not remove it
    client,     \* the Docker client is open
    alive,      \* _alive
    late,       \* a command that was given up still runs
    cache,      \* the entries of the read cache, the least recently used first
    bytes,      \* _cached_bytes
    behind,     \* history: files changed by nobody the sandbox knows of since the last invalidation
    current     \* history: every read so far returned what the file held

vars == <<volume, archive, container, client, alive, late, cache, bytes, behind, current>>

Trees == [Files -> 0..MaxVersion]
Cached(f) == \E i \in DOMAIN cache : cache[i].file = f

----------------------------------------------------------------------------
(* The cache. *)

\* WorkspaceReadCache.invalidate: a new revision has no entries.
Invalidated == cache' = <<>> /\ bytes' = 0 /\ behind' = {}

\* The n least recently used entries go.
Evicted(n) == SubSeq(cache, n + 1, Len(cache))
Freed(n) == bytes - MapThenSumSet(LAMBDA i : cache[i].value, 1..n)

\* What is left has no room for an entry of this size.
Crowded(n, size) == n < Len(cache) /\ (Len(cache) - n >= MaxEntries \/ Freed(n) + size > MaxBytes)
\* Entries go until the new one fits.
Room(size) ==
    CHOOSE n \in 0..Len(cache) : ~Crowded(n, size) /\ \A m \in 0..n - 1 : Crowded(m, size)

\* get_or_load, on a hit: the entry becomes the most recently used.
Hit(f) ==
    LET i == CHOOSE i \in DOMAIN cache : cache[i].file = f
    IN  /\ cache' = Append(RemoveAt(cache, i), cache[i]) /\ UNCHANGED bytes
        /\ current' = (current /\ cache[i].value \in {0, volume[f]})

\* get_or_load, on a miss: what was read is kept unless it is larger than the cache.
Miss(f, value) ==
    LET n == Room(value)
        fits == value <= MaxBytes
    IN  /\ cache' = IF fits THEN Append(Evicted(n), [file |-> f, value |-> value]) ELSE cache
        /\ bytes' = IF fits THEN Freed(n) + value ELSE bytes
        /\ UNCHANGED current

\* read_file: a read that Docker refuses gives nothing, and that is kept too.
Read(f) ==
    /\ Cached(f) => Hit(f)
    /\ ~Cached(f) => \E value \in {volume[f], 0} : (~alive => value = 0) /\ Miss(f, value)
    /\ UNCHANGED <<volume, archive, container, client, alive, late, behind>>

----------------------------------------------------------------------------
(* The container. *)

\* teardown: the container is killed and removed; what Docker refuses is only logged.
Down ==
    /\ \/ container' = "none"
       \/ container # "none" /\ container' = "left"
    /\ UNCHANGED late
    /\ client' = FALSE /\ alive' = FALSE
    /\ Invalidated

Teardown == Down /\ UNCHANGED <<volume, archive, current>>

\* start, when pulling the image, running the container, pinning npm or making the
\* workspace fails: the teardown removes what there is.
StartFails(created) ==
    /\ client' = FALSE /\ alive' = FALSE /\ Invalidated /\ UNCHANGED late
    /\ \/ container' = "none"
       \/ created /\ container' = "left"

\* start: a container over the named volume.  The repository was copied before.
Start ==
    /\ container = "none" /\ ~alive
    /\ \/ container' = "up" /\ client' = TRUE /\ alive' = TRUE /\ Invalidated /\ UNCHANGED late
       \/ \E created \in BOOLEAN : StartFails(created)
    /\ UNCHANGED <<volume, archive, current>>

\* The next node opens a sandbox of its own, with its own cache.  What was left stays.
Reopen == ~alive /\ container' = "none" /\ client' = FALSE /\ Invalidated
          /\ UNCHANGED <<volume, archive, alive, late, current>>

\* restart: a teardown and a start.
Restart ==
    /\ alive
    /\ \/ container' = "up" /\ client' = TRUE /\ alive' = TRUE /\ Invalidated /\ UNCHANGED late
       \/ Down
    /\ UNCHANGED <<volume, archive, current>>

----------------------------------------------------------------------------
(* Commands. *)

\* A command that was given up: the sandbox is torn down, and where Docker does not kill
\* the container the command goes on.
GivenUp ==
    /\ client' = FALSE /\ alive' = FALSE /\ Invalidated
    /\ \/ container' = "none" /\ UNCHANGED late
       \/ container' = "left" /\ late' \in BOOLEAN

\* run: the command ends and leaves one of the trees, the connection to Docker is lost and
\* the command goes on in the live container, or it does not end in time.  A sandbox that
\* is not alive answers with a failure.
Run(trees) ==
    IF ~alive THEN Invalidated /\ UNCHANGED <<volume, archive, container, client, alive, late, current>>
    ELSE /\ volume' \in trees /\ UNCHANGED <<archive, current>>
         /\ \/ Invalidated /\ late' \in {late, TRUE} /\ UNCHANGED <<container, client, alive>>
            \/ GivenUp

\* A command of a worker or of QA changes what it likes.
Edits == {[volume EXCEPT ![f] = v] : f \in Files, v \in 0..MaxVersion}
Command == Run({volume} \cup Edits)

\* run_readonly: the cache stays.  Tests and smoke gates of the repository also come this
\* way (tools_validation.py:354, :902).
Readonly ==
    /\ alive
    /\ \/ volume' = volume
       \/ TestsWrite /\ volume' \in Edits
    /\ \/ /\ behind' = behind \cup {f \in Files : volume'[f] # volume[f]}
          /\ UNCHANGED <<container, client, alive, late, cache, bytes>>
       \/ GivenUp
    /\ UNCHANGED <<archive, current>>

\* Mutant: the cache is emptied only when a write was confirmed.
WriteAfterwards(tree) ==
    /\ alive /\ volume' = tree /\ behind' = behind
    /\ UNCHANGED <<archive, container, client, alive, late, cache, bytes, current>>

\* write_file: the archive is put into the volume, or Docker drops it without a word.
Write(tree) ==
    /\ alive /\ volume' = tree
    /\ Invalidated
    /\ UNCHANGED <<archive, container, client, alive, late, current>>

\* write_files: one archive for several files.
WriteFiles == \E tree \in Trees : Write(tree)
WriteFile == \E tree \in {volume} \cup Edits : Write(tree)

\* A command nobody waits for goes on.
Late ==
    /\ late /\ \E tree \in Edits : volume' = tree
    /\ behind' = behind \cup {f \in Files : volume'[f] # volume[f]}
    /\ late' \in BOOLEAN
    /\ UNCHANGED <<archive, container, client, alive, cache, bytes, current>>

----------------------------------------------------------------------------
(* Snapshots. *)

\* create_workspace_snapshot: the old archive goes first; an archive is taken as valid
\* once it can be listed.
Snapshot ==
    /\ alive /\ UNCHANGED <<volume, current>>
    /\ \/ archive' \in BOOLEAN /\ Invalidated /\ UNCHANGED <<container, client, alive, late>>
       \/ archive' \in {FALSE, archive} /\ GivenUp

\* restore_workspace_snapshot: the workspace is emptied and the archive extracted; each
\* command may fail or be given up half way.
Restore ==
    /\ alive
    /\ Run(IF archive THEN Trees ELSE {volume})

\* remove_workspace_snapshot and cleanup_workspace_snapshots
Forget == /\ alive /\ archive' \in {FALSE, archive} /\ UNCHANGED <<volume, current>>
          /\ \/ Invalidated /\ UNCHANGED <<container, client, alive, late>>
             \/ GivenUp

Init ==
    /\ volume = [f \in Files |-> 1] /\ archive = FALSE /\ container = "none" /\ client = FALSE
    /\ alive = FALSE /\ late = FALSE /\ cache = <<>> /\ bytes = 0
    /\ behind = {} /\ current = TRUE

Next ==
    \/ Start \/ Teardown \/ Reopen \/ Restart
    \/ Command \/ Readonly \/ WriteFile \/ WriteFiles \/ Late
    \/ Snapshot \/ Restore \/ Forget
    \/ \E f \in Files : Read(f)
Spec == Init /\ [][Next]_vars

----------------------------------------------------------------------------
(* What the sandbox promises. *)

\* What the cache holds is what the file holds or nothing, for every file that was not
\* changed behind the sandbox's back: each mutation the sandbox knows of empties it, also
\* one that failed or was given up.
CacheIsTrue == \A i \in DOMAIN cache : cache[i].file \in behind \/ cache[i].value \in {0, volume[cache[i].file]}

\* Does not hold (README, Known deviations): a read returns what the file holds, "the
\* revision key prevents content from surviving an explicit workspace mutation" (sandbox_mgr.py:62).
ReadsAreCurrent == current
=============================================================================
