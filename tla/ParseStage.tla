----------------------------- MODULE ParseStage -----------------------------
(***************************************************************************)
(* The parse stage of the drive loop on its own: the queue of statsbooks   *)
(* drained in batches of BatchLimit, and the on-disk cache of downloaded   *)
(* bytes (GAME_DATA_DIR set).  Pipeline has the other half: what a parse   *)
(* does to the tables and who else touches them.                           *)
(*                                                                         *)
(* Time is counted in uploads: the n-th upload to Drive happens at time n, *)
(* and what happens between two uploads happens at the time of the first.  *)
(* The clock of the server and that of Drive are the same clock.           *)
(*                                                                         *)
(* The content of a file is the revision that wrote it; kind says what the *)
(* parser makes of a revision: a game, an empty placeholder, or an error.  *)
(***************************************************************************)
EXTENDS Naturals, FiniteSets

CONSTANTS
  Files,       \* drive_file_id values, ordered
  BatchLimit,  \* PARSE_BATCH_LIMIT
  Histories,   \* what the uploads may hold: a set of functions from revisions
  MaxUploads,  \* bound on uploads and re-uploads
  MaxFaults    \* bound on failed requests and writes, crashes and deploys

Kinds == {"game", "empty", "bad"}

ASSUME ParseStageAssumption ==
  /\ Files \subseteq Nat /\ IsFiniteSet(Files)
  /\ BatchLimit \in Nat \ {0}
  /\ MaxUploads \in Nat /\ MaxFaults \in Nat
  /\ Histories \subseteq [1..MaxUploads -> Kinds]

VARIABLES
  uploads,   \* number of uploads so far: the time
  rev,       \* per file: Drive's modifiedTime, the upload that wrote it, or 0
  onDrive,   \* files the listing returns
  kind,      \* per revision: what the parser makes of it
  status,    \* statsbooks.parse_status, or "absent"
  mtime,     \* statsbooks.modified_time
  outdated,  \* files with parser_version < PARSER_VERSION
  stored,    \* per file: the revision whose parsed rows are stored, or 0
  cache,     \* per file: revision and write time of the cached bytes, or 0
  stage,     \* "index", "clean", "select", "batch": where the loop stands
  doomed,    \* retracted files whose cached bytes are still to be removed
  phase,     \* per file of the batch: "queued", "fetched", "ready" or "out"
  bytes,     \* per file of the batch: the revision in hand, or 0
  selected,  \* size of the batch
  succeeded, \* files of the batch that reached a terminal state
  faults,    \* number of faults so far
  quiet,     \* history: no fault and no user since the drain began
  raced      \* history: files uploaded between their last download and its cache
             \* write, or the one before if the last was of unreadable cached bytes

driveVars == <<uploads, rev, onDrive, kind>>
rowVars   == <<status, mtime, outdated, stored>>
batchVars == <<phase, bytes, selected, succeeded>>
vars == <<driveVars, rowVars, cache, stage, doomed, batchVars, faults, quiet, raced>>

NoCache == [rev |-> 0, time |-> 0]
AllOut  == [f \in Files |-> "out"]
NoBytes == [f \in Files |-> 0]

Init ==
  /\ uploads = 0
  /\ rev = [f \in Files |-> 0]
  /\ onDrive = {}
  /\ kind \in Histories
  /\ status = [f \in Files |-> "absent"]
  /\ mtime = [f \in Files |-> 0]
  /\ outdated = {}
  /\ stored = [f \in Files |-> 0]
  /\ cache = [f \in Files |-> NoCache]
  /\ stage = "select"
  /\ doomed = {}
  /\ phase = AllOut /\ bytes = NoBytes
  /\ selected = 0 /\ succeeded = 0
  /\ faults = 0
  /\ quiet = TRUE
  /\ raced = {}

\* Rows, cache entries and batches are well formed; a cache entry holds a revision
\* that exists and is never stamped with a time to come.
TypeOK ==
  /\ uploads \in 0..MaxUploads
  /\ rev \in [Files -> 0..MaxUploads]
  /\ onDrive \in SUBSET Files
  /\ kind \in Histories
  /\ status \in [Files -> {"absent", "pending", "parsed", "failed", "skipped"}]
  /\ mtime \in [Files -> 0..MaxUploads]
  /\ outdated \in SUBSET Files
  /\ stored \in [Files -> 0..MaxUploads]
  /\ cache \in [Files -> [rev : 0..uploads, time : 0..uploads]]
  /\ stage \in {"index", "clean", "select", "batch"}
  /\ doomed \in SUBSET Files
  /\ phase \in [Files -> {"queued", "fetched", "ready", "out"}]
  /\ bytes \in [Files -> 0..MaxUploads]
  /\ selected \in Nat /\ succeeded \in Nat
  /\ faults \in 0..MaxFaults
  /\ quiet \in BOOLEAN
  /\ raced \in SUBSET Files

-----------------------------------------------------------------------------
Fault ==
  /\ faults < MaxFaults
  /\ faults' = faults + 1
  /\ quiet' = FALSE

(* Drive users *)

Upload(f) ==
  /\ uploads < MaxUploads
  /\ rev[f] = 0 \/ f \in onDrive
  /\ uploads' = uploads + 1
  /\ rev' = [rev EXCEPT ![f] = uploads + 1]
  /\ onDrive' = onDrive \cup {f}
  /\ raced' = IF phase[f] = "fetched" THEN raced \cup {f} ELSE raced
  /\ quiet' = FALSE
  /\ UNCHANGED <<kind, rowVars, cache, stage, doomed, batchVars, faults>>

\* Into the trash or out of it.
Move(f) ==
  /\ rev[f] # 0
  /\ onDrive' = IF f \in onDrive THEN onDrive \ {f} ELSE onDrive \cup {f}
  /\ quiet' = FALSE
  /\ UNCHANGED <<uploads, rev, kind, rowVars, cache, stage, doomed, batchVars, faults, raced>>

-----------------------------------------------------------------------------
(* Index *)

\* A whole index run: upsert what is listed, delete what is not.
Index ==
  /\ stage = "index"
  /\ LET new == {f \in onDrive : status[f] = "absent" \/ mtime[f] # rev[f]}
         \* Whether the row survives the run; a row that does not takes its
         \* parsed rows with it.
         Keep(table, gone) == [f \in Files |-> IF f \in onDrive THEN table[f] ELSE gone]
     IN  /\ status' = [f \in Files |-> IF f \in new THEN "pending"
                                       ELSE Keep(status, "absent")[f]]
         /\ mtime' = Keep(rev, 0)
         /\ outdated' = (outdated \cap onDrive) \ new
         /\ stored' = Keep(stored, 0)
         /\ doomed' = {f \in Files \ onDrive : status[f] # "absent"}
  /\ stage' = "clean"
  /\ UNCHANGED <<driveVars, cache, batchVars, faults, quiet, raced>>

\* The rows are gone before the cache files are: a crash leaves orphans.
RemoveCached(f) ==
  /\ stage = "clean"
  /\ f \in doomed
  /\ doomed' = doomed \ {f}
  /\ cache' = [cache EXCEPT ![f] = NoCache]
  /\ UNCHANGED <<driveVars, rowVars, stage, batchVars, faults, quiet, raced>>

StartDrain ==
  /\ stage = "clean" /\ doomed = {}
  /\ stage' = "select"
  /\ quiet' = TRUE
  /\ UNCHANGED <<driveVars, rowVars, cache, doomed, batchVars, faults, raced>>

-----------------------------------------------------------------------------
(* Draining the queue *)

NeedsParse == {f \in Files : status[f] \in {"pending", "failed"}}
              \cup {f \in outdated : status[f] # "absent"}

\* ORDER BY modified_time, drive_file_id LIMIT BatchLimit
Precedes(f, g) == mtime[f] < mtime[g] \/ (mtime[f] = mtime[g] /\ f < g)

Batch == {f \in NeedsParse : Cardinality({g \in NeedsParse : Precedes(g, f)}) < BatchLimit}

Select ==
  /\ stage = "select"
  /\ stage' = "batch"
  /\ phase' = [f \in Files |-> IF f \in Batch THEN "queued" ELSE "out"]
  /\ selected' = Cardinality(Batch)
  /\ UNCHANGED <<driveVars, rowVars, cache, doomed, bytes, succeeded, faults, quiet, raced>>

\* The SELECT fails and counts as an empty batch.
SelectFails ==
  /\ Fault
  /\ stage = "select"
  /\ stage' = "index"
  /\ UNCHANGED <<driveVars, rowVars, cache, doomed, batchVars, raced>>

\* Seeded fault: any cached bytes will do.
FreshIfPresent(f) == cache[f].rev # 0

\* cache_is_fresh: written at or after the modified time of the row.
Fresh(f) == cache[f].rev # 0 /\ cache[f].time >= mtime[f]

SetFailed(f) ==
  /\ status' = [status EXCEPT ![f] = "failed"]
  /\ phase' = [phase EXCEPT ![f] = "out"]
  /\ bytes' = [bytes EXCEPT ![f] = 0]
  /\ UNCHANGED <<mtime, outdated, stored, selected, succeeded>>

ReadCached(f) ==
  /\ phase[f] = "queued"
  /\ Fresh(f)
  /\ bytes' = [bytes EXCEPT ![f] = cache[f].rev]
  /\ phase' = [phase EXCEPT ![f] = "ready"]
  /\ UNCHANGED <<driveVars, rowVars, cache, stage, doomed, selected, succeeded, faults,
                 quiet, raced>>

\* Drive answers with the content it holds when the request arrives.
Fetch(f) ==
  IF f \in onDrive
  THEN /\ bytes' = [bytes EXCEPT ![f] = rev[f]]
       /\ phase' = [phase EXCEPT ![f] = "fetched"]
       /\ UNCHANGED <<rowVars, selected, succeeded>>
  ELSE SetFailed(f)

Download(f) ==
  /\ phase[f] = "queued"
  /\ ~ Fresh(f)
  /\ Fetch(f)
  /\ raced' = raced \ {f}
  /\ UNCHANGED <<driveVars, cache, stage, doomed, faults, quiet>>

\* The body has arrived and is written through; its file gets the time of now.
WriteThrough(f) ==
  /\ phase[f] = "fetched"
  /\ cache' = [cache EXCEPT ![f] = [rev |-> bytes[f], time |-> uploads]]
  /\ phase' = [phase EXCEPT ![f] = "ready"]
  /\ UNCHANGED <<driveVars, rowVars, stage, doomed, bytes, selected, succeeded, faults,
                 quiet, raced>>

\* Parse and store; a success also sets parser_version.
Store(f) ==
  /\ phase[f] = "ready"
  /\ IF kind[bytes[f]] = "bad"
     THEN SetFailed(f)
     ELSE /\ status' = [status EXCEPT ![f] = IF kind[bytes[f]] = "game" THEN "parsed"
                                                                       ELSE "skipped"]
          /\ stored' = [stored EXCEPT ![f] = IF kind[bytes[f]] = "game" THEN bytes[f] ELSE 0]
          /\ outdated' = outdated \ {f}
          /\ phase' = [phase EXCEPT ![f] = "out"]
          /\ bytes' = [bytes EXCEPT ![f] = 0]
          /\ succeeded' = succeeded + 1
          /\ UNCHANGED <<mtime, selected>>
  /\ UNCHANGED <<driveVars, cache, stage, doomed, faults, quiet, raced>>

\* Seeded fault: a full batch goes on to the next one whatever it achieved.
DrainGoesOnRegardless == selected = BatchLimit

\* Seeded fault: a full batch must succeed on every row.
DrainGoesOnIfAllOk == selected = BatchLimit /\ succeeded = BatchLimit

\* A full batch that succeeded on something is followed by another.
DrainGoesOn == selected = BatchLimit /\ succeeded # 0

EndBatch ==
  /\ stage = "batch"
  /\ phase = AllOut
  /\ stage' = IF DrainGoesOn THEN "select" ELSE "index"
  /\ selected' = 0 /\ succeeded' = 0
  /\ UNCHANGED <<driveVars, rowVars, cache, doomed, phase, bytes, faults, quiet, raced>>

-----------------------------------------------------------------------------
(* Faults *)

\* A download or a store transaction fails; recording it can fail too.
Fails(f) ==
  /\ Fault
  /\ phase[f] \in {"queued", "ready"}
  /\ SetFailed(f) \/ /\ phase' = [phase EXCEPT ![f] = "out"]
                     /\ bytes' = [bytes EXCEPT ![f] = 0]
                     /\ UNCHANGED <<rowVars, selected, succeeded>>
  /\ UNCHANGED <<driveVars, cache, stage, doomed, raced>>

\* Cached bytes that are fresh and cannot be read are downloaded anew.  Until they
\* are overwritten a later parse may still be served the old entry.
ReadCachedFails(f) ==
  /\ Fault
  /\ phase[f] = "queued"
  /\ Fresh(f)
  /\ Fetch(f)
  /\ UNCHANGED <<driveVars, cache, stage, doomed, raced>>

\* The disk is full or the directory is gone: the parse has the bytes anyway.
WriteThroughFails(f) ==
  /\ Fault
  /\ phase[f] = "fetched"
  /\ phase' = [phase EXCEPT ![f] = "ready"]
  /\ UNCHANGED <<driveVars, rowVars, cache, stage, doomed, bytes, selected, succeeded, raced>>

\* The process restarts, perhaps as a release with a higher PARSER_VERSION.
Restart ==
  /\ faults < MaxFaults
  /\ faults' = faults + 1
  /\ stage' = "select"
  /\ quiet' = TRUE
  /\ doomed' = {}
  /\ phase' = AllOut /\ bytes' = NoBytes
  /\ selected' = 0 /\ succeeded' = 0
  /\ outdated' \in {outdated, {f \in Files : status[f] \in {"parsed", "skipped"}}}
  /\ UNCHANGED <<driveVars, status, mtime, stored, cache, raced>>

Loop ==
  \/ Index \/ StartDrain \/ Select \/ EndBatch
  \/ \E f \in Files : \/ RemoveCached(f)
                      \/ ReadCached(f) \/ Download(f) \/ WriteThrough(f) \/ Store(f)

Next ==
  \/ Loop
  \/ \E f \in Files : Upload(f) \/ Move(f) \/ Fails(f) \/ ReadCachedFails(f) \/ WriteThroughFails(f)
  \/ SelectFails \/ Restart

Spec == Init /\ [][Next]_vars

\* The loop is one task whose awaits all return.
FairSpec == Spec /\ WF_vars(Loop)

-----------------------------------------------------------------------------
(* Properties *)

\* A parse of the row would fail now: of the bytes it would use.
WouldFail(f) == IF Fresh(f) THEN kind[cache[f].rev] = "bad"
                ELSE f \notin onDrive \/ kind[rev[f]] = "bad"

Failing == {f \in NeedsParse : WouldFail(f)}

\* A drain that neither a fault nor a user disturbs leaves only rows that cannot
\* be parsed, as long as those do not fill a batch: however many batches the
\* queue takes and whatever the cache holds, no row is left for a later cycle.
DrainParsesTheRest ==
  stage = "index" /\ quiet /\ Cardinality(Failing) < BatchLimit => NeedsParse = Failing

\* Cached bytes never bring back an older revision: a row parsed under the
\* modified time Drive has holds that revision, except after an upload between
\* the download of the file and the write of its cache entry.  Retractions,
\* crashes that orphan cache files, failed writes and releases do not matter.
CacheServesTheRevision ==
  \A f \in Files \ raced : status[f] = "parsed" /\ mtime[f] = rev[f] => stored[f] = rev[f]

\* drain_pending does not loop for ever: permanently failing rows, which are
\* selected again by every batch, cannot keep it from the next index.
DrainsEnd == []<>(stage = "index")

-----------------------------------------------------------------------------
(* Statements of the documentation that the code does not keep *)

\* data_cache.rs: "a re-upload changes modified_time and misses it".
ReuploadMissesCache ==
  \A f \in Files : status[f] = "parsed" /\ mtime[f] = rev[f] => stored[f] = rev[f]
=============================================================================
