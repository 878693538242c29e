------------------------------ MODULE Pipeline ------------------------------
(***************************************************************************)
(* The two background loops of the server over the shared tables:          *)
(*                                                                         *)
(*   "drive"  drain the parse queue, resolve; then for ever: index Drive,  *)
(*            drain the parse queue, resolve, sleep                        *)
(*   "wftda"  for ever: sync WFTDA games, resolve if that worked, sleep    *)
(*                                                                         *)
(* Nothing excludes the two resolve passes from each other or from the     *)
(* index and parse writes.  A pass reads its inputs with plain SELECTs,    *)
(* then writes one transaction per chunk, then reads the duplicates, then  *)
(* hides them: each of these is a step here, and another loop, a Drive     *)
(* user or a crash can act between any two.                                *)
(*                                                                         *)
(* The model has no byte cache (GAME_DATA_DIR unset, see ParseStage) and   *)
(* fewer files than PARSE_BATCH_LIMIT, so a drain is one batch.            *)
(***************************************************************************)
EXTENDS StatsbookTables

CONSTANTS
  Uploads,    \* the contents Drive users upload (a subset of Contents)
  MaxEdits,   \* bound on the changes Drive users make and WFTDA's corrections
  MaxFaults,  \* bound on crashes, failed requests and failed transactions
  MaxEvents   \* bound on the two together

ASSUME PipelineAssumption ==
  /\ Uploads \subseteq Contents
  /\ MaxEdits \in Nat
  /\ MaxFaults \in Nat
  /\ MaxEvents \in Nat

Loops == {"drive", "wftda"}

VARIABLES
  \* Google Drive
  onDrive,   \* files the listing would return
  rev,       \* Drive's modifiedTime of a file: the edit that wrote it, or 0
  bytes,     \* content of a file
  edits,     \* number of user edits and corrections so far
  \* the loops
  pc,        \* where each loop stands
  listing,   \* drive: modified times in the listing in hand, 0 if not listed
  seen,      \* drive: files upserted by this index run (last_seen >= marker)
  tried,     \* drive: files this drain has downloaded or given up
  fetched,   \* drive: bytes downloaded and not yet stored
  known,     \* per loop: the games its resolve pass read
  book,      \* per loop: the parsed statsbooks its resolve pass read
  left,      \* per loop: statsbooks the pass has still to write
  losers,    \* per loop: duplicates read and not yet hidden
  faults,    \* number of faults so far
  outcome    \* history: how the last resolve pass of each loop went

driveVars == <<onDrive, rev, bytes, edits>>
indexVars == <<listing, seen, tried, fetched>>
passVars  == <<known, book, left, losers>>
vars == <<tables, driveVars, pc, indexVars, passVars, faults, outcome>>

Stages == {"drain", "read_games", "read_books", "write", "hide", "sleep",
           "upsert"}

\* "none": no pass yet, or it failed, or the loop is in another stage since;
\* "alone": nobody else wrote a table since the pass began; or "overlapped".
Outcomes == {"none", "alone", "overlapped"}

NoBooks   == [f \in Files |-> "absent"]
NoListing == [f \in Files |-> 0]

\* The tables, Drive and the buffers of the loops hold what they may; no parse,
\* skip or failure stores rows of a placeholder or of an unreadable file.
TypeOK ==
  /\ TablesTypeOK
  /\ onDrive \in SUBSET Files
  /\ rev     \in [Files -> Nat]
  /\ bytes   \in [Files -> Contents \cup {"absent"}]
  /\ edits   \in 0..MaxEdits
  /\ pc      \in [Loops -> Stages]
  /\ listing \in [Files -> Nat]
  /\ seen    \in SUBSET Files
  /\ tried   \in SUBSET Files
  /\ fetched \in [Files -> Contents \cup {"absent"}]
  /\ known   \in [Loops -> GameRows]
  /\ book    \in [Loops -> [Files -> Parseable \cup {"absent"}]]
  /\ left    \in [Loops -> SUBSET Files]
  /\ losers  \in [Loops -> SUBSET Files]
  /\ faults  \in 0..MaxFaults
  /\ outcome \in [Loops -> Outcomes]

Init ==
  /\ TablesInit
  /\ onDrive = {}
  /\ rev     = [f \in Files |-> 0]
  /\ bytes   = [f \in Files |-> "absent"]
  /\ edits   = 0
  /\ pc      = [l \in Loops |-> IF l = "drive" THEN "drain" ELSE "sleep"]
  /\ listing = NoListing
  /\ seen    = {}
  /\ tried   = {}
  /\ fetched = NoBooks
  /\ known   = [l \in Loops |-> NoGames]
  /\ book    = [l \in Loops |-> NoBooks]
  /\ left    = [l \in Loops |-> {}]
  /\ losers  = [l \in Loops |-> {}]
  /\ faults  = 0
  /\ outcome = [l \in Loops |-> "none"]

-----------------------------------------------------------------------------
(* Drive users *)

Edit ==
  /\ edits < MaxEdits /\ edits + faults < MaxEvents
  /\ edits' = edits + 1
  /\ UNCHANGED <<tables, pc, indexVars, passVars, faults, outcome>>

\* A first upload or a re-upload under the same file id.
Upload(f, content) ==
  /\ Edit
  /\ rev[f] = 0 \/ f \in onDrive
  /\ onDrive' = onDrive \cup {f}
  /\ rev'     = [rev EXCEPT ![f] = edits + 1]
  /\ bytes'   = [bytes EXCEPT ![f] = content]

Trash(f) ==
  /\ Edit
  /\ f \in onDrive
  /\ onDrive' = onDrive \ {f}
  /\ UNCHANGED <<rev, bytes>>

\* Out of the trash, with the modified time it went in with; not counted as an
\* edit, since only what was trashed can come back.
Restore(f) ==
  /\ rev[f] # 0 /\ f \notin onDrive
  /\ onDrive' = onDrive \cup {f}
  /\ UNCHANGED <<rev, bytes, edits, tables, pc, indexVars, passVars, faults, outcome>>

-----------------------------------------------------------------------------
(* Moves of a loop *)

Goto(l, from, to) ==
  /\ pc[l] = from
  /\ pc' = [pc EXCEPT ![l] = to]

Fault ==
  /\ faults < MaxFaults /\ edits + faults < MaxEvents
  /\ faults' = faults + 1

\* A write by loop l: a pass the other loop has begun is no longer alone.
Writes(l) ==
  outcome' = [m \in Loops |-> IF m # l /\ outcome[m] = "alone"
                              THEN "overlapped" ELSE outcome[m]]

-----------------------------------------------------------------------------
(* The drive loop: index *)

\* The sleep is over; the whole tree is listed before the first upsert.
ListDrive ==
  /\ Goto("drive", "sleep", "upsert")
  /\ listing' = [f \in Files |-> IF f \in onDrive THEN rev[f] ELSE 0]
  /\ seen' = {}
  /\ outcome' = [outcome EXCEPT !["drive"] = "none"]
  /\ UNCHANGED <<tables, driveVars, tried, fetched, passVars, faults>>

Listed == {f \in Files : listing[f] # 0}

IndexFile(f) ==
  /\ pc["drive"] = "upsert"
  /\ f \in Listed \ seen
  /\ UpsertStatsbook(f, listing[f])
  /\ seen' = seen \cup {f}
  /\ Writes("drive")
  /\ UNCHANGED <<driveVars, pc, listing, tried, fetched, passVars, faults>>

\* Every listed file is upserted: what was not seen is retracted.
FinishIndex ==
  /\ Goto("drive", "upsert", "drain")
  /\ Listed \subseteq seen
  /\ MarkRemoved(seen)
  /\ listing' = NoListing /\ seen' = {}
  /\ Writes("drive")
  /\ UNCHANGED <<driveVars, tried, fetched, passVars, faults>>

\* Seeded fault: a failed listing retracts what it has not seen.
IndexFailsRetracting ==
  /\ Fault
  /\ Goto("drive", "upsert", "drain")
  /\ MarkRemoved(seen)
  /\ listing' = NoListing /\ seen' = {}
  /\ UNCHANGED <<driveVars, tried, fetched, passVars, outcome>>

\* A listing page, a timestamp or an upsert fails: no retraction, and the loop
\* goes on to parse what the index already holds.
IndexFails ==
  /\ Fault
  /\ Goto("drive", "upsert", "drain")
  /\ listing' = NoListing /\ seen' = {}
  /\ UNCHANGED <<tables, driveVars, tried, fetched, passVars, outcome>>

-----------------------------------------------------------------------------
(* The drive loop: parse *)

\* Seeded fault: failed rows are not selected again.
QueueNew == {f \in Files : status[f] = "pending"} \ tried

\* The SELECT of a batch.  The files of one drain leave the set only by being
\* handled, as no other loop changes a status.
Queue == {f \in Files : status[f] \in {"pending", "failed"}} \ tried

\* Download of one queued file, of several in flight at once.  The bytes are
\* those Drive holds now, whatever revision the index row names.  A file that
\* left the folder may or may not still be downloadable.
Download(f) ==
  /\ pc["drive"] = "drain"
  /\ f \in Queue
  /\ tried' = tried \cup {f}
  /\ \/ /\ fetched' = [fetched EXCEPT ![f] = bytes[f]]
        /\ UNCHANGED <<tables, outcome>>
     \/ /\ f \notin onDrive
        /\ SetFailed(f)
        /\ Writes("drive")
        /\ UNCHANGED fetched
  /\ UNCHANGED <<driveVars, pc, listing, seen, passVars, faults>>

\* Parse and store of the downloaded bytes.
Store(f) ==
  /\ fetched[f] # "absent"
  /\ fetched' = [fetched EXCEPT ![f] = "absent"]
  /\ \/ StoreParsedGame(f, fetched[f])
     \/ fetched[f] = Placeholder /\ MarkSkipped(f)
     \/ fetched[f] = Unreadable /\ SetFailed(f)
  /\ Writes("drive")
  /\ UNCHANGED <<driveVars, pc, listing, seen, tried, passVars, faults>>

\* The download or the transaction fails; recording that can fail too.
ParseFails(f) ==
  /\ Fault
  /\ pc["drive"] = "drain"
  /\ f \in Queue \/ fetched[f] # "absent"
  /\ tried' = tried \cup {f}
  /\ fetched' = [fetched EXCEPT ![f] = "absent"]
  /\ SetFailed(f) \/ UNCHANGED tables
  /\ Writes("drive")
  /\ UNCHANGED <<driveVars, pc, listing, seen, passVars>>

\* The SELECT fails and counts as an empty batch.
SelectFails ==
  /\ Fault
  /\ Goto("drive", "drain", "read_games")
  /\ tried = {} /\ fetched = NoBooks
  /\ UNCHANGED <<tables, driveVars, indexVars, passVars, outcome>>

FinishDrain ==
  /\ Goto("drive", "drain", "read_games")
  /\ Queue = {} /\ fetched = NoBooks
  /\ tried' = {}
  /\ UNCHANGED <<tables, driveVars, listing, seen, fetched, passVars, faults, outcome>>

-----------------------------------------------------------------------------
(* The wftda loop: sync *)

\* WFTDA has corrected the result of a game that is known already.
Corrects(scanned) == \E g \in Games : games[g] # "absent" /\ scanned[g] \notin {"absent", games[g]}

\* The process has started or the sleep is over.  A correction counts as an
\* edit: WFTDA makes as few of them as the users make changes.
Scan(scanned) ==
  /\ Goto("wftda", "sleep", "read_games")
  /\ SyncGames(scanned)
  /\ IF Corrects(scanned)
     THEN edits < MaxEdits /\ edits + faults < MaxEvents /\ edits' = edits + 1
     ELSE UNCHANGED edits
  /\ outcome' = [drive |-> IF outcome["drive"] = "alone" THEN "overlapped"
                                                       ELSE outcome["drive"],
                  wftda |-> "none"]
  /\ UNCHANGED <<onDrive, rev, bytes, indexVars, passVars, faults>>

\* A failed scan stores nothing and skips the resolve.
ScanFails ==
  /\ Fault
  /\ pc["wftda"] = "sleep"
  /\ outcome' = [outcome EXCEPT !["wftda"] = "none"]
  /\ UNCHANGED <<tables, driveVars, pc, indexVars, passVars>>

-----------------------------------------------------------------------------
(* The resolve pass of either loop *)

\* SELECT of teams and games.  The two statements are one step: a game whose
\* teams are not in the first result is left out, as if it had come later.  (A
\* correction between the two that brings in a team as new is not modelled.)
ReadGames(l) ==
  /\ Goto(l, "read_games", "read_books")
  /\ known' = [known EXCEPT ![l] = games]
  /\ outcome' = [outcome EXCEPT ![l] = "alone"]
  /\ UNCHANGED <<tables, driveVars, indexVars, book, left, losers, faults>>

\* SELECT of the parsed statsbooks.
ReadBooks(l) ==
  /\ Goto(l, "read_books", "write")
  /\ book' = [book EXCEPT ![l] = parsed]
  /\ left' = [left EXCEPT ![l] = {f \in Files : parsed[f] # "absent"}]
  /\ UNCHANGED <<tables, driveVars, indexVars, known, losers, faults, outcome>>

\* The next WRITE_BATCH statsbooks in id order.
Chunk(l) == {f \in left[l] : Cardinality({g \in left[l] : g < f}) < WriteBatch}

WriteNextChunk(l) ==
  /\ pc[l] = "write"
  /\ left[l] # {}
  /\ WriteChunk(Chunk(l), book[l], known[l])
  /\ left' = [left EXCEPT ![l] = @ \ Chunk(l)]
  /\ Writes(l)
  /\ UNCHANGED <<driveVars, pc, indexVars, known, book, losers, faults>>

\* Back to sleep with the buffers of the pass dropped.
EndPass(l) ==
  /\ pc' = [pc EXCEPT ![l] = "sleep"]
  /\ known'  = [known EXCEPT ![l] = NoGames]
  /\ book'   = [book EXCEPT ![l] = NoBooks]
  /\ left'   = [left EXCEPT ![l] = {}]
  /\ losers' = [losers EXCEPT ![l] = {}]

\* All chunks are committed: SELECT the duplicates.
ReadDuplicates(l) ==
  /\ Goto(l, "write", "hide")
  /\ left[l] = {}
  /\ Losers # {}
  /\ losers' = [losers EXCEPT ![l] = Losers]
  /\ UNCHANGED <<tables, driveVars, indexVars, known, book, left, faults, outcome>>

NoDuplicates(l) ==
  /\ pc[l] = "write"
  /\ left[l] = {}
  /\ Losers = {}
  /\ EndPass(l)
  /\ UNCHANGED <<tables, driveVars, indexVars, faults, outcome>>

HideDuplicates(l) ==
  /\ pc[l] = "hide"
  /\ HideLosers(losers[l])
  /\ EndPass(l)
  /\ Writes(l)
  /\ UNCHANGED <<driveVars, indexVars, faults>>

\* The pass returns an error: what it has committed stays, the rest of the
\* chunks and the hiding of duplicates do not happen.
Abort(l) ==
  /\ EndPass(l)
  /\ outcome' = [outcome EXCEPT ![l] = "none"]
  /\ UNCHANGED <<tables, driveVars, indexVars>>

\* A statsbook of the chunk was retracted after the pass read it: the insert
\* into game_matches breaks its foreign key.
ChunkBreaksForeignKey(l) ==
  /\ pc[l] = "write"
  /\ \E f \in Chunk(l) : status[f] = "absent"
  /\ Abort(l)
  /\ UNCHANGED faults

\* Any statement of the pass fails (a serialization failure is not retried).
ResolveFails(l) ==
  /\ Fault
  /\ pc[l] \in {"read_games", "read_books", "write", "hide"}
  /\ Abort(l)

-----------------------------------------------------------------------------
(* The process *)

\* Both loops die and start over; only the tables and Drive remain.
Restart ==
  /\ Fault
  /\ pc'      = [l \in Loops |-> IF l = "drive" THEN "drain" ELSE "sleep"]
  /\ listing' = NoListing
  /\ seen'    = {}
  /\ tried'   = {}
  /\ fetched' = NoBooks
  /\ known'   = [l \in Loops |-> NoGames]
  /\ book'    = [l \in Loops |-> NoBooks]
  /\ left'    = [l \in Loops |-> {}]
  /\ losers'  = [l \in Loops |-> {}]
  /\ outcome' = [l \in Loops |-> "none"]
  /\ UNCHANGED <<tables, driveVars>>

Resolve(l) ==
  \/ ReadGames(l) \/ ReadBooks(l)
  \/ WriteNextChunk(l) \/ ChunkBreaksForeignKey(l)
  \/ ReadDuplicates(l) \/ NoDuplicates(l) \/ HideDuplicates(l)

DriveLoop ==
  \/ ListDrive \/ FinishIndex \/ FinishDrain \/ Resolve("drive")
  \/ \E f \in Files : IndexFile(f) \/ Download(f) \/ Store(f)

WftdaLoop ==
  \/ Resolve("wftda")
  \/ \E scanned \in Feeds : Scan(scanned)

Faults ==
  \/ IndexFails \/ SelectFails \/ ScanFails \/ Restart
  \/ \E f \in Files : ParseFails(f)
  \/ \E l \in Loops : ResolveFails(l)

Users ==
  \E f \in Files : \/ \E content \in Uploads : Upload(f, content)
                   \/ Trash(f)
                   \/ Restore(f)

Next == DriveLoop \/ WftdaLoop \/ Faults \/ Users

Spec == Init /\ [][Next]_vars

\* Each loop is a Tokio task on the multi-threaded runtime whose awaits end
\* (requests time out, statements return), so it keeps taking steps.  Faults
\* and users owe nothing.
Fairness == WF_vars(DriveLoop) /\ WF_vars(WftdaLoop)

FairSpec == Spec /\ Fairness
=============================================================================
