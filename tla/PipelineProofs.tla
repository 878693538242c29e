--------------------------- MODULE PipelineProofs ---------------------------
(***************************************************************************)
(* Theorems about Pipeline for every set of files, games and contents,     *)
(* every matcher and every bound.                                          *)
(***************************************************************************)
EXTENDS PipelineProperties, TLAPS, FiniteSetTheorems, WellFoundedInduction

-----------------------------------------------------------------------------
(* Types *)

\* A pass only has files left to write whose parsed rows it has read, so the
\* matcher is never applied to a file without rows.
LeftWasRead == \A l \in Loops : \A f \in left[l] : book[l][f] \in Parseable

\* A download in hand is of a drain in progress, whose files keep their rows.
InFlight ==
  \A f \in Files : fetched[f] # "absent" => pc["drive"] = "drain" /\ status[f] # "absent"

TypeInv == TypeOK /\ LeftWasRead /\ InFlight

\* What the matcher returns for a parsed statsbook and game rows, and the teams
\* it assigns to the sides.
LEMMA MatchType ==
  ASSUME NEW c \in Parseable, NEW rows \in GameRows
  PROVE  /\ MatchOf[c][rows] \in Games \cup {"none"}
         /\ TeamsOf(MatchOf[c][rows], rows) \in {NoTeams} \cup (Games \X Results)
<1>1. /\ MatchOf[c][rows] \in Games \cup {"none"}
      /\ MatchOf[c][rows] # "none" => rows[MatchOf[c][rows]] # "absent"
  BY TablesAssumption
<1>2. MatchOf[c][rows] # "none" => rows[MatchOf[c][rows]] \in Results
  BY <1>1 DEF GameRows
<1>3. QED
  BY <1>1, <1>2 DEF TeamsOf

\* No game is called "none", so a side either has no team or that of a game.
LEMMA TeamsAreOfTheGame ==
  ASSUME NEW game \in Games \cup {"none"}, NEW rows
  PROVE  /\ TeamsOf(game, rows) = NoTeams <=> game = "none"
         /\ game # "none" => TeamsOf(game, rows)[1] = game
BY TablesAssumption DEF TeamsOf, NoTeams, NoGame

\* The empty tables and the loops at their start satisfy the type invariant.
LEMMA InitTypeInv == Init => TypeInv
BY PipelineAssumption
   DEF Init, TablesInit, TypeInv, InFlight, TypeOK, TablesTypeOK, LeftWasRead,
       NoGame, NoGames, GameRows, NoListing, NoBooks, Stages, Outcomes, Loops

\* Uploads, trashings and restorations keep the type invariant.
LEMMA UsersTypeInv ==
  ASSUME TypeInv, Users PROVE TypeInv'
<1> USE DEF TypeInv, InFlight, TypeOK, TablesTypeOK, LeftWasRead, Edit, tables, indexVars, passVars
<1>1. Edit => edits + 1 \in 0..MaxEdits /\ edits + 1 \in Nat
  BY PipelineAssumption
<1>2. ASSUME NEW f \in Files, NEW content \in Uploads, Upload(f, content)
      PROVE  TypeInv'
  BY <1>1, <1>2, PipelineAssumption DEF Upload
<1>3. ASSUME NEW f \in Files, Trash(f) PROVE TypeInv'
  BY <1>1, <1>3 DEF Trash
<1>4. ASSUME NEW f \in Files, Restore(f) PROVE TypeInv'
  BY <1>1, <1>4 DEF Restore
<1>5. QED
  BY <1>2, <1>3, <1>4 DEF Users

\* The index and the drain of the drive loop keep the type invariant.
LEMMA DriveTypeInv ==
  ASSUME TypeInv,
         \/ ListDrive \/ FinishIndex \/ FinishDrain
         \/ \E f \in Files : IndexFile(f) \/ Download(f) \/ Store(f)
  PROVE  TypeInv'
<1> USE DEF TypeInv, InFlight, TypeOK, TablesTypeOK, LeftWasRead, tables, driveVars,
            indexVars, passVars, Stages, Loops, Goto, Outcomes
<1>1. CASE ListDrive
  BY <1>1 DEF ListDrive
<1>2. CASE FinishIndex
  BY <1>2 DEF FinishIndex, MarkRemoved, Writes, NoListing, NoGame
<1>3. CASE FinishDrain
  BY <1>3 DEF FinishDrain, NoBooks
<1>4. ASSUME NEW f \in Files, IndexFile(f) PROVE TypeInv'
  BY <1>4 DEF IndexFile, UpsertStatsbook, Writes
<1>5. ASSUME NEW f \in Files, Download(f) PROVE TypeInv'
  BY <1>5 DEF Download, Queue, SetFailed, Writes
<1>6. ASSUME NEW f \in Files, Store(f) PROVE TypeInv'
  BY <1>6 DEF Store, StoreParsedGame, MarkSkipped, SetFailed, Writes
<1>7. QED
  BY <1>1, <1>2, <1>3, <1>4, <1>5, <1>6

\* A sync of WFTDA games keeps the type invariant.
LEMMA WftdaTypeInv ==
  ASSUME TypeInv, \E scanned \in Feeds : Scan(scanned)
  PROVE  TypeInv'
BY PipelineAssumption, TablesAssumption DEF Scan, SyncGames, GameRows, Writes, TypeInv, InFlight, TypeOK, TablesTypeOK, LeftWasRead,
       tables, driveVars, indexVars, passVars, Stages, Loops, Goto, Outcomes

\* The end of a pass, good or bad, leaves empty buffers of the right types.
LEMMA EndPassTypes ==
  ASSUME TypeInv, NEW l \in Loops, EndPass(l)
  PROVE  /\ pc'     \in [Loops -> Stages]
         /\ known'  \in [Loops -> GameRows]
         /\ book'   \in [Loops -> [Files -> Parseable \cup {"absent"}]]
         /\ left'   \in [Loops -> SUBSET Files]
         /\ losers' \in [Loops -> SUBSET Files]
         /\ LeftWasRead'
         /\ pc[l] # "drain" /\ UNCHANGED <<fetched, status>> => InFlight'
BY DEF EndPass, TypeInv, InFlight, Loops, TypeOK, LeftWasRead, NoBooks, NoGames, GameRows, Stages

\* Every step of a resolve pass keeps the type invariant.
LEMMA ResolveTypeInv ==
  ASSUME TypeInv, NEW l \in Loops, Resolve(l) PROVE TypeInv'
<1> USE DEF TypeInv, InFlight, TypeOK, TablesTypeOK, tables, driveVars, indexVars, passVars, Outcomes
<1>1. CASE ReadGames(l)
  BY <1>1 DEF ReadGames, Goto, LeftWasRead, Stages
<1>2. CASE ReadBooks(l)
  BY <1>2 DEF ReadBooks, Goto, LeftWasRead, Stages
<1>3. CASE WriteNextChunk(l)
  <2>1. \A f \in Chunk(l) :
         /\ MatchOf[book[l][f]][known[l]] \in Games \cup {"none"}
         /\ TeamsOf(MatchOf[book[l][f]][known[l]], known[l]) \in {NoTeams} \cup (Games \X Results)
    BY MatchType DEF Chunk, LeftWasRead
  <2>2. matches' \in [Files -> Games \cup NoGame] /\ sides' \in [Files -> {NoTeams} \cup (Games \X Results)]
    BY <1>3, <2>1 DEF WriteNextChunk, WriteChunk, NoGame
  <2>3. LeftWasRead'
    BY <1>3 DEF WriteNextChunk, LeftWasRead
  <2>4. QED
    BY <1>3, <2>2, <2>3 DEF WriteNextChunk, WriteChunk, Writes
<1>4. CASE ChunkBreaksForeignKey(l)
  BY <1>4, EndPassTypes DEF ChunkBreaksForeignKey, Abort
<1>5. CASE ReadDuplicates(l)
  BY <1>5 DEF ReadDuplicates, Losers, Goto, LeftWasRead, Stages
<1>6. CASE NoDuplicates(l)
  BY <1>6, EndPassTypes DEF NoDuplicates
<1>7. CASE HideDuplicates(l)
  BY <1>7, EndPassTypes DEF HideDuplicates, HideLosers, Writes, NoGame
<1>8. QED
  BY <1>1, <1>2, <1>3, <1>4, <1>5, <1>6, <1>7 DEF Resolve

\* Failures and restarts keep the type invariant.
LEMMA FaultsTypeInv ==
  ASSUME TypeInv, Faults PROVE TypeInv'
<1> USE DEF TypeInv, InFlight, TypeOK, TablesTypeOK, Fault, tables, driveVars, indexVars, passVars,
            Outcomes
<1>1. faults + 1 \in 0..MaxFaults
  BY PipelineAssumption DEF Faults, IndexFails, SelectFails, ScanFails, Restart, ParseFails, ResolveFails
<1>2. CASE IndexFails
  BY <1>1, <1>2 DEF IndexFails, Goto, LeftWasRead, NoListing, Stages
<1>3. CASE ScanFails
  BY <1>1, <1>3 DEF ScanFails, Goto, LeftWasRead, Stages
<1>4. CASE SelectFails
  <2>1. pc' \in [Loops -> Stages] /\ InFlight'
    BY <1>4 DEF SelectFails, Goto, NoBooks, Stages
  <2>2. QED
    BY <1>1, <1>4, <2>1 DEF SelectFails, LeftWasRead
<1>5. CASE Restart
  BY <1>1, <1>5 DEF Restart, LeftWasRead, NoListing, NoBooks, NoGames, GameRows, Stages
<1>6. ASSUME NEW f \in Files, ParseFails(f) PROVE TypeInv'
  BY <1>1, <1>6 DEF ParseFails, SetFailed, Writes, LeftWasRead
<1>7. ASSUME NEW l \in Loops, ResolveFails(l) PROVE TypeInv'
  BY <1>1, <1>7, EndPassTypes DEF ResolveFails, Abort
<1>8. QED
  BY <1>2, <1>3, <1>4, <1>5, <1>6, <1>7 DEF Faults

\* Every step of the system keeps the type invariant.
LEMMA NextTypeInv == TypeInv /\ [Next]_vars => TypeInv'
<1> SUFFICES ASSUME TypeInv, [Next]_vars PROVE TypeInv'
  OBVIOUS
<1>1. CASE Next
  BY <1>1, UsersTypeInv, DriveTypeInv, WftdaTypeInv, ResolveTypeInv, FaultsTypeInv
     DEF Next, DriveLoop, WftdaLoop, Loops
<1>2. CASE UNCHANGED vars
  BY <1>2 DEF vars, tables, driveVars, indexVars, passVars, TypeInv, InFlight, TypeOK, TablesTypeOK,
              LeftWasRead
<1>3. QED
  BY <1>1, <1>2

\* The inductive form of type correctness: the types, and that a pass only
\* writes files whose parsed rows it has read.
THEOREM SpecTypeInv == Spec => []TypeInv
BY InitTypeInv, NextTypeInv, PTL DEF Spec

\* Every variable keeps its type whatever the interleaving; in particular the
\* matcher is only applied to parsed contents and sets of known games.
THEOREM TypeCorrect == Spec => []TypeOK
<1>1. TypeInv => TypeOK
  BY DEF TypeInv
<1>2. QED
  BY <1>1, SpecTypeInv, PTL

-----------------------------------------------------------------------------
(* The tables: what every interleaving of the transactions keeps true *)

\* Every step of the system runs at most one transaction on the tables, with
\* the arguments its caller can give it.
Transaction ==
  \/ UNCHANGED tables
  \/ \E f \in Files, time \in Nat : UpsertStatsbook(f, time)
  \/ \E kept \in SUBSET Files : MarkRemoved(kept)
  \/ \E f \in Files : /\ status[f] # "absent"
                      /\ \/ \E content \in Parseable : StoreParsedGame(f, content)
                         \/ MarkSkipped(f)
                         \/ SetFailed(f)
  \/ \E chunk \in SUBSET Files,
        read \in [Files -> Parseable \cup {"absent"}], scanned \in GameRows :
       /\ \A f \in chunk : read[f] \in Parseable
       /\ WriteChunk(chunk, read, scanned)
  \/ \E hidden \in SUBSET Files : HideLosers(hidden)
  \/ \E scanned \in GameRows : SyncGames(scanned)

\* Every step is one transaction of Transaction, or leaves the tables alone.
LEMMA NextIsTransaction == TypeInv /\ [Next]_vars => Transaction
<1> SUFFICES ASSUME TypeInv, [Next]_vars PROVE Transaction
  OBVIOUS
<1> USE DEF TypeInv, TypeOK
<1>1. CASE UNCHANGED vars
  BY <1>1 DEF vars, Transaction
<1>2. CASE Users
  BY <1>2 DEF Users, Upload, Trash, Restore, Edit, Transaction
<1>3. CASE ListDrive \/ FinishDrain
  BY <1>3 DEF ListDrive, FinishDrain, Transaction
<1>4. CASE FinishIndex
  BY <1>4 DEF FinishIndex, Transaction
<1>5. ASSUME NEW f \in Files, IndexFile(f) PROVE Transaction
  BY <1>5 DEF IndexFile, Transaction
<1>6. ASSUME NEW f \in Files, Download(f) \/ Store(f) \/ ParseFails(f) PROVE Transaction
  <2>1. status[f] # "absent"
    BY <1>6 DEF Download, Store, ParseFails, Queue, InFlight
  <2>2. CASE Download(f)
    BY <2>1, <2>2 DEF Download, Transaction
  <2>3. CASE Store(f)
    BY <2>1, <2>3 DEF Store, StoreParsedGame, Transaction
  <2>4. CASE ParseFails(f)
    BY <2>1, <2>4 DEF ParseFails, Transaction
  <2>5. QED
    BY <1>6, <2>2, <2>3, <2>4
<1>7. ASSUME NEW scanned \in Feeds, Scan(scanned) PROVE Transaction
  BY <1>7, TablesAssumption DEF Scan, Transaction
<1>8. ASSUME NEW l \in Loops, Resolve(l) PROVE Transaction
  <2>1. CASE ReadGames(l) \/ ReadBooks(l) \/ ReadDuplicates(l) \/ NoDuplicates(l)
             \/ ChunkBreaksForeignKey(l)
    BY <2>1 DEF ReadGames, ReadBooks, ReadDuplicates, NoDuplicates, ChunkBreaksForeignKey,
                Abort, Transaction
  <2>2. CASE WriteNextChunk(l)
    <3>1. /\ Chunk(l) \in SUBSET Files
          /\ book[l] \in [Files -> Parseable \cup {"absent"}]
          /\ known[l] \in GameRows
          /\ \A f \in Chunk(l) : book[l][f] \in Parseable
      BY DEF Chunk, LeftWasRead
    <3>2. QED
      BY <2>2, <3>1 DEF WriteNextChunk, Transaction
  <2>3. CASE HideDuplicates(l)
    BY <2>3 DEF HideDuplicates, Transaction
  <2>4. QED
    BY <1>8, <2>1, <2>2, <2>3 DEF Resolve
<1>9. CASE IndexFails \/ SelectFails \/ ScanFails \/ Restart \/ \E l \in Loops : ResolveFails(l)
  BY <1>9 DEF IndexFails, SelectFails, ScanFails, Restart, ResolveFails, Abort, Transaction
<1>10. QED
  BY <1>1, <1>2, <1>3, <1>4, <1>5, <1>6, <1>7, <1>8, <1>9
     DEF Next, DriveLoop, WftdaLoop, Faults, Loops

\* No transaction leaves a row of a file without its statsbook.
LEMMA TransactionKeepsForeignKeys ==
  ASSUME TablesTypeOK, ForeignKeys, Transaction PROVE ForeignKeys'
<1> USE DEF TablesTypeOK, ForeignKeys
<1>1. CASE UNCHANGED tables
  BY <1>1 DEF tables
<1>2. ASSUME NEW f \in Files, NEW time \in Nat, UpsertStatsbook(f, time) PROVE ForeignKeys'
  BY <1>2 DEF UpsertStatsbook
<1>3. ASSUME NEW kept \in SUBSET Files, MarkRemoved(kept) PROVE ForeignKeys'
  BY <1>3 DEF MarkRemoved
<1>4. ASSUME NEW f \in Files, status[f] # "absent",
             \/ \E content \in Parseable : StoreParsedGame(f, content)
             \/ MarkSkipped(f)
             \/ SetFailed(f)
      PROVE  ForeignKeys'
  BY <1>4 DEF StoreParsedGame, MarkSkipped, SetFailed
<1>5. ASSUME NEW chunk \in SUBSET Files, NEW read, NEW scanned,
             WriteChunk(chunk, read, scanned)
      PROVE  ForeignKeys'
  BY <1>5 DEF WriteChunk
<1>6. ASSUME NEW hidden \in SUBSET Files, HideLosers(hidden) PROVE ForeignKeys'
  BY <1>6 DEF HideLosers
<1>7. ASSUME NEW scanned \in GameRows, SyncGames(scanned) PROVE ForeignKeys'
  BY <1>7 DEF SyncGames
<1>8. QED
  BY <1>1, <1>2, <1>3, <1>4, <1>5, <1>6, <1>7 DEF Transaction

\* No transaction credits a side with a game its file is not matched to.
LEMMA TransactionKeepsSides ==
  ASSUME TablesTypeOK, SidesFollowMatch, Transaction PROVE SidesFollowMatch'
<1> USE DEF TablesTypeOK, SidesFollowMatch
<1>1. CASE UNCHANGED tables
  BY <1>1 DEF tables
<1>2. ASSUME NEW f \in Files, NEW time \in Nat, UpsertStatsbook(f, time)
      PROVE  SidesFollowMatch'
  BY <1>2 DEF UpsertStatsbook
<1>3. ASSUME NEW kept \in SUBSET Files, MarkRemoved(kept) PROVE SidesFollowMatch'
  BY <1>3 DEF MarkRemoved
<1>4. ASSUME NEW f \in Files,
             \/ \E content \in Parseable : StoreParsedGame(f, content)
             \/ MarkSkipped(f)
             \/ SetFailed(f)
      PROVE  SidesFollowMatch'
  <2>1. "absent" \notin Parseable
    BY TablesAssumption DEF Parseable
  <2>2. QED
    BY <1>4, <2>1 DEF StoreParsedGame, MarkSkipped, SetFailed
<1>5. ASSUME NEW chunk \in SUBSET Files,
             NEW read \in [Files -> Parseable \cup {"absent"}], NEW scanned \in GameRows,
             \A f \in chunk : read[f] \in Parseable,
             WriteChunk(chunk, read, scanned)
      PROVE  SidesFollowMatch'
  \* A file of the chunk without side rows has no assignment to carry over.
  <2>1. \A f \in chunk :
          LET resolution == MatchOf[read[f]][scanned] IN
          TeamsOf(resolution, scanned) # NoTeams => TeamsOf(resolution, scanned)[1] = resolution
    BY <1>5, MatchType, TeamsAreOfTheGame
  <2>2. QED
    BY <1>5, <2>1 DEF WriteChunk
<1>6. ASSUME NEW hidden \in SUBSET Files, HideLosers(hidden) PROVE SidesFollowMatch'
  BY <1>6 DEF HideLosers
<1>7. ASSUME NEW scanned \in GameRows, SyncGames(scanned) PROVE SidesFollowMatch'
  BY <1>7 DEF SyncGames
<1>8. QED
  BY <1>1, <1>2, <1>3, <1>4, <1>5, <1>6, <1>7 DEF Transaction

\* No parsed or match row outlives its statsbook: a slow resolve pass cannot
\* bring back a file that the index has retracted since the pass read it.
THEOREM RetractedStaysGone == Spec => []ForeignKeys
<1>1. Init => ForeignKeys
  BY DEF Init, TablesInit, ForeignKeys
<1>2. TypeInv /\ ForeignKeys /\ [Next]_vars => ForeignKeys'
  BY NextIsTransaction, TransactionKeepsForeignKeys DEF TypeInv, TypeOK
<1>3. QED
  BY <1>1, <1>2, SpecTypeInv, PTL DEF Spec

\* However two resolve passes, re-parses, skips, retractions and crashes fall,
\* a side is only ever credited with the game its file is matched to.
THEOREM SidesAlwaysFollowMatch == Spec => []SidesFollowMatch
<1>1. Init => SidesFollowMatch
  BY DEF Init, TablesInit, SidesFollowMatch
<1>2. TypeInv /\ SidesFollowMatch /\ [Next]_vars => SidesFollowMatch'
  BY NextIsTransaction, TransactionKeepsSides DEF TypeInv, TypeOK
<1>3. QED
  BY <1>1, <1>2, SpecTypeInv, PTL DEF Spec

-----------------------------------------------------------------------------
(* The index *)

\* A row of statsbooks disappears in one kind of step: the end of an index run
\* that has the whole listing, and the listing does not hold that file.
THEOREM OnlyUnlistedAreRetracted == Spec => OnlyUnlistedRetracted
<1> DEFINE Retracts == \A f \in Files : status[f] # "absent" /\ status'[f] = "absent"
                          => pc["drive"] = "upsert" /\ listing[f] = 0
<1>1. TypeInv /\ [Next]_vars => [Retracts]_vars
  <2> SUFFICES ASSUME TypeInv, [Next]_vars PROVE [Retracts]_vars
    OBVIOUS
  <2> USE DEF TypeInv, TypeOK, TablesTypeOK
  <2>1. CASE UNCHANGED vars
    BY <2>1
  <2>2. CASE FinishIndex
    <3>1. \A f \in Files : f \notin seen => listing[f] = 0
      BY <2>2 DEF FinishIndex, Listed
    <3>2. \A f \in Files : f \in seen => status'[f] = status[f]
      BY <2>2 DEF FinishIndex, MarkRemoved
    <3>3. QED
      BY <2>2, <3>1, <3>2 DEF FinishIndex, Goto
  <2>3. ASSUME NEW f \in Files, IndexFile(f) PROVE Retracts
    BY <2>3 DEF IndexFile, UpsertStatsbook
  <2>4. ASSUME NEW f \in Files, Download(f) \/ Store(f) \/ ParseFails(f) PROVE Retracts
    BY <2>4 DEF Download, Store, ParseFails, StoreParsedGame, MarkSkipped, SetFailed, tables
  <2>5. ASSUME NEW l \in Loops, Resolve(l) PROVE Retracts
    BY <2>5 DEF Resolve, ReadGames, ReadBooks, WriteNextChunk, WriteChunk, ReadDuplicates,
        NoDuplicates, HideDuplicates, HideLosers, ChunkBreaksForeignKey, Abort, tables
  <2>6. CASE ListDrive \/ FinishDrain \/ Users
    BY <2>6 DEF ListDrive, FinishDrain, Users, Upload, Trash, Restore, Edit, tables
  <2>7. ASSUME NEW scanned \in Feeds, Scan(scanned) PROVE Retracts
    BY <2>7 DEF Scan, SyncGames
  <2>8. CASE IndexFails \/ SelectFails \/ ScanFails \/ Restart \/ \E l \in Loops : ResolveFails(l)
    BY <2>8 DEF IndexFails, SelectFails, ScanFails, Restart, ResolveFails, Abort, tables
  <2>9. QED
    BY <2>1, <2>2, <2>3, <2>4, <2>5, <2>6, <2>7, <2>8
       DEF Next, DriveLoop, WftdaLoop, Faults, Loops
<1>2. QED
  BY <1>1, SpecTypeInv, PTL DEF Spec, OnlyUnlistedRetracted

-----------------------------------------------------------------------------
(* Re-uploads *)

\* Modified times come from Drive: an edit after the listing, or after the
\* index row, has a later one, so an upload always leaves the row behind.
TimesBehindEdits ==
  \A f \in Files : rev[f] <= edits /\ mtime[f] <= edits /\ listing[f] <= edits

\* The same holds of the bytes in hand between download and store.
FetchedIsCurrent ==
  \A f \in Files : fetched[f] # "absent" /\ mtime[f] = rev[f] => fetched[f] = bytes[f]

Current == TimesBehindEdits /\ FetchedIsCurrent /\ ParsedIsCurrent

ReuploadInv == TypeInv /\ Current

\* Uploads, trashings and restorations keep the re-upload invariant.
LEMMA UsersKeepReupload ==
  ASSUME ReuploadInv, Users PROVE Current'
<1> USE DEF ReuploadInv, TypeInv, InFlight, TypeOK, TablesTypeOK, Current, TimesBehindEdits, FetchedIsCurrent, ParsedIsCurrent,
            Edit, tables, indexVars
<1>1. ASSUME NEW f \in Files, NEW content \in Uploads, Upload(f, content)
      PROVE  Current'
  <2>1. mtime[f] # rev'[f]
    BY <1>1 DEF Upload
  <2>2. QED
    BY <1>1, <2>1 DEF Upload
<1>2. ASSUME NEW f \in Files, Trash(f) \/ Restore(f)
      PROVE  Current'
  BY <1>2 DEF Trash, Restore
<1>3. QED
  BY <1>1, <1>2 DEF Users

\* The index and the drain keep the re-upload invariant.
LEMMA DriveKeepsReupload ==
  ASSUME ReuploadInv,
         \/ ListDrive \/ FinishIndex \/ FinishDrain \/ IndexFails
         \/ \E f \in Files : IndexFile(f) \/ Download(f) \/ Store(f) \/ ParseFails(f)
  PROVE  Current'
<1> USE DEF ReuploadInv, TypeInv, InFlight, TypeOK, TablesTypeOK, Current, TimesBehindEdits, FetchedIsCurrent, ParsedIsCurrent,
            tables, driveVars, NoListing
<1>1. CASE ListDrive \/ FinishDrain \/ IndexFails
  BY <1>1 DEF ListDrive, FinishDrain, IndexFails
<1>2. CASE FinishIndex
  BY <1>2 DEF FinishIndex, MarkRemoved, Goto
<1>3. ASSUME NEW f \in Files, IndexFile(f) PROVE Current'
  \* Either the row keeps its time and status, or it becomes pending.
  BY <1>3 DEF IndexFile, UpsertStatsbook
<1>4. ASSUME NEW f \in Files, Download(f) PROVE Current'
  BY <1>4 DEF Download, SetFailed
<1>5. ASSUME NEW f \in Files, Store(f) PROVE Current'
  \* The stored content is that of the download, which FetchedIsCurrent covers.
  <2>1. /\ fetched[f] # "absent"
        /\ fetched' = [fetched EXCEPT ![f] = "absent"]
        /\ UNCHANGED <<mtime, rev, bytes, edits, listing>>
    BY <1>5 DEF Store, StoreParsedGame, MarkSkipped, SetFailed
  <2>2. \/ /\ parsed' = [parsed EXCEPT ![f] = fetched[f]]
           /\ status' = [status EXCEPT ![f] = "parsed"]
        \/ status' = [status EXCEPT ![f] = "skipped"] /\ parsed' = [parsed EXCEPT ![f] = "absent"]
        \/ status' = [status EXCEPT ![f] = "failed"] /\ parsed' = parsed
    BY <1>5 DEF Store, StoreParsedGame, MarkSkipped, SetFailed
  <2>3. QED
    BY <2>1, <2>2
<1>6. ASSUME NEW f \in Files, ParseFails(f) PROVE Current'
  BY <1>6 DEF ParseFails, SetFailed
<1>7. QED
  BY <1>1, <1>2, <1>3, <1>4, <1>5, <1>6

\* The sync, the resolve passes and the faults keep the re-upload invariant.
LEMMA OthersKeepReupload ==
  ASSUME ReuploadInv,
         \/ SelectFails \/ ScanFails \/ Restart
         \/ \E scanned \in Feeds : Scan(scanned)
         \/ \E l \in Loops : Resolve(l) \/ ResolveFails(l)
  PROVE  Current'
<1>1. UNCHANGED <<status, mtime, parsed, rev, bytes>> /\ (edits' = edits \/ edits' = edits + 1)
  BY DEF SelectFails, ScanFails, Restart, Scan, SyncGames, Resolve, ReadGames, ReadBooks,
         WriteNextChunk, WriteChunk, ReadDuplicates, NoDuplicates, HideDuplicates, HideLosers,
         ChunkBreaksForeignKey, Abort, ResolveFails, tables, driveVars
<1>2. /\ listing' = listing \/ listing' = NoListing
      /\ fetched' = fetched \/ fetched' = NoBooks
  BY DEF SelectFails, ScanFails, Restart, Scan, Resolve, ReadGames, ReadBooks,
         WriteNextChunk, ReadDuplicates, NoDuplicates, HideDuplicates,
         ChunkBreaksForeignKey, Abort, ResolveFails, indexVars
<1>3. QED
  BY <1>1, <1>2, PipelineAssumption
     DEF ReuploadInv, TypeInv, TypeOK, TablesTypeOK, Current, TimesBehindEdits,
         FetchedIsCurrent, ParsedIsCurrent, NoListing, NoBooks

\* A row that counts as parsed under the modified time Drive has now holds the
\* content Drive has now: no order of upload, listing, download and store
\* leaves a re-upload unparsed for good.
THEOREM ReuploadsAreNotLost == Spec => []ParsedIsCurrent
<1>1. Init => ReuploadInv
  BY InitTypeInv DEF Init, TablesInit, ReuploadInv, Current, TimesBehindEdits,
     FetchedIsCurrent, ParsedIsCurrent, NoListing, NoBooks
<1>2. ReuploadInv /\ [Next]_vars => ReuploadInv'
  <2> SUFFICES ASSUME ReuploadInv, [Next]_vars PROVE ReuploadInv'
    OBVIOUS
  <2>1. TypeInv'
    BY NextTypeInv DEF ReuploadInv
  <2>2. CASE UNCHANGED vars
    BY <2>1, <2>2 DEF ReuploadInv, Current, TimesBehindEdits, FetchedIsCurrent, ParsedIsCurrent, vars, tables, driveVars,
                      indexVars
  <2>3. QED
    BY <2>1, <2>2, UsersKeepReupload, DriveKeepsReupload, OthersKeepReupload
       DEF Next, DriveLoop, WftdaLoop, Faults, ReuploadInv, Loops
<1>3. ReuploadInv => ParsedIsCurrent
  BY DEF ReuploadInv, Current
<1>4. QED
  BY <1>1, <1>2, <1>3, PTL DEF Spec

-----------------------------------------------------------------------------
(* Passes that no other writer overlaps: the order of duplicates *)

\* Two files never rank alike.
LEMMA RanksAreTotal ==
  ASSUME TablesTypeOK, NEW f \in Files, NEW g \in Files, f # g
  PROVE  RanksBefore(f, g) \/ RanksBefore(g, f)
<1>1. f \in Nat /\ g \in Nat /\ mtime[f] \in Nat /\ mtime[g] \in Nat
  BY TablesAssumption DEF TablesTypeOK
<1>2. QED
  BY <1>1 DEF RanksBefore

\* Ranks are a strict order.
LEMMA RanksAreOrdered ==
  ASSUME TablesTypeOK, NEW f \in Files, NEW g \in Files, NEW h \in Files,
         RanksBefore(f, g), RanksBefore(g, h)
  PROVE  RanksBefore(f, h) /\ ~RanksBefore(g, g)
<1>1. f \in Nat /\ g \in Nat /\ h \in Nat /\ mtime[f] \in Nat /\ mtime[g] \in Nat /\ mtime[h] \in Nat
  BY TablesAssumption DEF TablesTypeOK
<1>2. QED
  BY <1>1 DEF RanksBefore

\* Among the files of a set one ranks before all others.
LEMMA FirstOf ==
  ASSUME TablesTypeOK, NEW S, S \subseteq Files, S # {}
  PROVE  \E first \in S : \A g \in S \ {first} : RanksBefore(first, g)
<1> DEFINE Before(f) == {g \in S : RanksBefore(g, f)}
           Sets == {Before(f) : f \in S}
<1>1. IsFiniteSet(S)
  BY TablesAssumption, FS_Subset
<1>2. Sets \subseteq SUBSET S /\ Sets # {}
  OBVIOUS
<1>3. Sets \subseteq FiniteSubsetsOf(S)
  <2>1. FiniteSubsetsOf(S) = SUBSET S
    BY <1>1, FS_FiniteSubsetsOfFinite
  <2>2. QED
    BY <1>2, <2>1, Zenon
<1>4. \E U \in Sets : \A V \in Sets : <<V, U>> \notin StrictSubsetOrdering(S)
  <2>1. IsWellFoundedOn(StrictSubsetOrdering(S), FiniteSubsetsOf(S))
    BY FS_StrictSubsetOrderingWellFounded
  <2>2. QED
    BY <1>2, <1>3, <2>1, WFMin, Zenon
<1>5. PICK first \in S : \A V \in Sets : <<V, Before(first)>> \notin StrictSubsetOrdering(S)
  BY <1>4
<1>6. \A g \in S : ~RanksBefore(g, first)
  <2> SUFFICES ASSUME NEW g \in S, RanksBefore(g, first) PROVE FALSE
    OBVIOUS
  <2>1. \A h \in S : RanksBefore(h, g) => RanksBefore(h, first)
    BY RanksAreOrdered
  <2>2. ~RanksBefore(g, g)
    BY TablesAssumption DEF TablesTypeOK, RanksBefore
  <2>3. Before(g) \subseteq Before(first) /\ g \in Before(first) /\ g \notin Before(g)
    BY <2>1, <2>2, Zenon
  <2>4. Before(g) # Before(first)
    BY <2>3
  <2>5. Before(g) \in Sets /\ Before(g) \in SUBSET S /\ Before(first) \in SUBSET S
    OBVIOUS
  <2>6. QED
    BY <1>5, <2>3, <2>4, <2>5 DEF StrictSubsetOrdering
<1>7. QED
  BY <1>6, RanksAreTotal

-----------------------------------------------------------------------------
(* The end of a pass *)

\* f is written: its match and its sides are what the matcher gives now.
Written(f) == matches[f] = Claim(f) /\ sides[f] = TeamsOf(Claim(f), games)

\* When all parsed files are written, hiding the losers settles the tables.
LEMMA HidingSettles ==
  ASSUME TablesTypeOK, \A f \in Files : parsed[f] # "absent" => Written(f), HideLosers(Losers)
  PROVE  Settled'
<1> USE DEF TablesTypeOK
<1>1. /\ UNCHANGED <<status, mtime, parsed, games>>
      /\ \A f \in Files : matches'[f] = IF f \in Losers THEN "duplicate" ELSE matches[f]
      /\ \A f \in Files : sides'[f] = IF f \in Losers THEN NoTeams ELSE sides[f]
  BY TablesAssumption DEF HideLosers, Losers, Visible, NoGame
<1>2. \A f \in Files : parsed[f] # "absent" => matches[f] = Claim(f) /\ Claim(f)' = Claim(f)
  BY <1>1 DEF Written, Claim
<1>3. "duplicate" \notin Games
  BY TablesAssumption DEF NoGame
<1>4. \A f, g \in Files : RanksBefore(f, g)' <=> RanksBefore(f, g)
  BY <1>1 DEF RanksBefore
<1>5. ASSUME NEW f \in Files, f \in Losers
      PROVE  \E g \in Files \ Losers : matches[g] = matches[f] /\ RanksBefore(g, f)
  <2> DEFINE Rivals == {g \in Files : matches[g] = matches[f]}
  <2>1. Rivals \subseteq Files /\ f \in Rivals
    OBVIOUS
  <2>2. PICK first \in Rivals : \A g \in Rivals \ {first} : RanksBefore(first, g)
    <3> HIDE DEF TablesTypeOK, Rivals
    <3>1. Rivals # {}
      BY <2>1
    <3>2. QED
      BY <2>1, <3>1, FirstOf
  <2>3. PICK g \in Rivals : RanksBefore(g, f)
    BY <1>5 DEF Losers
  <2>4. \A h \in Files : ~RanksBefore(h, h)
    <3>1. \A h \in Files : h \in Nat /\ mtime[h] \in Nat
      BY TablesAssumption
    <3>2. QED
      BY <3>1 DEF RanksBefore
  <2>5. first # f
    BY <2>1, <2>2, <2>3, <2>4, RanksAreOrdered
  <2>6. first \notin Losers
    BY <2>2, <2>4, RanksAreOrdered DEF Losers
  <2>7. QED
    BY <2>1, <2>2, <2>5, <2>6
<1>6. ASSUME NEW f \in Files, parsed[f] # "absent"
      PROVE  matches'[f] = IF Claim(f)' \in Games /\ Beaten(f)' THEN "duplicate" ELSE Claim(f)'
  <2>1. matches[f] = Claim(f) /\ Claim(f)' = Claim(f)
    BY <1>2, <1>6
  <2>2. CASE f \in Losers
    <3>1. Claim(f) \in Games
      BY <2>1, <2>2 DEF Losers, Visible
    <3>2. PICK g \in Files \ Losers : matches[g] = matches[f] /\ RanksBefore(g, f)
      BY <1>5, <2>2
    <3>3. matches'[g] = Claim(f)' /\ Visible(g)' /\ RanksBefore(g, f)'
      BY <1>1, <1>4, <2>1, <3>1, <3>2 DEF Visible
    <3>4. Beaten(f)'
      BY <3>3 DEF Beaten
    <3>5. QED
      BY <1>1, <2>1, <2>2, <3>1, <3>4
  <2>3. CASE f \notin Losers
    <3>1. matches'[f] = Claim(f)'
      BY <1>1, <2>1, <2>3
    <3>2. ASSUME Claim(f)' \in Games, Beaten(f)' PROVE FALSE
      <4>1. PICK g \in Files : Visible(g)' /\ matches'[g] = Claim(f)' /\ RanksBefore(g, f)'
        BY <3>2 DEF Beaten
      <4>2. matches[g] = matches[f] /\ RanksBefore(g, f) /\ Visible(f)
        BY <1>1, <1>3, <1>4, <2>1, <3>2, <4>1 DEF Visible
      <4>3. QED
        BY <2>3, <4>2 DEF Losers
    <3>3. QED
      BY <3>1, <3>2
  <2>4. QED
    BY <2>2, <2>3
<1>7. ASSUME NEW f \in Files, NEW g \in Files, Visible(f)', matches'[f] = matches'[g], f # g
      PROVE  FALSE
  <2>1. f \notin Losers /\ g \notin Losers /\ matches[f] = matches[g] /\ Visible(f) /\ Visible(g)
    BY <1>1, <1>3, <1>7 DEF Visible
  <2>2. QED
    BY <1>7, <2>1, RanksAreTotal DEF Losers
<1>8. ASSUME NEW f \in Files, parsed[f] # "absent", Visible(f)'
      PROVE  sides'[f] = TeamsOf(matches[f], games)'
  <2>1. f \notin Losers /\ matches'[f] = matches[f] /\ sides'[f] = sides[f] /\ games' = games
    BY <1>1, <1>3, <1>8 DEF Visible
  <2>2. sides[f] = TeamsOf(matches[f], games)
    BY <1>8 DEF Written
  <2>3. QED
    BY <2>1, <2>2 DEF TeamsOf
<1>9. \A f \in Files : parsed'[f] # "absent" <=> parsed[f] # "absent"
  BY <1>1
<1>10. QED
  BY <1>6, <1>7, <1>8, <1>9 DEF Settled

-----------------------------------------------------------------------------
(* A pass in progress *)

\* What the pass of loop l has read is what the tables hold, the files it has
\* left behind are written, and once it has ended the tables are settled.
Progress(l) ==
  /\ pc[l] \in {"read_books", "write", "hide", "sleep"}
  /\ pc[l] \in {"read_books", "write"} => known[l] = games
  /\ pc[l] = "write" =>
       /\ book[l] = parsed
       /\ \A f \in Files : parsed[f] # "absent" /\ f \notin left[l] => Written(f)
  /\ pc[l] = "hide" =>
       /\ losers[l] = Losers
       /\ \A f \in Files : parsed[f] # "absent" => Written(f)
  /\ pc[l] = "sleep" => Settled

AloneInv == \A l \in Loops : outcome[l] = "alone" => Progress(l)

\* The tables and the pass of l are as they were.
Rests(l) ==
  /\ UNCHANGED tables
  /\ pc'[l] = pc[l] /\ known'[l] = known[l] /\ book'[l] = book[l]
  /\ left'[l] = left[l] /\ losers'[l] = losers[l]
  /\ outcome'[l] = outcome[l]

PassStep(l) ==
  \/ ReadGames(l) \/ ReadBooks(l) \/ WriteNextChunk(l)
  \/ ReadDuplicates(l) \/ NoDuplicates(l) \/ HideDuplicates(l)

\* Whoever writes the tables meanwhile makes the pass no longer alone.
LEMMA AloneStep ==
  ASSUME TypeInv, AloneInv, [Next]_vars, NEW l \in Loops, outcome'[l] = "alone"
  PROVE  Rests(l) \/ PassStep(l)
<1> USE DEF TypeInv, TypeOK, Loops, indexVars, passVars
<1>0. outcome[l] = "alone" => pc[l] \notin {"upsert", "drain", "read_games"}
  BY DEF AloneInv, Progress
<1>1. CASE UNCHANGED vars
  BY <1>1 DEF vars, Rests
<1>2. CASE Users
  BY <1>2 DEF Users, Upload, Trash, Restore, Edit, Rests
<1>3. CASE ListDrive
  BY <1>3 DEF ListDrive, Goto, Rests
<1>4. CASE FinishIndex
  BY <1>0, <1>4 DEF FinishIndex, Goto, Writes
<1>5. CASE FinishDrain \/ SelectFails \/ IndexFails
  BY <1>0, <1>5 DEF FinishDrain, SelectFails, IndexFails, Goto, Rests
<1>6. ASSUME NEW f \in Files, IndexFile(f) PROVE FALSE
  BY <1>0, <1>6 DEF IndexFile, Writes
<1>7. ASSUME NEW f \in Files, Download(f) PROVE Rests(l)
  BY <1>0, <1>7 DEF Download, Writes, Rests
<1>8. ASSUME NEW f \in Files, Store(f) PROVE FALSE
  BY <1>0, <1>8 DEF Store, InFlight, Writes
<1>9. ASSUME NEW f \in Files, ParseFails(f) PROVE FALSE
  BY <1>0, <1>9 DEF ParseFails, Writes
<1>10. ASSUME NEW scanned \in Feeds, Scan(scanned) PROVE FALSE
  BY <1>10 DEF Scan
<1>11. CASE ScanFails
  BY <1>11 DEF ScanFails, Rests
<1>12. CASE Restart
  BY <1>12 DEF Restart
<1>13. ASSUME NEW m \in Loops, m # l, Resolve(m) \/ ResolveFails(m) PROVE Rests(l)
  <2>1. CASE ReadGames(m) \/ ReadBooks(m) \/ ReadDuplicates(m)
    BY <1>13, <2>1 DEF ReadGames, ReadBooks, ReadDuplicates, Goto, Rests
  <2>2. CASE WriteNextChunk(m) \/ HideDuplicates(m)
    BY <1>13, <2>2 DEF WriteNextChunk, HideDuplicates, Writes
  <2>3. CASE NoDuplicates(m)
    BY <1>13, <2>3 DEF NoDuplicates, EndPass, Rests
  <2>4. CASE ChunkBreaksForeignKey(m) \/ ResolveFails(m)
    BY <1>13, <2>4 DEF ChunkBreaksForeignKey, ResolveFails, Abort, EndPass, Rests
  <2>5. QED
    BY <1>13, <2>1, <2>2, <2>3, <2>4 DEF Resolve
<1>14. CASE Resolve(l) \/ ResolveFails(l)
  BY <1>14 DEF Resolve, PassStep, ChunkBreaksForeignKey, ResolveFails, Abort
<1>15. QED
  BY <1>1, <1>2, <1>3, <1>4, <1>5, <1>6, <1>7, <1>8, <1>9, <1>10, <1>11, <1>12, <1>13, <1>14
     DEF Next, DriveLoop, WftdaLoop, Faults

\* While the tables rest, so do all statements about them.
LEMMA RestsKeepsProgress ==
  ASSUME NEW l \in Loops, Progress(l), Rests(l) PROVE Progress(l)'
<1>1. Losers' = Losers
  BY DEF Rests, tables, Losers, Visible, RanksBefore
<1>2. \A f \in Files : Written(f)' <=> Written(f)
  BY DEF Rests, tables, Written, Claim
<1>3. Settled' <=> Settled
  BY DEF Rests, tables, Settled, TeamsOf, Claim, Beaten, Visible, RanksBefore
<1>4. QED
  BY <1>1, <1>2, <1>3 DEF Progress, Rests, tables

\* Every step of the pass itself makes progress.
LEMMA PassKeepsProgress ==
  ASSUME TypeInv, AloneInv, NEW l \in Loops, PassStep(l), outcome'[l] = "alone"
  PROVE  Progress(l)'
<1> USE DEF TypeInv, TypeOK, TablesTypeOK, Loops
<1>1. CASE ReadGames(l)
  BY <1>1 DEF ReadGames, Goto, Progress, tables
<1>2. ASSUME ~ReadGames(l) PROVE Progress(l)
  <2>1. outcome[l] = "alone"
    BY <1>2 DEF PassStep, ReadBooks, WriteNextChunk, ReadDuplicates, NoDuplicates, HideDuplicates,
                Writes
  <2>2. QED
    BY <2>1 DEF AloneInv
<1>3. CASE ReadBooks(l)
  <2>1. pc[l] = "read_books" /\ pc'[l] = "write" /\ known[l] = games
    BY <1>2, <1>3 DEF ReadBooks, ReadGames, Goto, Progress
  <2>2. book'[l] = parsed /\ left'[l] = {f \in Files : parsed[f] # "absent"}
        /\ UNCHANGED <<parsed, games, known>>
    BY <1>3 DEF ReadBooks, tables
  <2>3. QED
    BY <2>1, <2>2 DEF Progress
<1>4. CASE WriteNextChunk(l)
  <2>1. /\ pc[l] = "write" /\ pc' = pc
        /\ UNCHANGED <<parsed, games, known, book>>
        /\ WriteChunk(Chunk(l), book[l], known[l])
        /\ left'[l] = left[l] \ Chunk(l)
    BY <1>4 DEF WriteNextChunk, WriteChunk
  <2>2. known[l] = games /\ book[l] = parsed
    BY <1>2, <2>1 DEF Progress, ReadGames, Goto
  <2>3. \A f \in Files : parsed[f] # "absent" /\ f \notin left[l] => Written(f)
    BY <1>2, <2>1 DEF Progress, ReadGames, Goto
  <2>4. \A f \in Files : parsed[f] # "absent" => Claim(f)' = Claim(f) /\ Claim(f) = MatchOf[parsed[f]][games]
    BY <2>1 DEF Claim
  <2>5. ASSUME NEW f \in Files, parsed[f] # "absent", f \notin left'[l] PROVE Written(f)'
    <3>1. CASE f \in Chunk(l)
      BY <2>1, <2>2, <2>4, <2>5, <3>1 DEF WriteChunk, Written
    <3>2. CASE f \notin Chunk(l)
      <4>1. matches'[f] = matches[f] /\ sides'[f] = sides[f]
        BY <2>1, <3>2 DEF WriteChunk
      <4>2. QED
        BY <2>1, <2>3, <2>4, <2>5, <3>2, <4>1 DEF Written
    <3>3. QED
      BY <3>1, <3>2
  <2>6. QED
    BY <2>1, <2>2, <2>5 DEF Progress
<1>5. CASE ReadDuplicates(l)
  <2>1. pc[l] = "write" /\ pc'[l] = "hide" /\ left[l] = {} /\ losers'[l] = Losers
        /\ UNCHANGED tables
    BY <1>5 DEF ReadDuplicates, Goto
  <2>2. Losers' = Losers
    BY <2>1 DEF tables, Losers, Visible, RanksBefore
  <2>3. \A f \in Files : Written(f)' <=> Written(f)
    BY <2>1 DEF tables, Written, Claim
  <2>4. \A f \in Files : parsed[f] # "absent" => Written(f)
    BY <1>2, <2>1 DEF Progress, ReadGames, Goto
  <2>5. QED
    BY <2>1, <2>2, <2>3, <2>4 DEF Progress, tables
<1>6. CASE NoDuplicates(l)
  <2>1. pc[l] = "write" /\ pc'[l] = "sleep" /\ left[l] = {} /\ Losers = {} /\ UNCHANGED tables
    BY <1>6 DEF NoDuplicates, EndPass
  <2>2. HideLosers(Losers)
    BY <2>1 DEF HideLosers, tables
  <2>3. \A f \in Files : parsed[f] # "absent" => Written(f)
    BY <1>2, <2>1 DEF Progress, ReadGames, Goto
  <2>4. Settled'
    BY <2>2, <2>3, HidingSettles
  <2>5. QED
    BY <2>1, <2>4 DEF Progress
<1>7. CASE HideDuplicates(l)
  <2>1. pc[l] = "hide" /\ pc'[l] = "sleep" /\ HideLosers(losers[l])
    BY <1>7 DEF HideDuplicates, EndPass
  <2>2. losers[l] = Losers /\ \A f \in Files : parsed[f] # "absent" => Written(f)
    BY <1>2, <2>1 DEF Progress, ReadGames, Goto
  <2>3. Settled'
    BY <2>1, <2>2, HidingSettles
  <2>4. QED
    BY <2>1, <2>3 DEF Progress
<1>8. QED
  BY <1>1, <1>3, <1>4, <1>5, <1>6, <1>7 DEF PassStep

\* Every step keeps it.
LEMMA NextAloneInv == TypeInv /\ AloneInv /\ [Next]_vars => AloneInv'
<1> SUFFICES ASSUME TypeInv, AloneInv, [Next]_vars, NEW l \in Loops, outcome'[l] = "alone"
             PROVE  Progress(l)'
  BY DEF AloneInv
<1>1. CASE Rests(l)
  <2>1. Progress(l)
    BY <1>1 DEF AloneInv, Rests
  <2>2. QED
    BY <1>1, <2>1, RestsKeepsProgress
<1>2. CASE PassStep(l)
  BY <1>2, PassKeepsProgress
<1>3. QED
  BY <1>1, <1>2, AloneStep

\* The inductive invariant over a pass in progress.
THEOREM SpecAloneInv == Spec => []AloneInv
<1>1. Init => AloneInv
  BY DEF Init, AloneInv, Loops
<1>2. QED
  BY <1>1, NextAloneInv, SpecTypeInv, PTL DEF Spec

\* A pass that nobody else overlapped leaves every parsed statsbook showing the
\* game the matcher gives it, or hidden behind the newest file of that game,
\* from whatever crashes, aborted chunks and overlapping passes left before it.
THEOREM UndisturbedPassesSettle == Spec => []SettledAfterResolve
<1>1. AloneInv => SettledAfterResolve
  BY DEF AloneInv, Progress, SettledAfterResolve, RanAlone
<1>2. QED
  BY <1>1, SpecAloneInv, PTL

\* After such a pass search and player pages count the skaters of exactly the
\* statsbooks that the game pages show.
THEOREM PagesAgree == Spec => []PagesAgreeAfterResolve
<1>1. TypeInv /\ SidesFollowMatch /\ AloneInv => PagesAgreeAfterResolve
  <2> SUFFICES ASSUME TypeInv, SidesFollowMatch, AloneInv,
                      NEW l \in Loops, RanAlone(l), NEW f \in Files
               PROVE  CountsSkaters(f) <=> \E game \in Games : f \in GamePage(game)
    BY DEF PagesAgreeAfterResolve
  <2>1. Settled
    BY DEF AloneInv, Progress, RanAlone
  <2>2. ASSUME CountsSkaters(f) PROVE \E game \in Games : f \in GamePage(game)
    <3>1. matches[f] \in Games /\ parsed[f] # "absent"
      BY <2>2 DEF CountsSkaters, Visible
    <3>2. \A g \in Files \ {f} : matches[g] # matches[f]
      BY <2>1, <3>1 DEF Settled, Visible
    <3>3. f \in GamePage(matches[f])
      BY <3>1, <3>2 DEF GamePage
    <3>4. QED
      BY <3>1, <3>3
  <2>3. ASSUME NEW game \in Games, f \in GamePage(game) PROVE CountsSkaters(f)
    <3>1. matches[f] = game /\ parsed[f] # "absent" /\ Visible(f)
      BY <2>3 DEF GamePage, Visible
    <3>2. sides[f] = TeamsOf(game, games) /\ game # "none"
      BY <2>1, <3>1, TablesAssumption DEF Settled, NoGame
    <3>3. QED
      BY <3>1, <3>2, TeamsAreOfTheGame DEF CountsSkaters
  <2>4. QED
    BY <2>2, <2>3
<1>2. QED
  BY <1>1, SpecTypeInv, SidesAlwaysFollowMatch, SpecAloneInv, PTL
=============================================================================
