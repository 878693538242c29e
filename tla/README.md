# statsk.boo in TLA+

statsk.boo shows roller derby statistics. It reads statsbooks (spreadsheets) from a
Google Drive folder, game results from stats.wftda.com, matches the two, stores
everything in CockroachDB and serves HTML pages from it. This directory holds a model
of what is hard to test in it: two background loops that share tables without
excluding one another, caches that are judged by time stamps, feeds and folders that
change while they are read, a matcher with many tie-breaks, a parser of workbooks that
people fill in by hand, and a tool that moves files and may be stopped and run again. Paths below are
relative to the repository, whose crate is in `src/`.

## Inventory

| Component | State it keeps | Operations | Interacts with |
|---|---|---|---|
| drive loop (`ingest/mod.rs:38-130`) | none across iterations | drain, resolve; then index, drain, resolve, sleep for ever | calls index, parse stage, resolver; clears the response cache |
| wftda loop (`ingest/mod.rs:17-36`, `ingest/wftda.rs:419-449`) | none across iterations | team sync, game sync, resolve, sleep | writes the tables the drive loop's resolver reads |
| statsbook index (`ingest/statsbook_index.rs`) | `statsbooks` | list, upsert per file, delete the unseen, remove their cached bytes | Drive client, byte cache |
| Drive client (`ingest/drive.rs`, `drive_auth.rs`) | token, permit | list requests, downloads, retries, token refresh | index, concurrent downloads of the parse stage |
| parse stage (`ingest/statsbook_parse.rs`) | `parse_status`, parsed rows | select a batch; per file cache or download, parse, store, skip or fail | Drive client, byte cache, tables |
| byte cache (`ingest/data_cache.rs`) | one file per Drive id and its mtime | read if fresh, write, remove | index, parse stage |
| resolver (`ingest/resolve.rs:440-691`) | `game_matches`, `statsbook_sides.wftda_team_id` | read, write in chunks, hide duplicates | run by both loops, concurrently |
| matcher (`ingest/resolve.rs:186-440`, `canon.rs`) | an index of games | signature path, window path, sides | resolver |
| WFTDA game sync (`ingest/wftda.rs:264-402`, `451-514`) | `wftda_games`, `sync_state` | scope, page requests, store, marker | wftda loop |
| WFTDA team sync (`ingest/wftda.rs:195-262`) | `wftda_teams` | list, join slugs, upsert; the game sync adds stubs | wftda loop, team pages |
| response cache (`cache.rs`, `web/cache.rs`) | bodies, bytes used | look up, render, store, clear | requests, both loops |
| page queries (`web/handlers/`) | none | which statsbook a page shows | tables |
| statsbook parser (`ingest/parse.rs`, `models.rs`) | none | a workbook to a game | parse stage |
| rekey-cache (`rekey_cache.rs`) | files of the byte cache | rename, copy or only report, per Drive id | run by hand, before the byte cache is used |
| configuration, start-up | none | read once | everything |

What makes each correct, and what is hard about it:

- **Loops and tables.** A pass of the resolver reads games and statsbooks with plain
  SELECTs, writes one transaction per chunk, reads the duplicates with another
  statement and hides them in a last transaction. The other loop, a Drive user, a
  failing transaction or a restart can act between any two of these. Correct means: a
  side credits only the game its file is matched to, retracted files leave nothing
  behind, an undisturbed pass settles everything, re-uploads are not lost, and the
  site converges.
- **Index, Drive client.** A listing is many requests over a tree that changes; each
  request is retried, and concurrent downloads share a token. Correct means: a failed
  or partial listing retracts nothing, no file is retracted by accident, a 401 drops
  only the token that caused it, and retries end.
- **Parse stage, byte cache.** Failing rows are selected again and again; bytes are
  fresh if written after the modified time. Correct means: drains end, leave only rows
  that fail, and cached bytes never bring back an old revision.
- **Game sync.** The feed is paged and changes between pages; incremental scans stop
  early. Correct means: a scan of a feed that stands still is complete down to its
  cutoff, and whatever incremental scans miss a full scan makes good.
- **Team sync.** The API and each page of the listing are read at different moments,
  slugs are joined to titles and kept by COALESCE under a UNIQUE constraint. Correct
  means: a team's link leads to that team alone, no stub replaces a team of the API,
  and the rows catch up with WFTDA unless an old slug stands in the way.
- **Statsbook parser.** Jam numbers may be text, star pass rows may be missing on one
  of two sheets, a sheet may be full, formula values may be absent, stale or text, dates
  may be written day-first. Correct means: jams, line-ups and points are those played,
  the result and each skater's counts are those of the officials, the date is the one meant.
- **rekey-cache.** Ids share legacy files, candidates differ in version, a copy has
  three steps and any of them may be the last. Correct means: no statsbook is lost or
  given to an id that does not own it, flawed files are reported, a good run leaves
  nothing to later ones, and a dry run foretells what a run would do.
- **Response cache.** The count of bytes is kept by hand; a page can be rendered
  before a clear and stored after it. Correct means: the count is exact, and stale
  pages do not stay.
- **Matcher.** Ties, margins and windows. Correct means: the answer depends neither on
  the order of games nor on which side is called home, scores end up with the team
  that made them, and a new game moves a match from one old game to another in one case
  only: it has the exact score the match was found by, too, and is as near, so that the
  window decides.

`PROJECT.json` lists each hazard at its line, with the properties that would catch it.

## Modules

| Module | Models | Composes |
|---|---|---|
| `StatsbookTables` | the shared tables and each transaction that writes them | |
| `Pipeline` | both loops, Drive users, faults, restarts | extends `StatsbookTables` |
| `PipelineProperties` | page queries and properties | extends `Pipeline` |
| `MCPipeline` | a matcher and an instance for TLC | extends `PipelineProperties` |
| `PipelineProofs` | theorems, those about a pass of the resolver among them | extends `PipelineProperties` |
| `ParseStage`, `MCParseStage` | queue, batches, byte cache, releases | |
| `ParseStageProofs` | theorems | extends `ParseStage` |
| `DriveListing` | Drive client, listing by folders and pages, downloads | |
| `DriveListingProofs` | theorems | extends `DriveListing` |
| `HttpCache`, `MCHttpCache` | response cache, requests, clears | |
| `HttpCacheProofs` | theorems | extends `HttpCache` |
| `WftdaSync` | scan of the results feed, marker | |
| `WftdaSyncProofs` | theorems | extends `WftdaSync` |
| `WftdaTeams` | team sync, stubs, which row a team page finds | |
| `WftdaTeamsProofs` | theorems | extends `WftdaTeams` |
| `Matcher`, `MCMatcher` | both match paths and the sides | |
| `StatsbookParser`, `MCStatsbookParser` | workbooks as people fill them in, and what is parsed from them | |
| `StatsbookProofs` | theorems about both | extends `Matcher`, `StatsbookParser` |
| `CacheKeys` | what rekey-cache promises | |
| `Rekey`, `MCRekey` | runs of rekey-cache, file operation by file operation | implements `CacheKeys` |
| `RekeyProofs` | theorems, the refinement among them | extends `Rekey` |

How state and actions correspond to the code:

- **StatsbookTables.** One variable per column that matters: `status`, `mtime`
  (`statsbooks`), `parsed` (the content whose rows are in `statsbook_games`, `_sides`,
  `_skaters`, `_summary`; these are written and deleted together), `sides` (the game, and
  the result of it, whose teams both sides were given), `matches` (`game_matches`: a
  game, or why the file is hidden), `games` (the result of each game; `SyncGames` is an
  upsert, so a correction replaces it). The database is SERIALIZABLE, so a transaction is one step.
- **Pipeline.** `pc` says where each loop stands. `ListDrive`, `IndexFile`,
  `FinishIndex` are `sync_statsbook_index`; `Download`, `Store`, `ParseFails`,
  `SelectFails`, `FinishDrain` the drain; `ReadGames`, `ReadBooks`, `WriteNextChunk`,
  `ReadDuplicates`, `HideDuplicates` a resolve pass, which either loop can be in;
  `Scan` a game sync, which may bring games and correct known ones (`Corrects`).
  `ChunkBreaksForeignKey` is a chunk that meets a statsbook
  retracted since it was read; `Restart` loses everything but the tables.
- **ParseStage.** Batches of `BatchLimit` in the order of the SELECT, failing rows
  selected again, `PARSER_VERSION` bumps at restarts, the mtime of cache files against
  `modified_time`, removal after retraction. `ReadCachedFails` is a fresh cache file
  that cannot be read and is downloaded anew.
- **DriveListing.** `request[r]` follows one request through permit, token and answer;
  request 0 is the listing's. `ListFolders` and `ListFiles` each take one page;
  `NextPage` goes on with the next page or, by `NextList`, the next folder.
  Failures are not bounded.
- **HttpCache.** `Miss`, `Render`, `Respond` are the middleware around a handler;
  `HitFails` is an entry that cannot be decompressed and is rendered anew, `Abandon` a
  request that ends without a page to store (an error, or a client that has gone).
  `Write` is any commit of a loop, `Clear` its clear.
- **WftdaSync.** `StartSync` is `games_scan_scope`, `ReadPage` a round of the loop in
  `sync_games`, `Store` its transaction, `Mark` `record_full_games_sync`.
- **WftdaTeams.** `ReadApi` is the request for `/api/teams`, `ReadListing` a round of the
  loop over listing pages, `Store` the transaction of upserts (`Upsert` is the COALESCE,
  `KeepsSlugsUnique` the constraint, met row by row), `StoreStubs` the insert of
  unknown teams by the game sync. `Found` and `Shown` are the lookups and the redirect
  of a team page.
- **StatsbookParser.** `PlayJam`, `GivePenalty`, `WriteDate` and `Save` fill in a
  workbook and keep, as history, the game that is meant; `Parse` is `parse_statsbook`.
  `ReadJams` walks Score, with the row of totals below it when a period fills its sheet
  (`ScoreRows`), `MergeLineups` walks Lineups beside it (a recursive function
  each), `Score`, `GameSummary` and `IgrfDate` are the choices between sheets, formula
  values and file name. Reference definitions (`Official`, `JamsOf`, `OnTrack`) are
  written from the history alone. The
  assumption `ParserAssumption` says what a play may be: a jammer who gets the star was in
  the line-up, and a line-up has five places and no skater in two of them.
- **Rekey.** A file has an origin, is whole or not, and is dated as its source or not.
  `Start` to `EndRun` is one call of `rekey`; `Decide` takes the ids in order and is
  one of `CountMissing`, `Skip`, `Pretend`, `Rename` or `BeginCopy`, the last
  followed by `EndCopy` and `Stamp`. `Fails` is an error or a crash between any two.
  Refinement: `Keys == INSTANCE CacheKeys WITH keyed <- Keyed`, where `Keyed` hides
  copies that are not whole; `KeepsEveryStatsbook == Keys!Spec`.
- **Matcher.** The state is a statsbook and the games loaded so far, so that action
  properties can compare the answers before and after a sync brings a game. Its
  specification is `MatchSpec` (with `MatchInit`, `MatchNext` and `matchVars`), so that
  one module can extend both it and the parser.

Definitions whose comment begins with "Seeded fault" are mutants: `PROJECT.json` names
the definition each replaces and the property TLC then finds violated.

## Runs

| Run | Question | Result |
|---|---|---|
| `pipeline` | safety of the two loops under uploads, trashings, restores, failures, restarts; does the site catch up once they stop | holds (965 829 states, 3 minutes) |
| `pipeline_sync` | does the pass after a sync show what the sync brought | no |
| `pipeline_placeholder` | do placeholders stay off team pages | no |
| `parse_stage` | drains end and finish, the byte cache serves the right revision | holds |
| `parse_race` | does a re-upload always miss the byte cache | no |
| `drive_listing` | tokens, retries, retractions while the tree changes | holds |
| `http_cache` | accounting and freshness of the response cache | holds |
| `wftda_sync` | scans of a changing feed | holds |
| `wftda_teams` | links, stubs and catching up while WFTDA renames and retires | holds (1 396 350 states) |
| `matcher` | every sequence of up to three results | holds |
| `parser` | every workbook of up to three jams, filled in and saved in every way | holds (439 583 states) |
| `rekey` | three runs in any mode, two of which fail or die anywhere | holds (402 898 states) |

The runs with the answer "no" are disagreements with a statement of the repository:

1. *`pipeline_sync`.* A pass of the drive loop that read `wftda_games` before a sync
   writes its chunks after the pass that followed the sync: the statsbook is hidden
   again, until the next pass, although `resolve.rs` says it becomes visible the
   moment the sync brings a game in.
2. *`pipeline_placeholder`.* `mark_skipped` deletes the parsed rows but not the
   `game_matches` row, and no pass visits a file without parsed rows: a matched file
   re-uploaded as an unfilled placeholder stays linked on team pages.
3. *`parse_race`.* A cache file is stamped when it is written, after the download: a
   re-upload in between has an older `modified_time`, so the old bytes count as fresh.

Behaviour the models contain on which no run is spent; the passing properties state it as a condition or an exception:

- Duplicates are read, then hidden by id in a later transaction. In between the other
  loop can make the file in hand the newest one of its game; it is hidden all the same
  until the next pass. `SettledAfterResolve` therefore speaks of undisturbed passes.
- The tree is listed folder by folder. A file moved meanwhile from a folder not yet
  listed to one already listed (or not in the list of folders) is retracted with its
  rows and match until the next cycle. `UntouchedFilesAreKept` speaks of files that lie
  still, `ListingCatchesUp` of what follows.
- A slug that has passed from a retired team to an active one is held by the retired
  row (COALESCE), so every upsert of the new owner breaks the UNIQUE constraint and the
  team sync stores nothing in any later cycle. This is the exception `Wedged` of
  `TeamsCatchUp`.
- After a run by renames a second run counts the ids it has done as missing, because
  their legacy files are gone, and not as skipped, as it does after a run by copies.
  `RerunsChangeNothing` is about the files, which both leave alone.
- `parse_scores` takes any text in the row after a jam for a star pass. If a period uses
  all 38 rows and ends in a jam, that row is PERIOD TOTALS. Its count of jams is text
  where a program saved numbers as text (as in the fixture `arch-rival-mile-high.xlsx`),
  and empty text where formulas were never calculated: the jam gets a jammer called
  PERIOD TOTALS and, where the totals are there, the points of the whole period once
  more. The properties of the parser about jams and points ask that no such row is read
  (`TotalsUnread`).
- `merge_lineups` goes by the place of a period in the sequence. If all jam numbers of
  period 1 are typed as text on Score none of its jams is read, period 2 comes first,
  and gets the line-ups of period 1. `JamsAreReadBack` asks that numbers are numbers on
  Score, and looks at the line-ups of periods that are in place; `StatsAreOfThoseWhoPlayed`
  also asks that the first period has jams if any has.

Related limits the passing properties state as conditions: `DrainParsesTheRest` needs
fewer failing rows than a batch, because rows that fail are selected first when they
are older and can fill every batch; `QuietClearIsFresh` needs a clear with no request
in flight, because a page rendered before a clear can be stored after it and then
stays until the next clear (`PagesCatchUp` says not for ever).

## Bounds

| Run | Bounds | Why they are enough |
|---|---|---|
| `pipeline` | 2 files, 2 games, 2 results of which one is corrected to the other, contents that match one game, a contested one, a placeholder, junk; chunks of one; 2 edits (a correction is one), 2 faults, 3 together, and as many restores as trashings | duplicates and chunks need two files; each race found needs at most three outside events |
| `parse_stage` | 3 files, batches of 2, 3 uploads (bad, game, placeholder), 1 fault | a failing row, a batch boundary and a row behind it |
| `drive_listing` | 2 files, 2 folders, pages of one, 3 attempts, 2 downloads at once | a folder of two pages, a move in both directions, a retry of a retry |
| `http_cache` | 2 pages, 3 requests, 2 loops, 3 writes | two requests for one page with a clear between; bodies that grow, shrink and exceed the limits |
| `wftda_sync` | 3 games, 3 dates of which one is before the era, pages of one, 2 edits, 1 fault | equal dates over two pages, a slide to a page already read, a date far ahead |
| `wftda_teams` | 2 teams, 3 titles, 2 slugs, pages of one, 2 edits, 1 fault | slugs that are exchanged, and one that passes from a retired team to an active one; a title on two pages |
| `parser` | 3 jams in 2 periods, 1 penalty, rosters with a duplicate, a starred number and a blank row, 3 days | a star pass between two jams, a second period alone, a day that can be read both ways |
| `rekey` | 5 ids, 4 legacy files, 3 runs, 2 faults | files that ids share, an id with two candidates, one that is unsafe, a flaw met by two later runs |
| `matcher` | up to 3 of 48 results, 4 statsbooks | a best, a runner-up and a newcomer |

Every bound is a constant with `Max` in its name or the size of a constant set.
Symmetry is not used: files and games are ordered by the code.

## Fairness

Each loop is one Tokio task whose awaits return (requests have timeouts, statements
end), so each loop's steps have weak fairness: `WF_vars(DriveLoop)` and
`WF_vars(WftdaLoop)` in `Pipeline`, `WF_vars(Loop)` elsewhere. `StatsbookParser`,
`Matcher` and `Rekey` have no fairness and no liveness: a workbook is parsed or not, and
an operator may run the tool or not; they stop, so their runs do not look for deadlock. In `DriveListing` the
errors of a request are among those steps, since a request may end with one again and
again. In `HttpCache` a request in flight is answered and each loop comes round to its
clear: each request has weak fairness for `Render \/ Abandon` and for its answer.
Users and faults owe nothing; their number is bounded, or, in `DriveListing`,
`calm` says from when on they rest, and only `ListingCatchesUp` asks for that.

## Proofs

The eight `...Proofs` modules hold for every set of files, games, teams and ids, every
matcher, size of chunks, pages, batches and bodies, and every number of edits and
faults that the named assumptions allow (`TablesAssumption`, `PipelineAssumption`,
`DriveListingAssumption`, `HttpCacheAssumption`, `ParseStageAssumption`,
`WftdaSyncAssumption`, `WftdaTeamsAssumption`, `RekeyAssumption`, `MatcherAssumption`,
`ParserAssumption`). Every safety invariant and every action property that a passing
run checks is among them.

- `TypeCorrect`: `TypeOK` is not inductive. `TypeInv` adds `LeftWasRead` (a pass still
  has to write only files whose rows it read: otherwise a chunk could write the match
  of a file it knows nothing of) and `InFlight` (what is downloaded belongs to the
  drain in hand, whose files keep their rows).
- `RetractedStaysGone`, `SidesAlwaysFollowMatch`: every step is one of a few
  transactions on the tables or leaves them alone (`NextIsTransaction`); each
  transaction preserves `ForeignKeys` and `SidesFollowMatch`, whatever the loops do
  around it. This is why overlapping passes, stale reads included, never split a side
  from its match.
- `OnlyUnlistedAreRetracted`: an action property, by the same list of transactions.
- `ReuploadsAreNotLost`: the invariant adds `TimesBehindEdits` (no listing or row
  carries a time Drive has not reached) and `FetchedIsCurrent` (bytes in hand are
  Drive's, or the row is still to be seen with a newer time).
- `UndisturbedPassesSettle`: `AloneInv` is about a pass that no other step overlaps, in progress:
  what it has read is what the tables hold, the files it has passed carry what their
  read content is matched to, and the duplicates it has read are those to hide
  (`Progress`). Hiding them settles the tables (`HidingSettles`) because every game
  with statsbooks has a first-ranked one (`FirstOf`: a finite set under a strict order
  has a least element). The theorem is that invariant at the end of a pass, and with
  `SidesFollowMatch` it gives `PagesAgree`.
- `RefreshedTokensAreKept`: `PermitInv` says that at most one request has the permit and
  that a request under way carries the cached token; every step is one of five things
  that can happen to permit and token.
- `UntouchedFilesStay`: `NoneMissed` says that while a listing runs every untouched file
  has been seen or is ahead, in a later folder or behind the pages read of the folder
  in hand. It needs that the list of subfolders holds all of them (`SeqsCover`) and
  that what a page leaves out comes after it (`PagesAreInOrder`).
- `TypeCorrect` of `DriveListingProofs` adds that a request gives up when its attempts
  are used up, so that their count stays below `MAX_ATTEMPTS`.
- `HttpCacheProofs`: `TypeOK` with what the requests in flight hold (`RequestsOK`), for
  every limit and every size of bodies; `QuietClearIsFresh` with `RendersAreCurrent`.
- `UsedBytesAreExact`: the model adds up bytes with a fold over a set, which chooses the
  order. A finite set has a table of the sums of its subsets in which an element put in or
  taken out changes the sum by its own size, whichever it is (`TableExists`); the fold is one
  lookup in it. The counter of the cache is then changed by `insert` and `remove` as the
  sum is, a replaced body included.
- `ParseStageProofs`: `TypeInv` adds to the types that times are past (`TimesOK`) and
  that files are in hand only during a batch (`StagesOK`). `CacheServesRevisions` needs
  `RevisionsOK`: a cache entry written since the last upload of a file that was not raced
  holds that revision; so do bytes in hand and rows stored under Drive's time, unless
  the entry was raced and its time hides it (`Covered`).
- `DrainsParseTheRest`: a batch is never larger than the limit, and one that is smaller
  is all there is (`BatchIsFull`; the rows are in a strict order, so a finite set of them
  has a first and a last). While nothing disturbs a batch (`BatchInv`), what is in hand
  is what `WouldFail` judges, a row that left without success would fail again, and
  as long as nothing has succeeded the whole batch is in hand or failing. A last batch that was
  full and fruitless is therefore a batch of failing rows (`LastBatch`).
- `WftdaSyncProofs`: `StillScansAreComplete` with `ScanInv` (while the feed stands still,
  every due game ranked before the next page has been read). It rests on facts about
  ranks: the feed is a strict order, so ranks are those of its pages (`RankMonotone`);
  they leave no gap, so nothing lies behind an empty page (`EmptyPageIsLast`, by an
  injection into an interval) or behind `last_page` (`LastPageIsLast`, by the division
  that rounds up).
- `WftdaTeamsProofs`: the invariant is that slugs of rows are unique and that rows not
  stored are bare. Under the constraint, checked upsert by upsert against a table that
  is half old and half new, `SlugsAreUnique` holds of the whole; `LinksAlwaysResolve`
  follows.
- `RekeyProofs`: `CopyInv` (a copy in hand has bytes of a candidate whose legacy file is
  there), `SettledInv` (what a run has passed is decided, and stays so) and `FlawInv`
  (a flawed file is in the report at hand or blamed on a run that died).
  `RekeyKeepsEveryStatsbook` maps every step to one of `CacheKeys` or a stutter.
  `ForecastsComeTrue` needs `ForecastInv`: a forecast classifies every id as the
  directory has it until a run that writes begins; from then on ids still to do are where
  the forecast has them and ids done are in the report as forecast (`Exactly`), or, when a
  rename has taken a file that several ids share, no further than that (`Within`).
- `SignatureFindsTheNearest`, `MatchesAreStable`: both paths of the matcher are loops
  that keep a best and a runner-up. As a fold over the results such a loop has a table
  as sums do, and what it keeps is the best and the second of what it has seen
  (`IsNearestOf` for the distance of dates; for the score of names `Outranks`, a total
  order, and its `Top`). The answer is `Decide` of these two, so it does not depend on the
  order of games, and a newcomer can only become one of them. A newcomer moves a match to
  another old game only by making the nearest exact score a tie (`NewGameTakesOrTies`).
- `HomeAndAwayAreMatchedAlike`, `ExactMatchesKeepScores`: the similarity of a candidate
  is the larger one of its two orientations, and the exact scores leave one of them.
- `DatesAreRead`: `DateInv` says of which day the cell and the file name are, and in which
  of the notations; the theorem goes through the ways the two agree.
- `PlayedJamsAreReadBack`: `BookInv` is the layout of the sheets: play `k` starts in row
  `start[k]` of Score and is there alone, with its star pass in the next one, its line-up
  in the rows it starts on Lineups. The functions that read are recursive on row numbers:
  `ReadJams` is unfolded from the last row back, `MergeLineups` from the first row on, as
  inductions over the naturals. From a row where a play starts, exactly the jams of that
  play and of later ones are read. All theorems about jams assume `TotalsUnread` where
  the properties do.
- `RowsAreCountedOnce`: without readable jam numbers jams are not those played, but every
  row of Score is of one play (`RowsOfJams`), and jams that are read follow one another and
  own disjoint rows (`JamsAreReadInOrder`, `Own`). The sum over the jams read is therefore a
  sum over parts of the rows (`SumOfParts`), never more than the sum over all of them.
- `OfficialResultIsKept`: `CachedInv` says that a total saved in a workbook is the sum of
  the points; what is read instead of a missing one is compared with that sum from both
  sides, by the theorem above and by giving each play played the jam that was read back.
- `StatsAreRight` (`StatsAreOfThoseWhoPlayed`): the loop of `parse_team` keeps a sequence
  without repetitions (`IsTeamOf`, by induction on rows). The jams read are those played,
  each with the places of its own line-up (`InPlace`), so a skater's places and the jams
  skated are one to one (`JamCountIs`, a bijection: it needs line-ups with a skater in one
  place of five). `CountsInv` says what the counts were saved as; what is read instead of a
  missing one is the same number, and the evaluated one is no less (`EvaluatedAtLeast`).

Induction. The library states it for operators, which no prover here instantiates; it is
used instead on *sets* of good numbers (or subsets), where a least bad one exists because
`<` on the naturals and strict inclusion on finite sets are well-founded
(`SubsetInduction`, `NatSetInduction`). In this way the theorems speak of what folds and recursive
functions compute for every input.

Model-checked only: liveness (`Converges`, `DrainsEnd`, `PagesCatchUp`, `RunsEnd`,
`ListingCatchesUp`, `FeedIsCaughtUp`, `TeamsCatchUp`), because fairness and `ENABLED` are
beyond the proof system. The `TypeOK` of `ParseStage`, `WftdaSync` and `DriveListing` is
proved and in no run.

## Abstractions and what is not modelled

- Outside `StatsbookParser` the content of a workbook is a model value, and so is what
  the matcher makes of it outside `Matcher`. `Matcher` takes similarities in hundredths
  and compares sums where the code compares means of `f64`; how `canon.rs` computes a
  similarity is left out.
- `StatsbookParser` leaves out names, the trips within a jam, penalty codes, columns of
  the summary beside jams and percentage, venue and league, and workbooks that lack a
  sheet or cannot be opened. The library that evaluates formulas is external: it gives
  the values the formulas have.
- `Pipeline` has no byte cache (it is optional), drains of one batch, and takes the
  listing in one step; `ParseStage` and `DriveListing` have these in detail.
- `ParseStage` has one clock for Drive and the server.
- HTTP retries of the WFTDA client and transaction retries are a request or transaction
  that succeeds or fails; `last_page` is always given. Delays have no length.
- `Pipeline` takes the games of a pass as one read. In the code a correction that brings
  a team nobody knew may fall between the reading of teams and that of games.
- The titles of teams are fixed in `Pipeline` (`MatchOf`): titles and slugs change in
  `WftdaTeams`, which takes one listing page as one read and assumes that no slug is a
  number. Scraping of the HTML is left out.
- `Rekey` leaves out its arguments and the query of the legacy database; the CSV is a
  sequence of rows. Nothing else writes the cache directory while it runs, and canonical
  ids and Drive ids never coincide. `FlawsAreReported` blames the id a run had in hand
  when it ended early.
- The read-only pages, templates, compression, headers, configuration and start-up are
  not modelled: they keep no state and answer from what the modelled tables hold.

## Plan

1. *(done)* `StatsbookTables`, `Pipeline`, properties, runs, proofs: the most important
   behaviour, what the two loops do to the shared tables.
2. *(done)* `ParseStage`, `DriveListing`, `HttpCache`, `WftdaSync` with proofs, `Matcher`.
3. *(done)* `WftdaTeams` with proofs.
4. *(done)* `CacheKeys`, `Rekey` with proofs and the refinement.
5. *(done)* `StatsbookParser`.
6. *(done)* Proofs about sums (`HttpCacheProofs`), the matcher and the parser
   (`StatsbookProofs`).
7. *(left)* An abstract `Site` (files on Drive and games to what is shown) that `Pipeline`
   implements at the end of undisturbed passes, by INSTANCE with a refinement mapping.
8. *(left)* The other columns of the game summary, and a composition of `WftdaTeams` with
   `WftdaSync` and `Pipeline` in which titles change under the matcher.
