----------------------------- MODULE WftdaSync -----------------------------
(***************************************************************************)
(* The game sync of the wftda loop: a scan of the paginated results feed,  *)
(* newest date first, that stops early when an incremental scan has gone   *)
(* back far enough, and the marker that makes every so many syncs a full   *)
(* scan.  The feed is not a snapshot: results are published, corrected and *)
(* withdrawn between the requests for two pages.                           *)
(*                                                                         *)
(* Dates are numbers; 0 stands for a game that is not there.  The age of   *)
(* the full scan counts the syncs begun since it was recorded.             *)
(***************************************************************************)
EXTENDS Integers, FiniteSets, FiniteSetsExt

CONSTANTS
  Games,         \* ids of WFTDA games
  Dates,         \* the dates a game can have
  Era,           \* statsbook_era_start
  PageSize,      \* games on a page of /api/results
  Lookback,      \* WFTDA_GAMES_LOOKBACK
  FullInterval,  \* WFTDA_FULL_REFRESH_INTERVAL
  MaxEdits,      \* bound on changes of the feed
  MaxFaults      \* bound on failed requests, failed transactions and crashes

ASSUME WftdaSyncAssumption ==
  /\ Games \subseteq Nat /\ IsFiniteSet(Games)
  /\ Dates \subseteq Nat \ {0} /\ IsFiniteSet(Dates) /\ Era \in Dates
  /\ PageSize \in Nat \ {0}
  /\ Lookback \in Nat /\ FullInterval \in Nat
  /\ MaxEdits \in Nat /\ MaxFaults \in Nat

VARIABLES
  feed,    \* per game: the date under which the feed lists it, or 0
  scored,  \* games whose result has both scores
  games,   \* wftda_games: per game its date, or 0
  age,     \* sync_state: syncs begun since the last full scan was recorded
  stage,   \* "sleep", "scan", "store" or "mark": where run_sync stands
  full,    \* whether this scan is a full one
  stop,    \* stop_before
  page,    \* the page to request next
  got,     \* per game: the date read so far by this scan, or 0
  edits,   \* number of changes of the feed so far
  faults,  \* number of faults so far
  still    \* history: the feed has not changed since this scan began

feedVars == <<feed, scored, edits>>
scanVars == <<full, stop, page, got>>
vars == <<feedVars, games, age, stage, scanVars, faults, still>>

Nothing == [g \in Games |-> 0]

InScope == {date \in Dates : date >= Era}

\* Dates, pages and markers are well formed; in particular no game from before the era is ever stored.
TypeOK ==
  /\ feed \in [Games -> Dates \cup {0}]
  /\ scored \in SUBSET Games
  /\ games \in [Games -> InScope \cup {0}]
  /\ age \in 0..FullInterval
  /\ stage \in {"sleep", "scan", "store", "mark"}
  /\ full \in BOOLEAN
  /\ stop \in Int
  /\ page \in Nat \ {0}
  /\ got \in [Games -> InScope \cup {0}]
  /\ edits \in 0..MaxEdits
  /\ faults \in 0..MaxFaults
  /\ still \in BOOLEAN

\* No marker counts as a marker that is due.
Init ==
  /\ feed \in [Games -> Dates \cup {0}]
  /\ scored = {g \in Games : feed[g] # 0}
  /\ games = Nothing
  /\ age = FullInterval
  /\ stage = "sleep"
  /\ full = FALSE /\ stop = Era /\ page = 1 /\ got = Nothing
  /\ edits = 0 /\ faults = 0
  /\ still = FALSE

-----------------------------------------------------------------------------
(* The feed *)

Edit ==
  /\ edits < MaxEdits
  /\ edits' = edits + 1
  /\ still' = FALSE
  /\ UNCHANGED <<games, age, stage, scanVars, faults>>

\* A result is published, with or without scores, or moved to another date.
Publish(g, date) ==
  /\ Edit
  /\ feed' = [feed EXCEPT ![g] = date]
  /\ scored' \in {scored \cup {g}, scored \ {g}}

Withdraw(g) ==
  /\ Edit
  /\ feed[g] # 0
  /\ feed' = [feed EXCEPT ![g] = 0]
  /\ UNCHANGED scored

Listed == {g \in Games : feed[g] # 0}

\* The feed is newest first.
Above(g, h) == feed[g] > feed[h] \/ (feed[g] = feed[h] /\ g < h)

Rank(g) == Cardinality({h \in Listed : Above(h, g)})

Page(n) == {g \in Listed : (n - 1) * PageSize <= Rank(g) /\ Rank(g) < n * PageSize}

\* last_page of the envelope, never less than the page asked for.
LastPage == Max({page, (Cardinality(Listed) + PageSize - 1) \div PageSize})

-----------------------------------------------------------------------------
(* run_sync *)

Known == {g \in Games : games[g] # 0}

BeginScan ==
  /\ stage = "sleep"
  /\ stage' = "scan"
  /\ age' = Min({age + 1, FullInterval})
  /\ page' = 1 /\ got' = Nothing
  /\ still' = TRUE
  /\ UNCHANGED <<feedVars, games>>

\* games_scan_scope: full without a marker, without games or when one is due;
\* otherwise back to the newest known date less the lookback.
StartSync ==
  /\ BeginScan
  /\ full' = (Known = {} \/ age >= FullInterval)
  /\ stop' = IF full' THEN Era ELSE Max({Era, Max({games[g] : g \in Known}) - Lookback})
  /\ UNCHANGED faults

\* The scope cannot be read: a full scan.
ScopeFails ==
  /\ BeginScan
  /\ faults < MaxFaults
  /\ faults' = faults + 1
  /\ full' = TRUE
  /\ stop' = Era

Oldest(rows) == Min({feed[g] : g \in rows})

\* Seeded fault: a page that ends on the cutoff date counts as past it.
ReachesCutoffDate(rows) == Oldest(rows) <= stop

\* The page dips below the cutoff.
ReachesCutoff(rows) == Oldest(rows) < stop

\* The rows of a page that are collected.
Kept(rows) == {g \in rows \cap scored : feed[g] >= Era}

\* One request: rows before the era or without scores are left out, the others
\* collected; a game that has slid to this page since it was read is read again.
ReadPage ==
  /\ stage = "scan"
  /\ LET rows == Page(page)
     IN  IF rows = {}
         THEN stage' = "store" /\ UNCHANGED <<page, got>>
         ELSE /\ got' = [g \in Games |-> IF g \in Kept(rows) THEN feed[g] ELSE got[g]]
              /\ IF ReachesCutoff(rows) \/ page >= LastPage
                 THEN stage' = "store" /\ UNCHANGED page
                 ELSE page' = page + 1 /\ UNCHANGED stage
  /\ UNCHANGED <<feedVars, games, age, full, stop, faults, still>>

\* Seeded fault: every scan moves the marker.
StoreMarksAlways ==
  /\ stage = "store"
  /\ games' = [g \in Games |-> IF got[g] # 0 THEN got[g] ELSE games[g]]
  /\ stage' = "mark"
  /\ got' = Nothing /\ page' = 1
  /\ UNCHANGED <<feedVars, age, full, stop, faults, still>>

\* One transaction upserts all of the scan; only a full scan moves the marker.
Store ==
  /\ stage = "store"
  /\ games' = [g \in Games |-> IF got[g] # 0 THEN got[g] ELSE games[g]]
  /\ stage' = IF full THEN "mark" ELSE "sleep"
  /\ got' = Nothing /\ page' = 1
  /\ UNCHANGED <<feedVars, age, full, stop, faults, still>>

\* record_full_games_sync; the resolve pass that follows is in Pipeline.
Mark ==
  /\ stage = "mark"
  /\ age' = 0
  /\ stage' = "sleep"
  /\ UNCHANGED <<feedVars, games, scanVars, faults, still>>

\* A request fails for good, a transaction or the marker fails, or the process
\* restarts: what the scan has read is lost, what it has stored stays.
Fails ==
  /\ stage # "sleep"
  /\ faults < MaxFaults
  /\ faults' = faults + 1
  /\ stage' = "sleep"
  /\ still' = FALSE
  /\ got' = Nothing /\ page' = 1
  /\ UNCHANGED <<feedVars, games, age, full, stop>>

Loop == StartSync \/ ReadPage \/ Store \/ Mark

Next ==
  \/ Loop \/ ScopeFails \/ Fails
  \/ \E g \in Games : Withdraw(g) \/ \E date \in Dates : Publish(g, date)

Spec == Init /\ [][Next]_vars

\* The loop is one task whose awaits all return.
FairSpec == Spec /\ WF_vars(Loop)

-----------------------------------------------------------------------------
(* Properties *)

Due == {g \in Listed \cap scored : feed[g] >= Era}

\* A scan during which the feed stood still has stored every game down to its
\* cutoff date, whichever pages they were on: pages that end on the cutoff
\* date, games with missing scores and games before the era cut no scan short.
StillScanIsComplete ==
  stage = "sleep" /\ still => \A g \in Due : feed[g] >= stop => games[g] = feed[g]

\* Games that the scans have missed are not missing for ever: those that slid
\* to a page already read, those published or moved to before the lookback, and
\* those hidden from incremental scans by a game with a date in the future.
FeedIsCaughtUp == <>[](\A g \in Due : games[g] = feed[g])
=============================================================================
