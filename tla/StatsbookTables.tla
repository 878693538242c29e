-------------------------- MODULE StatsbookTables --------------------------
(***************************************************************************)
(* The CockroachDB tables the ingest loops share, and the statements and   *)
(* transactions that write them.  The database is SERIALIZABLE, so each    *)
(* statement outside a transaction and each whole transaction is one       *)
(* atomic step; everything the code spreads over several of them is spread *)
(* over several steps by the modules that extend this one.                 *)
(*                                                                         *)
(* A row that is not there is the value "absent".  The two side rows, the  *)
(* skater rows and the summary rows of a file are written and deleted      *)
(* together with its statsbook_games row, so one variable stands for them  *)
(* all; only the column the resolver writes (wftda_team_id of both sides)  *)
(* has a variable of its own, holding the game whose teams were assigned   *)
(* and the result that named them, as WFTDA may correct it later.          *)
(***************************************************************************)
EXTENDS Naturals, FiniteSets

CONSTANTS
  Files,        \* drive_file_id values, ordered (the resolver orders by id)
  Games,        \* ids of WFTDA games that can come to exist
  Results,      \* what WFTDA says of a game: its date, teams and scores
  Feeds,        \* what a scan of the WFTDA results can bring
  Contents,     \* what a Drive file can hold
  Placeholder,  \* a workbook without recorded game data
  Unreadable,   \* bytes the parser rejects
  MatchOf,      \* the matcher: a parsed content and the game rows to a match
  WriteBatch    \* WRITE_BATCH, statsbooks written per transaction

Parseable == Contents \ {Placeholder, Unreadable}

NoGame == {"none", "duplicate", "absent"}

\* The rows of wftda_games: the result of each game, or "absent".
GameRows == [Games -> Results \cup {"absent"}]

NoGames == [game \in Games |-> "absent"]

\* wftda_team_id of the two sides when they are assigned a game, or none.
NoTeams == <<"none", "absent">>
TeamsOf(game, rows) == IF game = "none" THEN NoTeams ELSE <<game, rows[game]>>

ASSUME TablesAssumption ==
  /\ Files \subseteq Nat
  /\ IsFiniteSet(Files)
  /\ Games \cap NoGame = {}
  /\ "absent" \notin Contents \cup Results
  /\ Feeds \subseteq GameRows
  /\ WriteBatch \in Nat \ {0}
  /\ MatchOf \in [Parseable -> [GameRows -> Games \cup {"none"}]]
  /\ \A c \in Parseable, rows \in GameRows :
       MatchOf[c][rows] # "none" => rows[MatchOf[c][rows]] # "absent"

VARIABLES
  status,   \* statsbooks.parse_status, or "absent"
  mtime,    \* statsbooks.modified_time (0 for an absent row)
  parsed,   \* statsbook_games/_sides/_skaters/_summary: the content they hold
  sides,    \* statsbook_sides.wftda_team_id: the game, and the result of it,
            \* whose teams are assigned
  matches,  \* game_matches: the matched game, or why the file is hidden
  games     \* wftda_games (with their teams in wftda_teams): the result held

tables == <<status, mtime, parsed, sides, matches, games>>

\* The values the columns can hold; in particular parsed rows are only ever those
\* of a workbook that parses and is no placeholder.
TablesTypeOK ==
  /\ status  \in [Files -> {"absent", "pending", "parsed", "failed", "skipped"}]
  /\ mtime   \in [Files -> Nat]
  /\ parsed  \in [Files -> Parseable \cup {"absent"}]
  /\ sides   \in [Files -> {NoTeams} \cup (Games \X Results)]
  /\ matches \in [Files -> Games \cup NoGame]
  /\ games   \in GameRows

TablesInit ==
  /\ status  = [f \in Files |-> "absent"]
  /\ mtime   = [f \in Files |-> 0]
  /\ parsed  = [f \in Files |-> "absent"]
  /\ sides   = [f \in Files |-> NoTeams]
  /\ matches = [f \in Files |-> "absent"]
  /\ games   = NoGames

-----------------------------------------------------------------------------
(* Drive index *)

\* Seeded fault: a re-upload keeps the status of the earlier revision.
UpsertKeepsStatus(f, time) ==
  /\ status' = [status EXCEPT ![f] = IF @ = "absent" THEN "pending" ELSE @]
  /\ mtime' = [mtime EXCEPT ![f] = time]
  /\ UNCHANGED <<parsed, sides, matches, games>>

\* A new or re-uploaded file becomes pending; an unchanged one keeps its status.
UpsertStatsbook(f, time) ==
  /\ status' = [status EXCEPT ![f] = IF @ = "absent" \/ mtime[f] # time
                                     THEN "pending" ELSE @]
  /\ mtime' = [mtime EXCEPT ![f] = time]
  /\ UNCHANGED <<parsed, sides, matches, games>>

\* Rows not seen by this listing are deleted; every table keyed by the file
\* follows by ON DELETE CASCADE.
MarkRemoved(seen) ==
  LET Keep(table, gone) == [f \in Files |-> IF f \in seen THEN table[f] ELSE gone]
  IN  /\ status'  = Keep(status, "absent")
      /\ mtime'   = Keep(mtime, 0)
      /\ parsed'  = Keep(parsed, "absent")
      /\ sides'   = Keep(sides, NoTeams)
      /\ matches' = Keep(matches, "absent")
      /\ UNCHANGED games

-----------------------------------------------------------------------------
(* Parse stage *)

\* The parsed rows are replaced; the new side rows name no WFTDA team yet, and
\* game_matches is left as it was.
StoreParsedGame(f, content) ==
  /\ content \in Parseable
  /\ parsed' = [parsed EXCEPT ![f] = content]
  /\ sides'  = [sides EXCEPT ![f] = NoTeams]
  /\ status' = [status EXCEPT ![f] = "parsed"]
  /\ UNCHANGED <<mtime, matches, games>>

\* Seeded fault: the rows of the placeholder are stored.
MarkSkippedStores(f) ==
  /\ parsed' = [parsed EXCEPT ![f] = Placeholder]
  /\ sides'  = [sides EXCEPT ![f] = NoTeams]
  /\ status' = [status EXCEPT ![f] = "skipped"]
  /\ UNCHANGED <<mtime, matches, games>>

\* The parsed rows go; game_matches is left as it was.
MarkSkipped(f) ==
  /\ parsed' = [parsed EXCEPT ![f] = "absent"]
  /\ sides'  = [sides EXCEPT ![f] = NoTeams]
  /\ status' = [status EXCEPT ![f] = "skipped"]
  /\ UNCHANGED <<mtime, matches, games>>

\* The last good parse stays in place.
SetFailed(f) ==
  /\ status' = [status EXCEPT ![f] = "failed"]
  /\ UNCHANGED <<mtime, parsed, sides, matches, games>>

-----------------------------------------------------------------------------
(* Resolver *)

Visible(f) == matches[f] \in Games

\* Seeded fault: no foreign key from game_matches to statsbooks.
WriteChunkUnchecked(chunk, read, scanned) ==
  LET Resolution(f) == MatchOf[read[f]][scanned]
  IN  /\ matches' = [f \in Files |-> IF f \in chunk THEN Resolution(f) ELSE matches[f]]
      /\ sides' = [f \in Files |-> IF f \in chunk /\ parsed[f] # "absent"
                                   THEN TeamsOf(Resolution(f), scanned) ELSE sides[f]]
      /\ UNCHANGED <<status, mtime, parsed, games>>

\* Seeded fault: the side rows keep the assignment of an earlier pass.
WriteChunkNoSides(chunk, read, scanned) ==
  LET Resolution(f) == MatchOf[read[f]][scanned]
  IN  /\ \A f \in chunk : status[f] # "absent"
      /\ matches' = [f \in Files |-> IF f \in chunk THEN Resolution(f) ELSE matches[f]]
      /\ UNCHANGED <<status, mtime, parsed, sides, games>>

\* The transaction for one chunk of statsbooks: upsert each game_matches row,
\* whose foreign key needs the statsbook, and set the side rows that exist.
WriteChunk(chunk, read, scanned) ==
  LET Resolution(f) == MatchOf[read[f]][scanned]
  IN  /\ \A f \in chunk : status[f] # "absent"
      /\ matches' = [f \in Files |-> IF f \in chunk THEN Resolution(f) ELSE matches[f]]
      /\ sides' = [f \in Files |-> IF f \in chunk /\ parsed[f] # "absent"
                                   THEN TeamsOf(Resolution(f), scanned) ELSE sides[f]]
      /\ UNCHANGED <<status, mtime, parsed, games>>

\* ORDER BY modified_time DESC, drive_file_id
RanksBefore(f, g) == mtime[f] > mtime[g] \/ (mtime[f] = mtime[g] /\ f < g)

\* Seeded fault: ranked by id alone.
LosersById == {f \in Files : Visible(f) /\ \E g \in Files : matches[g] = matches[f] /\ g < f}

\* Row number > 1 among the files matched to the same game.
Losers == {f \in Files : /\ Visible(f)
                         /\ \E g \in Files : matches[g] = matches[f] /\ RanksBefore(g, f)}

\* Seeded fault: the sides of a hidden file stay assigned.
HideLosersOnly(hidden) ==
  /\ matches' = [f \in Files |-> IF f \in hidden /\ matches[f] # "absent"
                                 THEN "duplicate" ELSE matches[f]]
  /\ UNCHANGED <<status, mtime, parsed, sides, games>>

\* The losers are hidden by id, whatever their rows say by now.
HideLosers(hidden) ==
  /\ matches' = [f \in Files |-> IF f \in hidden /\ matches[f] # "absent"
                                 THEN "duplicate" ELSE matches[f]]
  /\ sides' = [f \in Files |-> IF f \in hidden THEN NoTeams ELSE sides[f]]
  /\ UNCHANGED <<status, mtime, parsed, games>>

-----------------------------------------------------------------------------
(* WFTDA sync *)

\* One transaction upserts the scanned games, those known already with the
\* date, teams and scores they have now, and any stub team they need; a game is
\* never deleted.
SyncGames(scanned) ==
  /\ games' = [g \in Games |-> IF scanned[g] = "absent" THEN games[g] ELSE scanned[g]]
  /\ UNCHANGED <<status, mtime, parsed, sides, matches>>

-----------------------------------------------------------------------------
(* What the schema and the transactions keep true *)

\* No parsed, side or match row outlives its statsbook.
ForeignKeys ==
  \A f \in Files : status[f] = "absent" => parsed[f] = "absent" /\ matches[f] = "absent"

\* A side credits a WFTDA team only for the game its file is matched to: a team
\* or player page never counts a statsbook under a game the game page does not
\* show it for.  Two resolvers, a re-parse and a retraction can fall in any
\* order between the writes of game_matches and statsbook_sides.
SidesFollowMatch ==
  \A f \in Files : sides[f] # NoTeams => /\ matches[f] = sides[f][1]
                                         /\ parsed[f] # "absent"
=============================================================================
