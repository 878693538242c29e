------------------------- MODULE PipelineProperties -------------------------
(***************************************************************************)
(* What the two loops owe the site, stated over Pipeline, and the queries  *)
(* by which the pages pick a statsbook.                                    *)
(***************************************************************************)
EXTENDS Pipeline

-----------------------------------------------------------------------------
(* The pages *)

\* /game/{id}: the newest file matched to the game that has parsed rows.
GamePage(game) ==
  {f \in Files : /\ matches[f] = game /\ parsed[f] # "absent"
                 /\ \A g \in Files \ {f} :
                      matches[g] = game /\ parsed[g] # "absent" => RanksBefore(f, g)}

\* /team/{slug}: the statsbook linked beside a game, the first in id order,
\* whether or not it has parsed rows.
TeamPageLink(game) ==
  {f \in Files : matches[f] = game /\ \A g \in Files : matches[g] = game => f <= g}

\* /search and /player: a skater counts when the side has a team and the game
\* of the file is matched.
CountsSkaters(f) == parsed[f] # "absent" /\ sides[f] # NoTeams /\ Visible(f)

-----------------------------------------------------------------------------
(* Safety *)

\* The game a file would show by its parsed rows and the games known now.  A
\* file whose rows were dropped still claims what game_matches says.
Claim(f) == IF parsed[f] # "absent" THEN MatchOf[parsed[f]][games] ELSE matches[f]

\* A file that ranks before this one shows the game it claims.
Beaten(f) ==
  \E g \in Files : Visible(g) /\ matches[g] = Claim(f) /\ RanksBefore(g, f)

\* Every parsed statsbook shows the game the matcher gives it or is hidden
\* behind the newest file of that game, one that is shown has its sides assigned
\* to the teams the game has now, and no game shows two.
Settled ==
  /\ \A f \in Files : parsed[f] # "absent" =>
       matches[f] = IF Claim(f) \in Games /\ Beaten(f) THEN "duplicate" ELSE Claim(f)
  /\ \A f \in Files : parsed[f] # "absent" /\ Visible(f) => sides[f] = TeamsOf(matches[f], games)
  /\ \A f, g \in Files : Visible(f) /\ matches[f] = matches[g] => f = g

RanAlone(l) == pc[l] = "sleep" /\ outcome[l] = "alone"

\* A resolve pass that no other writer overlapped leaves the tables settled,
\* from whatever an earlier crash, aborted chunk or overlapping pass left.
SettledAfterResolve == \A l \in Loops : RanAlone(l) => Settled

\* ... and then the skaters counted on search and player pages are those of
\* exactly the statsbooks the game pages show.
PagesAgreeAfterResolve ==
  \A l \in Loops : RanAlone(l) =>
    \A f \in Files : CountsSkaters(f) <=> \E game \in Games : f \in GamePage(game)

\* A re-upload is never lost: once the index row carries the modified time
\* Drive has and counts as parsed, the stored rows are those of that revision,
\* although listing, download and store see Drive at different times.
ParsedIsCurrent ==
  \A f \in Files : status[f] = "parsed" /\ mtime[f] = rev[f] => parsed[f] = bytes[f]

\* A statsbook is retracted only by a run whose complete listing lacks it: no
\* failed or partial listing, crash or re-upload deletes one.
OnlyUnlistedRetracted ==
  [][\A f \in Files : status[f] # "absent" /\ status'[f] = "absent"
                      => pc["drive"] = "upsert" /\ listing[f] = 0]_vars

-----------------------------------------------------------------------------
(* Liveness *)

\* No trashed file is left, every readable file is stored as it is on Drive,
\* and the newest claimant of each game shows it with its sides assigned to the
\* teams it has.
CaughtUp ==
  \A f \in Files :
    /\ f \notin onDrive => status[f] = "absent"
    /\ f \in onDrive /\ bytes[f] \in Parseable => parsed[f] = bytes[f]
    /\ /\ parsed[f] # "absent" /\ Claim(f) # "none"
       /\ \A g \in Files \ {f} : Claim(g) = Claim(f) => RanksBefore(f, g)
       => matches[f] = Claim(f) /\ sides[f] = TeamsOf(Claim(f), games)

\* Whatever passes overlapped, failed or died on the way, once the users and
\* the faults stop the site catches up with Drive and WFTDA and stays there.
Converges == <>[]CaughtUp

-----------------------------------------------------------------------------
(* Statements of the documentation that the code does not keep *)

\* Both loops asleep after passes that completed.
Resting == \A l \in Loops : pc[l] = "sleep" /\ outcome[l] # "none"

\* The module header of resolve.rs: a statsbook without a WFTDA counterpart
\* "becomes visible the moment the WFTDA sync brings one in".
SyncMakesVisible ==
  Resting => \A f \in Files : parsed[f] # "absent" /\ Claim(f) # "none"
                              => matches[f] \in {Claim(f), "duplicate"}

\* store_parsed_game on a placeholder: "Store nothing and never let it reach
\* the matcher or the site."
PlaceholdersStayOffTheSite ==
  \A l \in Loops : RanAlone(l) =>
    \A game \in Games : \A f \in TeamPageLink(game) : status[f] # "skipped"
=============================================================================
