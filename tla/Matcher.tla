------------------------------ MODULE Matcher ------------------------------
(***************************************************************************)
(* The matcher of resolve.rs: which WFTDA game a parsed statsbook is of,   *)
(* and which of its sides is which team.  It is a function of the          *)
(* statsbook and the known games; here the games come in one by one, in    *)
(* any order, as the syncs bring them.                                     *)
(*                                                                         *)
(* Similarities are whole hundredths in place of f64, and a name is its    *)
(* similarity to each team.  The mean of two similarities is kept as their *)
(* sum, so thresholds on means are doubled.                                *)
(***************************************************************************)
EXTENDS Integers, Sequences, FiniteSets, FiniteSetsExt, SequencesExt

CONSTANTS
  Teams,       \* team ids, ordered
  Statsbooks,  \* statsbooks to match: day, scores and names of the two sides
  Results,     \* WFTDA results: day, teams and scores
  MaxGames     \* bound on the known games

Threshold == 75
Radius == 400
Margin == 5

Name == [Teams -> 0..100]

ASSUME MatcherAssumption ==
  /\ Teams \subseteq Nat /\ IsFiniteSet(Teams)
  /\ Statsbooks \subseteq [day : Int, home : Name, away : Name,
                           home_score : Nat, away_score : Nat]
  /\ Results \subseteq [day : Int, team_1 : Teams, team_2 : Teams,
                        score_1 : Nat, score_2 : Nat]
  /\ MaxGames \in Nat

VARIABLES
  sb,     \* the statsbook
  games   \* the known games in load order; a game's id is its position

matchVars == <<sb, games>>

\* A statsbook of the set and at most MaxGames results.
TypeOK ==
  /\ sb \in Statsbooks
  /\ games \in Seq(Results)
  /\ Len(games) <= MaxGames

-----------------------------------------------------------------------------
(* Names and scores *)

Distance(m, n) == IF m < n THEN n - m ELSE m - n

\* The two orientations of a statsbook s against a game g: home as team 1, and
\* home as team 2; the sum of the similarities and of the score differences.
Straight(s, g) ==
  [team  |-> s.home[g.team_1] + s.away[g.team_2],
   delta |-> Distance(s.home_score, g.score_1) + Distance(s.away_score, g.score_2)]

Crossed(s, g) ==
  [team  |-> s.home[g.team_2] + s.away[g.team_1],
   delta |-> Distance(s.home_score, g.score_2) + Distance(s.away_score, g.score_1)]

\* Seeded fault: equal names always take the first orientation.
EvaluateNames(s, g) ==
  IF Straight(s, g).team >= Crossed(s, g).team THEN Straight(s, g) ELSE Crossed(s, g)

\* The lexicographic maximum: of two equally named orientations the one with
\* the larger score difference.
Evaluate(s, g) ==
  LET o1 == Straight(s, g)
      o2 == Crossed(s, g)
  IN  IF o1.team > o2.team \/ (o1.team = o2.team /\ o1.delta >= o2.delta) THEN o1 ELSE o2

\* Seeded fault: names decide before scores.
AssignByName(s, g) ==
  IF Crossed(s, g).team > Straight(s, g).team THEN <<g.team_2, g.team_1>>
  ELSE <<g.team_1, g.team_2>>

\* The teams of the home and the away side: by score, then by name, then in
\* the order of the game.
AssignSides(s, g) ==
  LET a == Straight(s, g)
      b == Crossed(s, g)
  IN  IF b.delta < a.delta \/ (a.delta = b.delta /\ b.team > a.team)
      THEN <<g.team_2, g.team_1>>
      ELSE <<g.team_1, g.team_2>>

\* The best team of a name at the threshold, the lowest id among equals; 0 for
\* none.
ResolveSide(name) ==
  LET close == {t \in Teams : name[t] >= Threshold}
  IN  IF close = {} THEN 0
      ELSE Min({t \in close : \A u \in close : name[t] >= name[u]})

-----------------------------------------------------------------------------
(* Path 1: both names resolved, exact score, nearest day *)

HasSignature(s, g) ==
  /\ {s.home_score, s.away_score} = {g.score_1, g.score_2}
  /\ Distance(g.day, s.day) <= Radius
  /\ {g.team_1, g.team_2} = {ResolveSide(s.home), ResolveSide(s.away)}

\* Seeded fault: once tied, a nearer game does not settle the tie.
NearestKeepsTie(best, i, days) ==
  IF best.game = 0 THEN [game |-> i, days |-> days, tied |-> FALSE]
  ELSE IF days < best.days THEN [best EXCEPT !.game = i, !.days = days]
  ELSE IF days = best.days THEN [best EXCEPT !.tied = TRUE]
  ELSE best

\* One turn of the loop over the games of the pair: the nearest game so far and
\* whether another is as near.
Nearest(best, i, days) ==
  IF best.game = 0 \/ days < best.days THEN [game |-> i, days |-> days, tied |-> FALSE]
  ELSE IF days = best.days THEN [best EXCEPT !.tied = TRUE]
  ELSE best

\* The game found by the loop, or 0.
Signature(s, known) ==
  LET found == FoldLeftDomain(
                 LAMBDA best, i : IF HasSignature(s, known[i])
                                  THEN Nearest(best, i, Distance(known[i].day, s.day))
                                  ELSE best,
                 [game |-> 0, days |-> 0, tied |-> FALSE], known)
  IN  IF found.tied THEN 0 ELSE found.game

-----------------------------------------------------------------------------
(* Path 2: the day before, the same day, the day after *)

ZeroTotal(s) == s.home_score + s.away_score = 0

\* window_candidate_ok
Acceptable(s, off, e) ==
  /\ \/ ZeroTotal(s) /\ e.team >= 2 * 85
     \/ ~ ZeroTotal(s) /\ e.delta = 0
     \/ ~ ZeroTotal(s) /\ off = 0 /\ e.team >= 2 * 80 /\ e.delta <= 12
     \/ ~ ZeroTotal(s) /\ off = 0 /\ e.team >= 2 * 90 /\ e.delta <= 40
  /\ off = 0 \/ e.team >= 2 * 60

Candidates(s, known) ==
  {i \in DOMAIN known :
     LET off == Distance(known[i].day, s.day)
     IN  off <= 1 /\ Acceptable(s, off, Evaluate(s, known[i]))}

Least(set, key(_)) == {i \in set : \A j \in set : key(i) <= key(j)}

\* The best of a set of candidates, or 0: same day first, then names, then
\* scores, then the game id.
Top(s, known, set) ==
  LET off(i) == Distance(known[i].day, s.day)
      team(i) == 200 - Evaluate(s, known[i]).team
      delta(i) == Evaluate(s, known[i]).delta
      nearest == Least(set, off)
      named == Least(nearest, team)
  IN  IF set = {} THEN 0 ELSE Min(Least(named, delta))

\* Seeded fault: the margin is only checked between exactly two candidates.
WindowOfTwo(s, known) ==
  LET candidates == Candidates(s, known)
      top == Top(s, known, candidates)
      second == Top(s, known, candidates \ {top})
      e(k) == Evaluate(s, known[k])
  IN  IF /\ Cardinality(candidates) = 2
         /\ Distance(known[second].day, s.day) = Distance(known[top].day, s.day)
         /\ e(top).delta # 0
         /\ e(top).team - e(second).team < 2 * Margin
      THEN 0 ELSE top

\* The best candidate, or 0 if there is none or it drifts and the runner-up of
\* the same day distance is too close.
Window(s, known) ==
  LET candidates == Candidates(s, known)
      top == Top(s, known, candidates)
      second == Top(s, known, candidates \ {top})
      off(k) == Distance(known[k].day, s.day)
      e(k) == Evaluate(s, known[k])
  IN  IF /\ second # 0
         /\ off(second) = off(top)
         /\ e(top).delta # 0
         /\ e(top).team - e(second).team < 2 * Margin
      THEN 0 ELSE top

-----------------------------------------------------------------------------
(* resolve *)

Resolve(s, known) ==
  LET signature == Signature(s, known)
  IN  IF signature # 0 THEN signature ELSE Window(s, known)

MatchInit == sb \in Statsbooks /\ games = <<>>

\* A sync brings one more result.
AddGame(g) ==
  /\ Len(games) < MaxGames
  /\ games' = Append(games, g)
  /\ UNCHANGED sb

MatchNext == \E g \in Results : AddGame(g)

MatchSpec == MatchInit /\ [][MatchNext]_matchVars

-----------------------------------------------------------------------------
(* Properties *)

\* The signature path finds the one game of both teams with the exact score
\* that is nearer than every other, in whatever order the games are loaded.
SignatureIsTheNearest ==
  LET days(i) == Distance(games[i].day, sb.day)
      same == {i \in DOMAIN games : HasSignature(sb, games[i])}
      nearest == {i \in same : \A j \in same \ {i} : days(i) < days(j)}
  IN  Signature(sb, games) = IF nearest = {} THEN 0 ELSE CHOOSE i \in nearest : TRUE

\* A new game can take the statsbook or make it ambiguous.  It moves the match
\* to another old game in one case only: the match had the exact score, the new
\* game has it too and is as near, and the window then gives the old game it gave
\* before.
MatchIsStable ==
  [][LET old == Resolve(sb, games)
         new == Resolve(sb, games')
         n == Len(games')
     IN  new \notin {old, 0, n} =>
           /\ old # 0 /\ old = Signature(sb, games) /\ new = Window(sb, games)
           /\ HasSignature(sb, games'[n])
           /\ Distance(games'[n].day, sb.day) = Distance(games[old].day, sb.day)]_matchVars

Swapped == [sb EXCEPT !.home = sb.away, !.away = sb.home,
                      !.home_score = sb.away_score, !.away_score = sb.home_score]

\* Which side the statsbook calls home has no influence on the game, nor on the
\* team of a side, unless names and scores both fit either way.
HomeAndAwayAreAlike ==
  LET i == Resolve(sb, games)
      g == games[i]
  IN  /\ Resolve(Swapped, games) = i
      /\ i # 0 /\ Straight(sb, g) # Crossed(sb, g) =>
           AssignSides(Swapped, g) = Reverse(AssignSides(sb, g))

\* A team's score in a result; a team that is entered on both sides made both.
Made(g, team, score) == <<team, score>> \in {<<g.team_1, g.score_1>>, <<g.team_2, g.score_2>>}

\* A statsbook matched on an exact score gives each side the team that made
\* that side's score in the result.
ExactMatchesAlignScores ==
  LET i == Resolve(sb, games)
      g == games[i]
      sides == AssignSides(sb, g)
  IN  i # 0 /\ (i = Signature(sb, games) \/ Evaluate(sb, g).delta = 0) =>
        /\ Made(g, sides[1], sb.home_score)
        /\ Made(g, sides[2], sb.away_score)
=============================================================================
