----------------------------- MODULE MCMatcher -----------------------------
(***************************************************************************)
(* Matcher with three teams: names that resolve, names between two teams   *)
(* at the thresholds, the same name on both sides; exact, drifting and     *)
(* zero scores; days inside and outside the window and the radius.         *)
(***************************************************************************)
EXTENDS Matcher

Book(h, a, m, n) ==
  [day |-> 0, home |-> h, away |-> a, home_score |-> m, away_score |-> n]

MCStatsbooks ==
  {Book(<<100, 40, 30>>, <<40, 90, 85>>, 100, 60),
   Book(<<100, 40, 30>>, <<70, 72, 66>>, 100, 60),
   Book(<<90, 90, 20>>, <<90, 90, 20>>, 100, 60),
   Book(<<100, 20, 20>>, <<20, 90, 82>>, 0, 0)}

\* Beyond the window only games with the exact scores can be found.
MCResults ==
  LET exact == {<<100, 60>>, <<60, 100>>}
  IN  {[day |-> d, team_1 |-> p[1], team_2 |-> p[2], score_1 |-> s[1], score_2 |-> s[2]] :
         d \in {-1, 0, 1, 30, 401},
         p \in {<<1, 2>>, <<2, 1>>, <<1, 3>>},
         s \in exact \cup {<<96, 60>>, <<80, 80>>}}
      \ [day : {30, 401}, team_1 : 1..3, team_2 : 1..3, score_1 : {80, 96}, score_2 : {60, 80}]
=============================================================================
