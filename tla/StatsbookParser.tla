-------------------------- MODULE StatsbookParser ---------------------------
(***************************************************************************)
(* parse_statsbook: the officials of a game fill in a workbook jam by jam, *)
(* a spreadsheet program saves it with the values its formulas have or had *)
(* at some time, and the parser reads a game back from the cells.          *)
(*                                                                         *)
(* A workbook is its roster, the rows of Score and of Lineups per period,  *)
(* penalty codes, the date cell, and what the program saved for the        *)
(* formulas of IGRF and of Game Summary.  A skater number is a cell        *)
(* <<number, starred>>, a blank one <<>>; the label of a row is a jam      *)
(* number, a jam number typed as text (to the parser any text is one, an   *)
(* empty one too), SP or SP*, or blank.  Below the rows of a period on     *)
(* Score is its row of totals, which the parser reads when a jam is on the *)
(* last row.  Names, trips, penalty codes and the columns of the summary   *)
(* beside jams and percentage are left out, and so are workbooks without   *)
(* one of the sheets.                                                      *)
(***************************************************************************)
EXTENDS Integers, Sequences, FiniteSets, FiniteSetsExt

CONSTANTS
  Rosters,       \* rosters: per side a sequence of cells
  Plays,         \* what a side does in a jam
  SheetRows,     \* rows of a period on the Score sheet
  Dates,         \* days on which games are played
  ThisYear,      \* the year in which statsbooks are parsed
  MaxJams,       \* bound on jams
  MaxPenalties   \* bound on penalties

Sides == {"home", "away"}
Blank == <<>>
Skaters == Nat \X {FALSE}
Cells == {Blank} \cup (Nat \X BOOLEAN)

\* In a jam a side has points after a star pass only if there was one, and the
\* star goes to a skater of the line-up.  A line-up has five places and no skater
\* in two of them.
ASSUME ParserAssumption ==
  /\ Rosters \subseteq [Sides -> Seq(Cells)]
  /\ Plays \subseteq [jammer : Skaters, points : Nat, to : Skaters \cup {Blank}, after : Nat, others : Seq(Cells)]
  /\ \A play \in Plays : IF play.to = Blank THEN play.after = 0
                         ELSE \E k \in DOMAIN play.others : play.others[k] = play.to
  /\ \A play \in Plays :
       /\ Len(play.others) <= 4
       /\ \A k \in DOMAIN play.others : play.others[k] # play.jammer
       /\ \A k, l \in DOMAIN play.others : play.others[k] = play.others[l] => k = l \/ play.others[k] = Blank
  /\ Dates \subseteq [y : 1990..ThisYear + 1, m : 1..12, d : 1..31] /\ ThisYear \in Nat
  /\ SheetRows \in Nat /\ MaxJams \in Nat /\ MaxPenalties \in Nat

VARIABLES
  roster,     \* IGRF: per side the numbers of its skaters
  score,      \* Score: per period its rows
  lineups,    \* Lineups: per period its rows
  codes,      \* Penalties: per period and side the number of codes per skater
  dateCell,   \* IGRF: the date as it was entered
  fileDate,   \* the date in the file name, in a set
  cached,     \* values the formulas have in the saved file
  stage,      \* "open", "saved" or "parsed"
  game,       \* GameData
  played,     \* history: per period the jams that were played
  meant       \* history: the day of the game, in a set

book == <<roster, score, lineups, codes, dateCell, fileDate>>
vars == <<book, cached, stage, game, played, meant>>

NoDate == [form |-> "blank"]
Unsaved == [score |-> <<>>]
Unparsed == [date |-> {}]

Init ==
  /\ roster \in Rosters
  /\ score = <<<<>>, <<>>>> /\ lineups = <<<<>>, <<>>>>
  /\ codes = [p \in 1..2 |-> [s \in Sides |-> [i \in DOMAIN roster[s] |-> 0]]]
  /\ dateCell = NoDate /\ fileDate = {}
  /\ cached = Unsaved /\ stage = "open" /\ game = Unparsed
  /\ played = <<<<>>, <<>>>> /\ meant = {}

-----------------------------------------------------------------------------
(* The officials and their spreadsheet program *)

JamsPlayed == Len(played[1]) + Len(played[2])

Penalties ==
  MapThenSumSet(LAMBDA x : MapThenSumSet(LAMBDA i : codes[x[1]][x[2]][i], DOMAIN roster[x[2]]), (1..2) \X Sides)

\* A jam is entered: a row on Score and on Lineups, followed on both by a second
\* one if a side passed the star.  The other side of that second row of Score
\* is blank, says SP*, or says SP* and repeats the jammer.  (Bounds: one way to
\* type the jam numbers of all line-ups, no jams after a penalty.)
PlayJam(p, play, numberIs, lineupIs, otherSide) ==
  LET n == Len(played[p]) + 1
      passes == {s \in Sides : play[s].to # Blank}
      jam == [jam |-> n, label |-> [s \in Sides |-> numberIs],
              jammer |-> [s \in Sides |-> play[s].jammer], points |-> [s \in Sides |-> play[s].points]]
      pass == [jam |-> n,
               label |-> [s \in Sides |-> IF s \in passes \/ otherSide # "blank" THEN "SP" ELSE "blank"],
               jammer |-> [s \in Sides |-> IF otherSide = "jammer" /\ s \notin passes
                                           THEN play[s].jammer ELSE play[s].to],
               points |-> [s \in Sides |-> play[s].after]]
      row(label) == [label |-> label, skaters |-> [s \in Sides |-> <<play[s].jammer>> \o play[s].others]]
  IN  /\ stage = "open" /\ dateCell = NoDate
      /\ JamsPlayed < MaxJams /\ (p = 1 => played[2] = <<>>) /\ Penalties = 0
      /\ \A q \in 1..2 : \A r \in DOMAIN lineups[q] : lineups[q][r].label \in {"SP", lineupIs}
      /\ Len(score[p]) + (IF passes = {} THEN 1 ELSE 2) <= SheetRows
      /\ passes \in {{}, Sides} => otherSide = "blank"
      /\ score' = [score EXCEPT ![p] = @ \o IF passes = {} THEN <<jam>> ELSE <<jam, pass>>]
      /\ lineups' = [lineups EXCEPT ![p] = @ \o IF passes = {} THEN <<row(lineupIs)>>
                                                ELSE <<row(lineupIs), row("SP")>>]
      /\ played' = [played EXCEPT ![p] = Append(@, play)]
      /\ UNCHANGED <<roster, codes, dateCell, fileDate, cached, stage, game, meant>>

\* (Bound: in games of one jam at most.)
GivePenalty(p, s, i) ==
  /\ stage = "open" /\ dateCell = NoDate
  /\ Penalties < MaxPenalties /\ JamsPlayed < 2
  /\ roster[s][i] # Blank
  /\ codes' = [codes EXCEPT ![p][s][i] = @ + 1]
  /\ UNCHANGED <<roster, score, lineups, dateCell, fileDate, cached, stage, game, played, meant>>

\* The day is entered as a date or typed in some notation, with four or two
\* digits of the year, and may be in the file name.  (Bound: a workbook with a
\* date has no jams, which the parser reads independently of it.)
WriteDate(day, form, short, inName) ==
  /\ stage = "open" /\ dateCell = NoDate /\ JamsPlayed = 0
  /\ form = "date" => ~short
  /\ meant' = {day}
  /\ dateCell' = [form |-> form, y |-> IF short THEN day.y % 100 ELSE day.y, m |-> day.m, d |-> day.d]
  /\ fileDate' = IF inName THEN {day} ELSE {}
  /\ UNCHANGED <<roster, score, lineups, codes, cached, stage, game, played>>

Moments == UNION {{<<p, k>> : k \in DOMAIN played[p]} : p \in 1..2}

\* The starred numbers of a line-up are of skaters who were not on the track.
OnTrack(s, x) ==
  LET play == played[x[1]][x[2]][s]
  IN  {play.jammer} \cup {cell \in {play.others[k] : k \in DOMAIN play.others} : cell # Blank /\ ~cell[2]}

Official(s) == MapThenSumSet(LAMBDA x : played[x[1]][x[2]][s].points + played[x[1]][x[2]][s].after, Moments)
JamsOf(s, cell) == Cardinality({x \in Moments : cell \in OnTrack(s, x)})
RosterCells(s) == {roster[s][i] : i \in DOMAIN roster[s]} \ {Blank}
JamsOfAll(s) == MapThenSumSet(LAMBDA cell : JamsOf(s, cell), RosterCells(s))

\* The workbook is saved with every formula calculated, with none, or with some
\* that were calculated before the game: totals of IGRF, of Game Summary the
\* counts, the totals or the percentages, and of Score the totals of the periods,
\* which are empty text then; a program may also save numbers as text.  (Bound:
\* one of these at a time, and totals of Score only where they may be read.)
Save(calculated, staleScores, staleSummary, totals) ==
  /\ stage = "open"
  /\ stage' = "saved"
  /\ staleScores = {} \/ staleSummary = "nothing"
  /\ calculated \/ (staleScores = {} /\ staleSummary = "nothing")
  /\ \/ totals = "number"
     \/ /\ calculated /\ staleScores = {} /\ staleSummary = "nothing"
        /\ \E p \in 1..2 : Len(score[p]) = SheetRows
  /\ LET value(v, stale) == IF ~calculated THEN <<>> ELSE IF stale THEN <<0>> ELSE <<v>>
     IN  cached' =
           [score |-> [s \in Sides |-> value(Official(s), s \in staleScores)],
            jams |-> [s \in Sides |-> [cell \in RosterCells(s) |->
                                          value(JamsOf(s, cell), staleSummary = "counts")]],
            total |-> [s \in Sides |-> value(JamsOfAll(s), staleSummary = "totals")],
            jamCount |-> value(JamsPlayed, staleSummary = "percentages"),
            periodTotals |-> totals]
  /\ UNCHANGED <<book, game, played, meant>>

-----------------------------------------------------------------------------
(* Jams *)

\* Data::String
IsText(label) == label \in {"text", "SP"}

LabelAt(rows, i, s) == IF i \in DOMAIN rows THEN rows[i].label[s] ELSE "blank"

PassedAt(rows, i, s) == IsText(LabelAt(rows, i, s))

\* Seeded fault: the row below belongs to the jam whatever its label is.
ReadSideWithBelow(rows, i, s) ==
  [jammer |-> rows[i].jammer[s], to |-> Blank, lineup |-> {},
   points |-> rows[i].points[s] + IF i + 1 \in DOMAIN rows THEN rows[i + 1].points[s] ELSE 0]

\* A side of the jam on row i, with the star pass on the row below.
ReadSide(rows, i, s) ==
  IF PassedAt(rows, i + 1, s)
  THEN [jammer |-> rows[i].jammer[s], to |-> rows[i + 1].jammer[s],
        points |-> rows[i].points[s] + rows[i + 1].points[s], lineup |-> {}]
  ELSE [jammer |-> rows[i].jammer[s], to |-> Blank, points |-> rows[i].points[s], lineup |-> {}]

ReadJam(rows, i) == [number |-> rows[i].jam, side |-> [s \in Sides |-> ReadSide(rows, i, s)]]

\* The row below, or the one below that if the former is of a star pass.
RowAfter(rows, i) == IF \E s \in Sides : PassedAt(rows, i + 1, s) THEN i + 2 ELSE i + 1

\* The jams of a period: rows with text for the home side are passed over, and
\* one without a number is the end.
ReadJams(rows) ==
  LET from[i \in 1..Len(rows) + 1] ==
        IF i > Len(rows) \/ i > SheetRows THEN <<>>
        ELSE IF IsText(rows[i].label["home"]) THEN from[i + 1]
        ELSE IF rows[i].label["home"] # "number" THEN <<>>
        ELSE <<ReadJam(rows, i)>> \o from[RowAfter(rows, i)]
  IN  from[1]

PeriodTotals == <<"PERIOD TOTALS">>

\* The rows of a period and, if it takes all of them and the totals below are
\* text, the row of these, labelled with the number of jams.
ScoreRows(p) ==
  LET totals == [jam |-> 0, label |-> [s \in Sides |-> "text"], jammer |-> [s \in Sides |-> PeriodTotals],
                 points |-> [s \in Sides |-> IF cached.periodTotals = "empty" THEN 0
                                             ELSE MapThenSumSet(LAMBDA i : score[p][i].points[s],
                                                                DOMAIN score[p])]]
  IN  IF Len(score[p]) = SheetRows /\ cached.periodTotals # "number"
      THEN Append(score[p], totals) ELSE score[p]

\* A period, if it has jams.
ParsePeriod(p) ==
  LET jams == ReadJams(ScoreRows(p))
  IN  IF jams = <<>> THEN <<>> ELSE <<[number |-> p, jams |-> jams]>>

ParseScores == ParsePeriod(1) \o ParsePeriod(2)

\* Seeded fault: every row with text is one of a star pass.
IsStarPassRowAnyText(label) == IsText(label)

IsStarPassRow(label) == label = "SP"

\* The next row of Lineups that is not one of a star pass.
NextLineup(rows, r) ==
  Min({q \in r..r + Len(rows) : q \notin DOMAIN rows \/ ~IsStarPassRow(rows[q].label)})

\* Positions of a row with a number that has no star.
LineupAt(rows, r, s) ==
  IF r \notin DOMAIN rows THEN {}
  ELSE {<<k, rows[r].skaters[s][k]>> :
          k \in {j \in DOMAIN rows[r].skaters[s] :
                   rows[r].skaters[s][j] # Blank /\ ~rows[r].skaters[s][j][2]}}

\* The rows of Lineups that n jams take, one after the other.
LineupRows(rows, n) ==
  LET at[k \in 0..n] == IF k = 0 THEN 0 ELSE NextLineup(rows, at[k - 1] + 1) IN at

WithLineups(jam, rows, r) ==
  [jam EXCEPT !.side = [s \in Sides |-> [@[s] EXCEPT !.lineup = LineupAt(rows, r, s)]]]

\* Line-ups go to jams row by row, and to periods by their place in the sequence.
MergeLineups(periods) ==
  [pi \in DOMAIN periods |->
     LET at == LineupRows(lineups[pi], Len(periods[pi].jams))
     IN  [periods[pi] EXCEPT !.jams = [k \in DOMAIN @ |-> WithLineups(@[k], lineups[pi], at[k])]]]

JamIndex(periods) == UNION {{<<pi, k>> : k \in DOMAIN periods[pi].jams} : pi \in DOMAIN periods}
SideIn(periods, x, s) == periods[x[1]].jams[x[2]].side[s]

NumbersOf(lineup) == {entry[2] : entry \in lineup}

\* Numbers are compared as they are written.
PlayersInJams(periods, s) ==
  (UNION {LET side == SideIn(periods, x, s)
          IN  {side.jammer, side.to} \cup NumbersOf(side.lineup) : x \in JamIndex(periods)}) \ {Blank}

JamCount(periods, s, cell) ==
  Cardinality({x \in JamIndex(periods) \X (1..5) : <<x[2], cell>> \in SideIn(periods, x[1], s).lineup})

PeriodsScore(periods, s) == MapThenSumSet(LAMBDA x : SideIn(periods, x, s).points, JamIndex(periods))

-----------------------------------------------------------------------------
(* Teams, penalties, score *)

\* Rows of a roster above the first blank one.
Listed(s) == {i \in DOMAIN roster[s] : \A j \in 1..i : roster[s][j] # Blank}

\* Seeded fault: the star is part of the number.
NumberStarred(cell) == cell

\* A number without its star.
Number(cell) == <<cell[1], FALSE>>

\* The first row of a number, if that is one of a skater in a jam.
IsKept(s, players, i) ==
  /\ i \in Listed(s) /\ Number(roster[s][i]) \in players
  /\ \A j \in 1..i - 1 : Number(roster[s][j]) # Number(roster[s][i])

\* parse_team and the retain after it, row by row.
ParseTeam(s, players) ==
  LET upTo[i \in 0..Len(roster[s])] ==
        IF i = 0 THEN <<>>
        ELSE IF IsKept(s, players, i) THEN Append(upTo[i - 1], Number(roster[s][i])) ELSE upTo[i - 1]
  IN  upTo[Len(roster[s])]

\* The number cells of Penalties and Game Summary are formulas that show the
\* roster; without a value they are looked up there.
NumberAt(s, i) == roster[s][i]

\* The rows of codes down to the first blank number, without starred numbers.
ParsePenalties ==
  UNION {{[period |-> p, side |-> s, row |-> i, number |-> NumberAt(s, i), codes |-> codes[p][s][i]] :
            i \in {j \in Listed(s) : ~NumberAt(s, j)[2] /\ codes[p][s][j] > 0}} :
         p \in 1..2, s \in Sides}

\* Both totals of IGRF have a value.
HasIgrfScores == \A s \in Sides : cached.score[s] # <<>>

\* Seeded fault: a cached 0 is believed.
ScoreAsCached(periods, s) == IF HasIgrfScores THEN cached.score[s][1] ELSE PeriodsScore(periods, s)

\* The totals of IGRF, or else the jams; a 0 yields to the jams.
Score(periods, s) ==
  LET total == IF HasIgrfScores THEN cached.score[s][1] ELSE PeriodsScore(periods, s)
  IN  IF total = 0 /\ PeriodsScore(periods, s) > 0 THEN PeriodsScore(periods, s) ELSE total

-----------------------------------------------------------------------------
(* Game Summary *)

TotalJams(periods) == Cardinality(JamIndex(periods))

\* The percentage the cell shows, as jams of jams, or the jams parsed.
Percentage(shown, total, all) ==
  IF total \in {<<>>, <<0>>} \/ all = 0 \/ (shown # <<>> /\ shown[1] # 0) THEN shown ELSE <<total[1], all>>

SummaryRow(cell, total, shown, all) ==
  [number |-> cell, total |-> total, percentage |-> Percentage(shown, total, all)]

\* A cached count, unless there is none for a skater who is in line-ups.
Count(periods, s, cell) ==
  IF cached.jams[s][cell] \in {<<>>, <<0>>} /\ JamCount(periods, s, cell) > 0
  THEN <<JamCount(periods, s, cell)>> ELSE cached.jams[s][cell]

ShownPercentage(s, cell) ==
  IF cached.jamCount = <<>> THEN <<>>
  ELSE IF cached.jamCount = <<0>> THEN <<0, 1>>
  ELSE IF cached.jams[s][cell] = <<0>> THEN <<0, 1>> ELSE <<cached.jams[s][cell][1], cached.jamCount[1]>>

Rows(s) == {NumberAt(s, i) : i \in {j \in DOMAIN roster[s] : roster[s][j] # Blank}}

ShownIn(rows, periods, s) ==
  {row \in rows : row.total # <<0>> /\ ~row.number[2] /\ row.number \in PlayersInJams(periods, s)}

CachedSummary(periods) ==
  [s \in Sides |->
     ShownIn({SummaryRow(cell, Count(periods, s, cell), ShownPercentage(s, cell), TotalJams(periods)) :
                cell \in Rows(s)}, periods, s)]

\* What the formulas count: rows of line-ups, jammers repeated on SP* rows a
\* second time, and a jam for everyone where nothing is filled in.
Evaluated(s, cell) ==
  IF JamsPlayed = 0 THEN 1
  ELSE JamsOf(s, cell) +
       Cardinality(UNION {{<<p, i>> : i \in {j \in 2..SheetRows \cap DOMAIN score[p] :
                             /\ score[p][j].label[s] = "SP"
                             /\ score[p][j].jammer[s] = cell /\ score[p][j - 1].jammer[s] = cell}} : p \in 1..2})

EvaluatedSummary(periods) ==
  [s \in Sides |->
     ShownIn({SummaryRow(cell, <<Evaluated(s, cell)>>, <<Evaluated(s, cell), JamsPlayed>>, TotalJams(periods)) :
                cell \in Rows(s)}, periods, s)]

\* The cached totals of both sides show jams.
HasTotals == \A s \in Sides : cached.total[s] \notin {<<>>, <<0>>}

\* Nothing without jams; the cached sheet, or else its formulas evaluated anew.
GameSummary(periods) ==
  IF periods = <<>> THEN <<>>
  ELSE IF HasTotals THEN <<CachedSummary(periods)>> ELSE <<EvaluatedSummary(periods)>>

-----------------------------------------------------------------------------
(* Date *)

Day(y, m, d) == {date \in {[y |-> y, m |-> m, d |-> d]} : m \in 1..12 /\ d \in 1..31}

Plausible(dates) == {date \in dates : date.y \in 1990..ThisYear + 1}

\* Seeded fault: month-first whenever that is a date.
SlashDateMonthFirst(monthFirst, dayFirst) ==
  IF monthFirst # {} THEN Plausible(monthFirst) ELSE Plausible(dayFirst)

\* The reading that the file name confirms, or else month-first if that is a date.
SlashDate(monthFirst, dayFirst) ==
  IF monthFirst # {} /\ dayFirst # {} /\ monthFirst # dayFirst /\ fileDate = dayFirst THEN dayFirst
  ELSE IF monthFirst # {} THEN Plausible(monthFirst) ELSE Plausible(dayFirst)

ParseTextDate(cell) ==
  CASE cell.form \in {"iso", "month name"} -> Plausible(Day(cell.y, cell.m, cell.d))
    [] cell.form = "month/day" -> SlashDate(Day(cell.y, cell.m, cell.d), Day(cell.y, cell.d, cell.m))
    [] cell.form = "day/month" -> SlashDate(Day(cell.y, cell.d, cell.m), Day(cell.y, cell.m, cell.d))
    [] OTHER -> {}

IgrfDate ==
  IF dateCell.form = "date" THEN Day(dateCell.y, dateCell.m, dateCell.d)
  ELSE IF ParseTextDate(dateCell) # {} THEN ParseTextDate(dateCell) ELSE fileDate

-----------------------------------------------------------------------------
(* parse_statsbook_with_date *)

Parse ==
  /\ stage = "saved"
  /\ stage' = "parsed"
  /\ LET periods == MergeLineups(ParseScores)
     IN  game' = [periods   |-> periods,
                  roster    |-> [s \in Sides |-> ParseTeam(s, PlayersInJams(periods, s))],
                  penalties |-> ParsePenalties,
                  summary   |-> GameSummary(periods),
                  score     |-> [s \in Sides |-> Score(periods, s)],
                  date      |-> IgrfDate]
  /\ UNCHANGED <<book, cached, played, meant>>

HasNoGameData ==
  /\ game.periods = <<>> /\ game.penalties = {}
  /\ \A s \in Sides : game.score[s] = 0

Next ==
  \/ \E p \in 1..2, play \in [Sides -> Plays], numberIs, lineupIs \in {"number", "text"},
        otherSide \in {"blank", "label", "jammer"} : PlayJam(p, play, numberIs, lineupIs, otherSide)
  \/ \E p \in 1..2, s \in Sides : \E i \in DOMAIN roster[s] : GivePenalty(p, s, i)
  \/ \E day \in Dates, form \in {"blank", "date", "iso", "month name", "month/day", "day/month"},
        short, inName \in BOOLEAN : WriteDate(day, form, short, inName)
  \/ \E calculated \in BOOLEAN, staleScores \in SUBSET Sides,
        staleSummary \in {"nothing", "counts", "totals", "percentages"},
        totals \in {"number", "text", "empty"} :
       Save(calculated, staleScores, staleSummary, totals)
  \/ Parse

Spec == Init /\ [][Next]_vars

-----------------------------------------------------------------------------
(* Properties *)

\* The jam numbers of Score are numbers.
NumbersOnScore == \A p \in 1..2, i \in 1..SheetRows : i \in DOMAIN score[p] => score[p][i].label["home"] # "text"

\* No row of totals is taken for one of a star pass.
TotalsUnread == \A p \in 1..2 : ScoreRows(p) = score[p]

\* Every jam that was played is read back, in its period and order, with each
\* side's jammer, the skater the star went to, the points of both rows, and its
\* own line-up, however the jam numbers of Lineups are typed and whatever the
\* other side of a star pass row says.  (If no jam of period 1 can be read, period
\* 2 gets the line-ups of that one, so these are right only of periods in place.)
JamsAreReadBack ==
  stage = "parsed" /\ NumbersOnScore /\ TotalsUnread =>
    /\ {game.periods[pi].number : pi \in DOMAIN game.periods} = {p \in 1..2 : played[p] # <<>>}
    /\ \A pi, qi \in DOMAIN game.periods : pi < qi => game.periods[pi].number < game.periods[qi].number
    /\ \A pi \in DOMAIN game.periods :
         LET p == game.periods[pi].number
         IN  /\ Len(game.periods[pi].jams) = Len(played[p])
             /\ \A k \in DOMAIN played[p], s \in Sides :
                  LET read == SideIn(game.periods, <<pi, k>>, s)
                      play == played[p][k][s]
                  IN  /\ read.jammer = play.jammer
                      /\ read.to \in IF play.to # Blank THEN {play.to} ELSE {Blank, play.jammer}
                      /\ read.points = play.points + play.after
                      /\ pi = p => NumbersOf(read.lineup) = OnTrack(s, <<p, k>>)

\* However jam numbers are typed, no jam is read twice or out of order and no
\* side is credited with more points than it made: a star pass row, or a row
\* taken for one, counts for one jam at most.  (A row of totals that is read
\* counts the points of its period again.)
PointsAreCountedOnce ==
  stage = "parsed" /\ TotalsUnread =>
    /\ \A s \in Sides : PeriodsScore(game.periods, s) <= Official(s)
    /\ \A pi \in DOMAIN game.periods : \A k, l \in DOMAIN game.periods[pi].jams :
         k < l => game.periods[pi].jams[k].number < game.periods[pi].jams[l].number

\* The result is the official one, whichever totals the file was saved without,
\* if the jams can be read or every total was saved; and a game of which any jam
\* or score could be read does not pass for an unfilled placeholder.
ResultIsKept ==
  stage = "parsed" /\ TotalsUnread =>
    /\ NumbersOnScore \/ (\A s \in Sides : cached.score[s] = <<Official(s)>>)
         => \A s \in Sides : game.score[s] = Official(s)
    /\ HasNoGameData =>
         /\ NumbersOnScore => JamsPlayed = 0
         /\ \A s \in Sides : cached.score[s] \in {<<>>, <<0>>} \/ Official(s) = 0

Skated(s) == UNION {OnTrack(s, x) : x \in Moments}

\* Roster and summary show, each number once, the skaters of the IGRF roster who
\* skated, bench players and starred numbers left out; the summary has their
\* jams, in full and as a share, whichever counts the file was saved without, and
\* is off only by the SP* rows when all of it had to be evaluated.
StatsAreOfThoseWhoPlayed ==
  stage = "parsed" /\ NumbersOnScore /\ TotalsUnread /\ (played[1] = <<>> => played[2] = <<>>) =>
    /\ (game.summary = <<>>) <=> (JamsPlayed = 0)
    /\ \A s \in Sides :
         /\ {game.roster[s][k] : k \in DOMAIN game.roster[s]} =
              {<<roster[s][i][1], FALSE>> : i \in Listed(s)} \cap Skated(s)
         /\ Cardinality({game.roster[s][k] : k \in DOMAIN game.roster[s]}) = Len(game.roster[s])
         /\ \A k \in DOMAIN game.summary :
              /\ {row.number : row \in game.summary[k][s]} = RosterCells(s) \cap Skated(s)
              /\ \A row \in game.summary[k][s] :
                   /\ HasTotals => row.total = <<JamsOf(s, row.number)>>
                   /\ row.total[1] >= JamsOf(s, row.number)
                   /\ row.percentage = <<row.total[1], JamsPlayed>>

\* A date that the file name confirms is read as the day of the game in whatever
\* notation it was typed, and is the fallback if nothing can be read; without a
\* date in the file name no other day is read, except from day-first dates that
\* are also dates with the month first.
DateIsTheOneMeant ==
  stage = "parsed" =>
    /\ fileDate # {} => game.date = meant
    /\ fileDate = {} /\ (dateCell.form = "day/month" => dateCell.d > 12) => game.date \subseteq meant
=============================================================================
