--------------------------- MODULE StatsbookProofs ---------------------------
(***************************************************************************)
(* Theorems about a statsbook: which result of the WFTDA it is matched with *)
(* (Matcher), and what is read of the game it records (StatsbookParser).    *)
(***************************************************************************)
EXTENDS Matcher, StatsbookParser, TLAPS, FiniteSetTheorems, SequenceTheorems, WellFoundedInduction

-----------------------------------------------------------------------------
(* Induction on finite sets, minimum and maximum, folds *)

\* What holds of a subset of S if it holds of all smaller ones holds of all.
LEMMA SubsetInduction ==
  ASSUME NEW S, IsFiniteSet(S), NEW Good,
         \A T \in SUBSET S : (\A U \in SUBSET T : U # T => U \in Good) => T \in Good
  PROVE  \A T \in SUBSET S : T \in Good
<1> DEFINE Bad == {T \in SUBSET S : T \notin Good}
<1> SUFFICES ASSUME Bad # {} PROVE FALSE
  OBVIOUS
<1>1. Bad \subseteq FiniteSubsetsOf(S)
  <2>1. FiniteSubsetsOf(S) = SUBSET S
    BY FS_FiniteSubsetsOfFinite
  <2>2. Bad \subseteq SUBSET S
    OBVIOUS
  <2>3. QED
    BY <2>1, <2>2, Zenon
<1>2. \E T \in Bad : \A U \in Bad : <<U, T>> \notin StrictSubsetOrdering(S)
  <2>1. IsWellFoundedOn(StrictSubsetOrdering(S), FiniteSubsetsOf(S))
    BY FS_StrictSubsetOrderingWellFounded
  <2>2. Bad # {}
    OBVIOUS
  <2> HIDE DEF Bad
  <2>3. QED
    BY <1>1, <2>1, <2>2, WFMin
<1>3. PICK T \in Bad : \A U \in Bad : <<U, T>> \notin StrictSubsetOrdering(S)
  BY <1>2
<1>4. ASSUME NEW U \in SUBSET T, U # T PROVE U \in Good
  <2>1. U \in SUBSET S /\ T \in SUBSET S
    OBVIOUS
  <2>2. U \in Bad => <<U, T>> \in StrictSubsetOrdering(S)
    BY <1>4, <2>1 DEF StrictSubsetOrdering
  <2>3. QED
    BY <1>3, <2>1, <2>2
<1>5. QED
  BY <1>4

\* Min of a set of naturals is its least element.
LEMMA MinOf ==
  ASSUME NEW T, T \subseteq Nat, T # {}
  PROVE  Min(T) \in T /\ \A y \in T : Min(T) <= y
<1>1. \E x \in T : \A y \in T : <<y, x>> \notin OpToRel(<, Nat)
  BY WFMin, NatLessThanWellFounded
<1>2. \A x, y \in Nat : y < x => <<y, x>> \in OpToRel(<, Nat)
  BY DEF OpToRel
<1>3. PICK x \in T : \A y \in T : <<y, x>> \notin OpToRel(<, Nat)
  BY <1>1, Zenon
<1>4. \A y \in T : ~(y < x)
  BY <1>2, <1>3, Zenon
<1>5. \A y \in T : x <= y
  BY <1>4
<1>6. QED
  BY <1>5 DEF Min

\* A set of numbers up to n that is not empty has a greatest one, its Max.
LEMMA MaxOf ==
  ASSUME NEW n \in Nat, NEW T, T \subseteq 1..n, T # {}
  PROVE  Max(T) \in T /\ \A y \in T : Max(T) >= y
<1> DEFINE below == {n - x : x \in T}
<1>0. \A x \in T : n - x \in Nat
  OBVIOUS
<1>1. below \subseteq Nat /\ below # {}
  BY <1>0
<1>2. Min(below) \in below /\ \A z \in below : Min(below) <= z
  BY <1>1, MinOf
<1>3. PICK x \in T : Min(below) = n - x
  BY <1>2
<1>4. \A y \in T : n - x <= n - y
  BY <1>2, <1>3
<1>5. \A y \in T : x >= y
  BY <1>4
<1>6. QED
  BY <1>5 DEF Max

\* h is a table of what a fold makes of the subsets of S: it starts from base and
\* applies step to the member pick takes out and the value of the rest.
IsFold(h, base, step, pick, S) ==
  h = [T \in SUBSET S |-> IF T = {} THEN base ELSE step[<<pick[T], h[T \ {pick[T]}]>>]]

\* What a table holds for a set.
LEMMA FoldAt ==
  ASSUME NEW h, NEW base, NEW step, NEW pick, NEW S, IsFold(h, base, step, pick, S),
         NEW T \in SUBSET S
  PROVE  h[T] = IF T = {} THEN base ELSE step[<<pick[T], h[T \ {pick[T]}]>>]
<1> DEFINE body(U) == IF U = {} THEN base ELSE step[<<pick[U], h[U \ {pick[U]}]>>]
<1>1. h = [U \in SUBSET S |-> body(U)]
  BY DEF IsFold
<1> HIDE DEF body
<1>2. h[T] = body(T)
  BY <1>1
<1> QED BY <1>2 DEF body

\* Two tables agree on the sets that are in both.
LEMMA FoldsAgree ==
  ASSUME NEW base, NEW step, NEW pick, NEW S, NEW T, IsFiniteSet(S), T \subseteq S,
         \A U \in SUBSET S : U # {} => pick[U] \in U,
         NEW g, IsFold(g, base, step, pick, S), NEW h, IsFold(h, base, step, pick, T)
  PROVE  \A U \in SUBSET T : g[U] = h[U]
<1>1. \A U \in SUBSET S : g[U] = IF U = {} THEN base ELSE step[<<pick[U], g[U \ {pick[U]}]>>]
  BY FoldAt DEF IsFold
<1>2. \A U \in SUBSET T : h[U] = IF U = {} THEN base ELSE step[<<pick[U], h[U \ {pick[U]}]>>]
  BY FoldAt DEF IsFold
<1> DEFINE Good == {U \in SUBSET T : g[U] = h[U]}
<1>3. ASSUME NEW U \in SUBSET T, \A V \in SUBSET U : V # U => V \in Good PROVE U \in Good
  <2>1. U \in SUBSET S
    OBVIOUS
  <2>2. U # {} => U \ {pick[U]} \in Good
    BY <1>3, <2>1
  <2>3. g[U] = h[U]
    BY <1>1, <1>2, <2>1, <2>2
  <2>4. QED
    BY <2>3
<1>4. IsFiniteSet(T)
  BY FS_Subset
<1>5. \A U \in SUBSET T : U \in Good
  <2> HIDE DEF Good
  <2> QED BY <1>3, <1>4, SubsetInduction
<1>6. QED
  BY <1>5

\* A finite set has a table.
LEMMA FoldExists ==
  ASSUME NEW base, NEW step, NEW pick, NEW S, IsFiniteSet(S),
         \A U \in SUBSET S : U # {} => pick[U] \in U
  PROVE  \E h : IsFold(h, base, step, pick, S)
<1> DEFINE Good == {T \in SUBSET S : \E h : IsFold(h, base, step, pick, T)}
<1>1. ASSUME NEW T \in SUBSET S, \A U \in SUBSET T : U # T => U \in Good PROVE T \in Good
  <2> DEFINE Table(U) == CHOOSE h : IsFold(h, base, step, pick, U)
             Value(U) == Table(U)[U]
             new == [U \in SUBSET T |->
                       IF U = {} THEN base ELSE step[<<pick[U], Value(U \ {pick[U]})>>]]
  <2>1. \A U \in SUBSET T : U # T => IsFold(Table(U), base, step, pick, U)
    <3>1. \A U \in SUBSET T : U # T => \E h : IsFold(h, base, step, pick, U)
      BY <1>1
    <3>2. QED
      BY <3>1, Zenon
  <2>2. ASSUME NEW U \in SUBSET T, U # T PROVE Value(U) = new[U]
    <3>1. IsFold(Table(U), base, step, pick, U) /\ IsFiniteSet(U)
      BY <2>1, <2>2, FS_Subset
    <3>2. Value(U) = IF U = {} THEN base ELSE step[<<pick[U], Table(U)[U \ {pick[U]}]>>]
      <4> HIDE DEF Table
      <4> QED BY <3>1, FoldAt
    <3>3. ASSUME U # {} PROVE Table(U)[U \ {pick[U]}] = Value(U \ {pick[U]})
      <4> DEFINE V == U \ {pick[U]}
      <4>1. V \in SUBSET T /\ V # T /\ V \subseteq U
        BY <3>3
      <4>2. IsFold(Table(V), base, step, pick, V)
        BY <2>1, <4>1
      <4>3. \A W \in SUBSET U : W # {} => pick[W] \in W
        OBVIOUS
      <4> HIDE DEF Table, V
      <4>4. \A W \in SUBSET V : Table(U)[W] = Table(V)[W]
        BY <3>1, <4>1, <4>2, <4>3, FoldsAgree
      <4>5. Table(U)[V] = Table(V)[V]
        BY <4>4
      <4>6. QED
        BY <4>5 DEF V
    <3> HIDE DEF Table, Value
    <3>4. QED
      BY <3>2, <3>3
  <2>3. ASSUME NEW U \in SUBSET T, U # {} PROVE Value(U \ {pick[U]}) = new[U \ {pick[U]}]
    <3>1. U \ {pick[U]} \in SUBSET T /\ U \ {pick[U]} # T
      BY <2>3
    <3> HIDE DEF new, Value
    <3>2. QED
      BY <2>2, <3>1
  <2>4. IsFold(new, base, step, pick, T)
    <3> HIDE DEF Value
    <3> QED BY <2>3 DEF IsFold
  <2>5. QED
    BY <2>4
<1>2. \A T \in SUBSET S : T \in Good
  <2> HIDE DEF Good
  <2> QED BY <1>1, SubsetInduction
<1>3. S \in Good
  BY <1>2
<1>4. QED
  BY <1>3

-----------------------------------------------------------------------------
(* The matcher: types *)

\* A statsbook and a result have a day and scores, and every name a similarity
\* to every team.
LEMMA BookAndResultTypes ==
  /\ \A s \in Statsbooks : /\ s.day \in Int /\ s.home \in Name /\ s.away \in Name
                           /\ s.home_score \in Nat /\ s.away_score \in Nat
  /\ \A g \in Results : /\ g.day \in Int /\ g.team_1 \in Teams /\ g.team_2 \in Teams
                        /\ g.score_1 \in Nat /\ g.score_2 \in Nat
BY MatcherAssumption

\* The matcher knows a statsbook and a sequence of results, whatever is loaded.
LEMMA MatchTypeOK == MatchSpec => []TypeOK
<1>1. MatchInit => TypeOK
  BY MatcherAssumption, EmptySeq DEF MatchInit, TypeOK
<1>2. TypeOK /\ [MatchNext]_matchVars => TypeOK'
  <2> SUFFICES ASSUME TypeOK, [MatchNext]_matchVars PROVE TypeOK'
    OBVIOUS
  <2>1. ASSUME NEW g \in Results, AddGame(g) PROVE TypeOK'
    <3>1. games' \in Seq(Results) /\ Len(games') = Len(games) + 1
      BY <2>1, AppendProperties DEF AddGame, TypeOK
    <3>2. QED
      BY <2>1, <3>1, MatcherAssumption, LenProperties DEF AddGame, TypeOK
  <2>2. CASE UNCHANGED matchVars
    BY <2>2 DEF matchVars, TypeOK
  <2>3. QED
    BY <2>1, <2>2 DEF MatchNext
<1>3. QED
  BY <1>1, <1>2, PTL DEF MatchSpec

\* The known games have days, teams and scores.
LEMMA KnownTypes ==
  ASSUME NEW known \in Seq(Results)
  PROVE  /\ DOMAIN known = 1..Len(known) /\ Len(known) \in Nat
         /\ \A i \in DOMAIN known : known[i] \in Results
BY LenProperties, ElementOfSeq

-----------------------------------------------------------------------------
(* The signature path *)

Best == [game : Nat, days : Nat, tied : BOOLEAN]

NoGame == [game |-> 0, days |-> 0, tied |-> FALSE]

DaysOf(s, known, i) == Distance(known[i].day, s.day)

\* One turn of the loop.
Turn(s, known, best, i) ==
  IF HasSignature(s, known[i]) THEN Nearest(best, i, DaysOf(s, known, i)) ELSE best

\* The games among T that have the signature of s.
Same(s, known, T) == {i \in T : HasSignature(s, known[i])}

\* What the loop knows after the games of T: the nearest of them with the
\* signature, and whether another one is as near.
IsNearestOf(best, s, known, T) ==
  /\ best \in Best
  /\ IF Same(s, known, T) = {} THEN best = NoGame
     ELSE /\ best.game \in Same(s, known, T)
          /\ best.days = DaysOf(s, known, best.game)
          /\ \A j \in Same(s, known, T) : best.days <= DaysOf(s, known, j)
          /\ best.tied <=> \E j \in Same(s, known, T) \ {best.game} : DaysOf(s, known, j) = best.days

\* A turn takes the next game into account.
LEMMA TurnIsNearest ==
  ASSUME NEW s, s.day \in Int, NEW known \in Seq(Results),
         NEW T \in SUBSET DOMAIN known, NEW i \in DOMAIN known, i \notin T,
         NEW best, IsNearestOf(best, s, known, T)
  PROVE  IsNearestOf(Turn(s, known, best, i), s, known, T \cup {i})
<1> DEFINE next == Turn(s, known, best, i)
           same == Same(s, known, T)
           days(j) == DaysOf(s, known, j)
<1>1. \A j \in DOMAIN known : days(j) \in Nat /\ j \in Nat \ {0}
  <2>1. \A j \in DOMAIN known : known[j].day \in Int /\ s.day \in Int /\ j \in Nat \ {0}
    BY KnownTypes, BookAndResultTypes
  <2>2. QED
    BY <2>1 DEF DaysOf, Distance
<1>2. CASE ~ HasSignature(s, known[i])
  <2>1. next = best /\ Same(s, known, T \cup {i}) = same
    BY <1>2 DEF Turn, Same
  <2>2. QED
    BY <2>1 DEF IsNearestOf
<1>3. CASE HasSignature(s, known[i])
  <2>1. Same(s, known, T \cup {i}) = same \cup {i} /\ i \notin same /\ same \subseteq DOMAIN known
    BY <1>3 DEF Same
  <2>2. next = Nearest(best, i, days(i))
    BY <1>3 DEF Turn
  <2> HIDE DEF same
  <2>3. best.game = 0 <=> same = {}
    BY <1>1, <2>1 DEF IsNearestOf, NoGame, same
  <2> DEFINE fresh == [game |-> i, days |-> days(i), tied |-> FALSE]
  <2>0. /\ fresh \in Best /\ fresh.game = i /\ fresh.days = days(i) /\ fresh.tied = FALSE
        /\ days(i) <= days(i)
    BY <1>1 DEF Best
  <2>4. CASE same = {}
    <3>1. next = fresh
      BY <2>2, <2>3, <2>4 DEF Nearest
    <3> HIDE DEF fresh, days
    <3>2. Same(s, known, T \cup {i}) = {i}
      BY <2>1, <2>4
    <3>3. QED
      BY <2>0, <3>1, <3>2 DEF IsNearestOf, days
  <2>5. CASE same # {}
    <3>1. /\ best \in Best /\ best.game \in same /\ best.game # 0 /\ best.days = days(best.game)
          /\ \A j \in same : best.days <= days(j)
          /\ best.tied <=> \E j \in same \ {best.game} : days(j) = best.days
      BY <2>3, <2>5 DEF IsNearestOf, same
    <3>2. best.days \in Nat /\ days(i) \in Nat /\ \A j \in same : days(j) \in Nat
      BY <1>1, <2>1, <3>1
    <3>3. CASE days(i) < best.days
      <4>1. next = fresh
        BY <2>2, <3>3 DEF Nearest
      <4> HIDE DEF fresh, days
      <4>2. \A j \in same : days(i) <= days(j) /\ days(i) # days(j)
        BY <3>1, <3>2, <3>3
      <4>3. QED
        BY <2>0, <2>1, <4>1, <4>2 DEF IsNearestOf, days
    <3>4. CASE days(i) = best.days
      <4>1. next = [best EXCEPT !.tied = TRUE]
        BY <2>2, <3>1, <3>2, <3>4 DEF Nearest
      <4>2. next \in Best /\ next.game = best.game /\ next.days = best.days /\ next.tied
        BY <3>1, <4>1 DEF Best
      <4>3. i # best.game
        BY <2>1, <3>1
      <4>4. QED
        BY <2>1, <3>1, <3>2, <3>4, <4>2, <4>3 DEF IsNearestOf
    <3>5. CASE days(i) > best.days
      <4>1. next = best
        BY <2>2, <3>1, <3>2, <3>5 DEF Nearest
      <4>2. days(i) # best.days /\ best.days <= days(i)
        BY <3>2, <3>5
      <4>3. QED
        BY <2>1, <3>1, <4>1, <4>2 DEF IsNearestOf
    <3>6. QED
      BY <3>2, <3>3, <3>4, <3>5
  <2>6. QED
    BY <2>4, <2>5
<1>4. QED
  BY <1>2, <1>3

\* h is what the loop computes, as a table over the games already seen.
IsLoop(h, s, known) ==
  h = [T \in SUBSET DOMAIN known |->
         IF T = {} THEN NoGame ELSE Turn(s, known, h[T \ {Max(T)}], Max(T))]

\* What the loop has after a set of games.
LEMMA LoopAt ==
  ASSUME NEW s, NEW known, NEW h, IsLoop(h, s, known), NEW T \in SUBSET DOMAIN known
  PROVE  h[T] = IF T = {} THEN NoGame ELSE Turn(s, known, h[T \ {Max(T)}], Max(T))
<1> DEFINE body(U) == IF U = {} THEN NoGame ELSE Turn(s, known, h[U \ {Max(U)}], Max(U))
<1>1. h = [U \in SUBSET DOMAIN known |-> body(U)]
  BY DEF IsLoop
<1> HIDE DEF body
<1>2. h[T] = body(T)
  BY <1>1
<1> QED BY <1>2 DEF body

\* Whatever games the loop has seen, it knows the nearest of them.
LEMMA LoopFindsNearest ==
  ASSUME NEW s, s.day \in Int, NEW known \in Seq(Results), NEW h, IsLoop(h, s, known)
  PROVE  \A T \in SUBSET DOMAIN known : IsNearestOf(h[T], s, known, T)
<1> DEFINE Good == {T \in SUBSET DOMAIN known : IsNearestOf(h[T], s, known, T)}
<1>2. \A T \in SUBSET DOMAIN known :
        h[T] = IF T = {} THEN NoGame ELSE Turn(s, known, h[T \ {Max(T)}], Max(T))
  BY LoopAt DEF IsLoop
<1>0. IsFiniteSet(DOMAIN known)
  BY KnownTypes, FS_Interval
<1>1. ASSUME NEW T \in SUBSET DOMAIN known, \A U \in SUBSET T : U # T => U \in Good PROVE T \in Good
  <2>1. CASE T = {}
    <3>1. h[T] = NoGame /\ Same(s, known, T) = {}
      BY <1>2, <2>1 DEF Same
    <3>2. NoGame \in Best
      BY DEF NoGame, Best
    <3>3. QED
      BY <3>1, <3>2 DEF IsNearestOf
  <2>2. CASE T # {}
    <3> DEFINE m == Max(T)
               U == T \ {m}
    <3>1. m \in T
      BY <2>2, KnownTypes, MaxOf
    <3> HIDE DEF m
    <3>2. U \in SUBSET T /\ U # T /\ U \in SUBSET DOMAIN known /\ m \in DOMAIN known /\ T = U \cup {m}
      BY <3>1
    <3>3. IsNearestOf(h[U], s, known, U)
      BY <1>1, <3>2
    <3>4. h[T] = Turn(s, known, h[U], m)
      BY <1>2, <2>2 DEF m
    <3>5. m \notin U
      OBVIOUS
    <3> HIDE DEF U
    <3>6. IsNearestOf(Turn(s, known, h[U], m), s, known, U \cup {m})
      BY <3>2, <3>3, <3>5, TurnIsNearest
    <3>7. QED
      BY <3>2, <3>4, <3>6 DEF U
  <2>3. QED
    BY <2>1, <2>2
<1>3. \A T \in SUBSET DOMAIN known : T \in Good
  <2> HIDE DEF Good
  <2> QED BY <1>0, <1>1, SubsetInduction
<1>4. QED
  BY <1>3

\* There is such a table of the loop.
LEMMA LoopExists ==
  ASSUME NEW s, s.day \in Int, NEW known \in Seq(Results)
  PROVE  \E h : IsLoop(h, s, known)
<1> DEFINE S == DOMAIN known
           pick == [T \in SUBSET S |-> Max(T)]
           step == [x \in S \X Best |-> Turn(s, known, x[2], x[1])]
<1>1. IsFiniteSet(S)
  BY KnownTypes, FS_Interval
<1>2. \A T \in SUBSET S : T # {} => pick[T] \in T /\ pick[T] = Max(T)
  BY KnownTypes, MaxOf
<1>3. \A i \in S, b \in Best : step[<<i, b>>] = Turn(s, known, b, i) /\ step[<<i, b>>] \in Best
  <2>1. ASSUME NEW i \in S, NEW b \in Best PROVE Turn(s, known, b, i) \in Best
    <3>1. DaysOf(s, known, i) \in Nat /\ i \in Nat
      <4>1. known[i].day \in Int /\ s.day \in Int /\ i \in Nat
        BY KnownTypes, BookAndResultTypes
      <4>2. QED
        BY <4>1 DEF DaysOf, Distance
    <3>2. [game |-> i, days |-> DaysOf(s, known, i), tied |-> FALSE] \in Best
      BY <3>1 DEF Best
    <3>3. [b EXCEPT !.tied = TRUE] \in Best
      BY DEF Best
    <3>4. QED
      BY <3>2, <3>3 DEF Turn, Nearest
  <2>2. QED
    BY <2>1
<1> HIDE DEF pick, step
<1>4. PICK h : IsFold(h, NoGame, step, pick, S)
  BY <1>1, <1>2, FoldExists
<1>10. \A T \in SUBSET S : h[T] = IF T = {} THEN NoGame ELSE step[<<pick[T], h[T \ {pick[T]}]>>]
  <2> HIDE DEF S
  <2> QED BY <1>4, FoldAt DEF IsFold
<1> DEFINE Good == {T \in SUBSET S : h[T] \in Best}
<1>5. ASSUME NEW T \in SUBSET S, \A U \in SUBSET T : U # T => U \in Good PROVE T \in Good
  <2>1. h[T] = IF T = {} THEN NoGame ELSE step[<<pick[T], h[T \ {pick[T]}]>>]
    BY <1>10
  <2>2. CASE T = {}
    <3>1. NoGame \in Best
      BY DEF Best, NoGame
    <3>2. QED
      BY <2>1, <2>2, <3>1
  <2>3. CASE T # {}
    <3>1. pick[T] \in S /\ T \ {pick[T]} \in Good
      BY <1>2, <1>5, <2>3
    <3>2. QED
      BY <1>3, <2>1, <2>3, <3>1
  <2>4. QED
    BY <2>2, <2>3
<1>6. \A T \in SUBSET S : h[T] \in Best
  <2>1. \A T \in SUBSET S : T \in Good
    <3> HIDE DEF Good
    <3> QED BY <1>1, <1>5, SubsetInduction
  <2>2. QED
    BY <2>1
<1>7. ASSUME NEW T \in SUBSET S, T # {}
      PROVE  step[<<pick[T], h[T \ {pick[T]}]>>] = Turn(s, known, h[T \ {Max(T)}], Max(T))
  <2>1. pick[T] \in S /\ h[T \ {pick[T]}] \in Best
    BY <1>2, <1>6, <1>7
  <2>2. QED
    BY <1>2, <1>3, <1>7, <2>1
<1>8. h = [T \in SUBSET S |-> IF T = {} THEN NoGame ELSE Turn(s, known, h[T \ {Max(T)}], Max(T))]
  BY <1>4, <1>7 DEF IsFold
<1>9. QED
  BY <1>8 DEF IsLoop

\* The signature path in terms of the loop.
LEMMA SignatureOfLoop ==
  ASSUME NEW s, s.day \in Int, NEW known \in Seq(Results)
  PROVE  \E found : /\ IsNearestOf(found, s, known, DOMAIN known)
                    /\ Signature(s, known) = IF found.tied THEN 0 ELSE found.game
<1> DEFINE seq == [i \in DOMAIN known |-> i]
           IsIter(h) ==
             h = [T \in SUBSET DOMAIN seq |->
                    IF T = {} THEN [game |-> 0, days |-> 0, tied |-> FALSE]
                    ELSE IF HasSignature(s, known[seq[Max(T)]])
                         THEN Nearest(h[T \ {Max(T)}], seq[Max(T)], Distance(known[seq[Max(T)]].day, s.day))
                         ELSE h[T \ {Max(T)}]]
           iter == CHOOSE h : IsIter(h)
           found == iter[DOMAIN seq]
<1>1. Signature(s, known) = IF found.tied THEN 0 ELSE found.game
  BY DEF Signature, FoldLeftDomain, FoldLeft, MapThenFoldSet
<1>2. \A h : IsIter(h) <=> IsLoop(h, s, known)
  <2>1. DOMAIN seq = DOMAIN known
    OBVIOUS
  <2>2. \A T \in SUBSET DOMAIN known : T # {} => seq[Max(T)] = Max(T)
    BY KnownTypes, MaxOf
  <2> HIDE DEF seq
  <2>3. QED
    BY <2>1, <2>2 DEF IsLoop, Turn, NoGame, DaysOf
<1> HIDE DEF IsIter
<1>3. IsLoop(iter, s, known)
  <2>1. \E h : IsIter(h)
    BY <1>2, LoopExists
  <2>2. IsIter(iter)
    BY <2>1, Zenon
  <2>3. QED
    BY <1>2, <2>2
<1> HIDE DEF iter
<1>4. IsNearestOf(found, s, known, DOMAIN known)
  <2>1. DOMAIN seq = DOMAIN known
    OBVIOUS
  <2>2. QED
    BY <1>3, <2>1, LoopFindsNearest
<1>5. QED
  BY <1>1, <1>4

\* The games with the signature that are nearer than all others with it.
Nearer(s, known) ==
  {i \in Same(s, known, DOMAIN known) :
     \A j \in Same(s, known, DOMAIN known) \ {i} : DaysOf(s, known, i) < DaysOf(s, known, j)}

\* The signature path finds the nearest game, if there is one nearest.
LEMMA SignatureIsNearer ==
  ASSUME NEW s, s.day \in Int, NEW known \in Seq(Results)
  PROVE  /\ Nearer(s, known) = {} => Signature(s, known) = 0
         /\ Nearer(s, known) # {} => Signature(s, known) \in Nearer(s, known)
         /\ \A i, j \in Nearer(s, known) : i = j
<1> DEFINE same == Same(s, known, DOMAIN known)
           days(i) == DaysOf(s, known, i)
<1>1. \A i \in same : days(i) \in Nat
  <2>1. \A i \in same : known[i].day \in Int
    BY KnownTypes, BookAndResultTypes DEF Same
  <2>2. QED
    BY <2>1 DEF DaysOf, Distance
<1>2. PICK found : /\ IsNearestOf(found, s, known, DOMAIN known)
                   /\ Signature(s, known) = IF found.tied THEN 0 ELSE found.game
  BY SignatureOfLoop
<1> HIDE DEF same, days
<1>3. \A i, j \in Nearer(s, known) : i = j
  <2> SUFFICES ASSUME NEW i \in Nearer(s, known), NEW j \in Nearer(s, known), i # j PROVE FALSE
    OBVIOUS
  <2>1. days(i) < days(j) /\ days(j) < days(i) /\ i \in same /\ j \in same
    BY DEF Nearer, same, days
  <2>2. QED
    BY <1>1, <2>1
<1>4. CASE same = {}
  <2>1. Nearer(s, known) = {} /\ Signature(s, known) = 0
    BY <1>2, <1>4 DEF Nearer, IsNearestOf, NoGame, same
  <2>2. QED
    BY <1>3, <2>1
<1>5. CASE same # {}
  <2>1. /\ found.game \in same /\ found.days = days(found.game)
        /\ \A j \in same : found.days <= days(j)
        /\ found.tied <=> \E j \in same \ {found.game} : days(j) = found.days
        /\ found.tied \in BOOLEAN
    BY <1>2, <1>5 DEF IsNearestOf, Best, same, days
  <2>2. CASE found.tied
    <3>1. PICK j \in same \ {found.game} : days(j) = days(found.game)
      BY <2>1, <2>2
    <3>2. ASSUME NEW i \in Nearer(s, known) PROVE FALSE
      <4>1. i \in same /\ \A k \in same \ {i} : days(i) < days(k)
        BY <3>2 DEF Nearer, same, days
      <4>2. PICK k \in {j, found.game} : k # i
        BY <3>1
      <4>3. days(i) < days(k) /\ days(k) = found.days /\ found.days <= days(i)
        BY <2>1, <3>1, <4>1, <4>2
      <4>4. days(i) \in Nat /\ days(k) \in Nat
        BY <1>1, <2>1, <3>1, <4>1, <4>2
      <4>5. QED
        BY <4>3, <4>4
    <3>3. Signature(s, known) = 0
      BY <1>2, <2>2
    <3>4. QED
      BY <1>3, <3>2, <3>3
  <2>3. CASE ~ found.tied
    <3>1. ASSUME NEW j \in same \ {found.game} PROVE days(found.game) < days(j)
      <4>1. days(found.game) <= days(j) /\ days(j) # days(found.game)
        BY <2>1, <2>3
      <4>2. days(found.game) \in Nat /\ days(j) \in Nat
        BY <1>1, <2>1
      <4>3. QED
        BY <4>1, <4>2
    <3>2. found.game \in Nearer(s, known)
      BY <2>1, <3>1 DEF Nearer, same, days
    <3>3. QED
      BY <1>2, <1>3, <2>3, <3>2
  <2>4. QED
    BY <2>1, <2>2, <2>3
<1>6. QED
  BY <1>4, <1>5

\* The signature path finds the one game of both teams with the exact score that
\* is nearer than every other, for any number of results loaded in any order.
THEOREM SignatureFindsTheNearest == MatchSpec => []SignatureIsTheNearest
<1>1. TypeOK => SignatureIsTheNearest
  <2> SUFFICES ASSUME TypeOK PROVE SignatureIsTheNearest
    OBVIOUS
  <2>1. sb.day \in Int /\ games \in Seq(Results)
    BY BookAndResultTypes DEF TypeOK
  <2> DEFINE days(i) == Distance(games[i].day, sb.day)
             same == {i \in DOMAIN games : HasSignature(sb, games[i])}
             nearest == {i \in same : \A j \in same \ {i} : days(i) < days(j)}
  <2>2. nearest = Nearer(sb, games)
    BY DEF Nearer, Same, DaysOf
  <2> HIDE DEF nearest
  <2>3. Signature(sb, games) = IF nearest = {} THEN 0 ELSE CHOOSE i \in nearest : TRUE
    BY <2>1, <2>2, SignatureIsNearer
  <2>4. QED
    BY <2>3 DEF SignatureIsTheNearest, nearest
<1>2. QED
  BY <1>1, MatchTypeOK, PTL

-----------------------------------------------------------------------------
(* The window path *)

\* Some member of a set has the least value of a function.
LEMMA LeastExists ==
  ASSUME NEW set, set # {}, NEW key, \A i \in set : key[i] \in Nat
  PROVE  \E i \in set : \A j \in set : key[i] <= key[j]
<1> DEFINE values == {key[i] : i \in set}
<1>1. values \subseteq Nat /\ values # {}
  OBVIOUS
<1>2. Min(values) \in values /\ \A y \in values : Min(values) <= y
  BY <1>1, MinOf
<1>3. PICK i \in set : key[i] = Min(values)
  BY <1>2
<1>4. QED
  BY <1>2, <1>3

\* A statsbook like those of the set, possibly with its sides swapped.
IsBook(s) ==
  /\ s.day \in Int /\ s.home \in Name /\ s.away \in Name
  /\ s.home_score \in Nat /\ s.away_score \in Nat

\* The best orientation is one of the two; names are at most similar, scores
\* differ by a natural number.
LEMMA EvaluateType ==
  ASSUME NEW s, IsBook(s), NEW g \in Results
  PROVE  /\ Evaluate(s, g) \in {Straight(s, g), Crossed(s, g)}
         /\ Straight(s, g).team \in 0..200 /\ Straight(s, g).delta \in Nat
         /\ Crossed(s, g).team \in 0..200 /\ Crossed(s, g).delta \in Nat
         /\ Evaluate(s, g).team \in 0..200 /\ Evaluate(s, g).delta \in Nat
<1>1. Evaluate(s, g) \in {Straight(s, g), Crossed(s, g)}
  BY DEF Evaluate
<1>2. /\ g.team_1 \in Teams /\ g.team_2 \in Teams
      /\ g.score_1 \in Nat /\ g.score_2 \in Nat
  BY BookAndResultTypes
<1>3. \A t \in Teams : s.home[t] \in 0..100 /\ s.away[t] \in 0..100
  BY DEF IsBook, Name
<1>4. \A m, n \in Nat : Distance(m, n) \in Nat
  BY DEF Distance
<1>5. Straight(s, g).team \in 0..200 /\ Crossed(s, g).team \in 0..200
  <2>1. /\ Straight(s, g).team = s.home[g.team_1] + s.away[g.team_2]
        /\ Crossed(s, g).team = s.home[g.team_2] + s.away[g.team_1]
    BY DEF Straight, Crossed
  <2>2. /\ s.home[g.team_1] \in 0..100 /\ s.home[g.team_2] \in 0..100
        /\ s.away[g.team_1] \in 0..100 /\ s.away[g.team_2] \in 0..100
    BY <1>2, <1>3
  <2>3. /\ s.home[g.team_1] + s.away[g.team_2] \in 0..200
        /\ s.home[g.team_2] + s.away[g.team_1] \in 0..200
    <3>1. \A m, n \in 0..100 : m + n \in 0..200
      OBVIOUS
    <3>2. QED
      BY <2>2, <3>1, Zenon
  <2>4. QED
    BY <2>1, <2>3, Zenon
<1>6. Straight(s, g).delta \in Nat /\ Crossed(s, g).delta \in Nat
  <2>1. /\ Straight(s, g).delta = Distance(s.home_score, g.score_1) + Distance(s.away_score, g.score_2)
        /\ Crossed(s, g).delta = Distance(s.home_score, g.score_2) + Distance(s.away_score, g.score_1)
    BY DEF Straight, Crossed
  <2>2. /\ Distance(s.home_score, g.score_1) \in Nat /\ Distance(s.away_score, g.score_2) \in Nat
        /\ Distance(s.home_score, g.score_2) \in Nat /\ Distance(s.away_score, g.score_1) \in Nat
    BY <1>2, <1>4 DEF IsBook
  <2>3. QED
    BY <2>1, <2>2
<1>7. QED
  BY <1>1, <1>5, <1>6

\* Game i of the known games is a better candidate than game j.
Outranks(s, known, i, j) ==
  LET e(k) == Evaluate(s, known[k])
  IN  \/ DaysOf(s, known, i) < DaysOf(s, known, j)
      \/ /\ DaysOf(s, known, i) = DaysOf(s, known, j)
         /\ \/ e(i).team > e(j).team
            \/ /\ e(i).team = e(j).team
               /\ e(i).delta < e(j).delta \/ (e(i).delta = e(j).delta /\ i < j)

\* What ranks and margins are computed from.
LEMMA RankTypes ==
  ASSUME NEW s, IsBook(s), NEW known \in Seq(Results), NEW i \in DOMAIN known
  PROVE  /\ i \in Nat \ {0} /\ DaysOf(s, known, i) \in Nat
         /\ Evaluate(s, known[i]).team \in 0..200 /\ Evaluate(s, known[i]).delta \in Nat
<1>1. known[i] \in Results /\ known[i].day \in Int /\ s.day \in Int /\ i \in Nat \ {0}
  BY KnownTypes, BookAndResultTypes DEF IsBook
<1>2. DaysOf(s, known, i) \in Nat
  BY <1>1 DEF DaysOf, Distance
<1>3. QED
  BY <1>1, <1>2, EvaluateType

\* Of two candidates one is better, and only one.
LEMMA OutranksIsTotal ==
  ASSUME NEW s, IsBook(s), NEW known \in Seq(Results), NEW i \in DOMAIN known, NEW j \in DOMAIN known
  PROVE  /\ i # j => Outranks(s, known, i, j) \/ Outranks(s, known, j, i)
         /\ ~(Outranks(s, known, i, j) /\ Outranks(s, known, j, i))
<1> DEFINE d(k) == DaysOf(s, known, k)
           t(k) == Evaluate(s, known[k]).team
           e(k) == Evaluate(s, known[k]).delta
<1>1. \A k \in {i, j} : k \in Nat /\ d(k) \in Nat /\ t(k) \in Nat /\ e(k) \in Nat
  <2>1. \A k \in DOMAIN known : k \in Nat /\ d(k) \in Nat /\ t(k) \in 0..200 /\ e(k) \in Nat
    BY RankTypes
  <2>2. 0..200 \subseteq Nat
    OBVIOUS
  <2> HIDE DEF d, t, e
  <2>3. QED
    BY <2>1, <2>2, Zenon
<1>2. \A k, l \in {i, j} :
        Outranks(s, known, k, l) <=> \/ d(k) < d(l)
                                     \/ /\ d(k) = d(l)
                                        /\ t(k) > t(l) \/ (t(k) = t(l) /\ (e(k) < e(l) \/ (e(k) = e(l) /\ k < l)))
  BY DEF Outranks
<1> HIDE DEF d, t, e
<1>3. QED
  BY <1>1, <1>2

\* Top is the candidate that is better than all others.
LEMMA TopOutranks ==
  ASSUME NEW s, IsBook(s), NEW known \in Seq(Results), NEW set, set \subseteq DOMAIN known, set # {}
  PROVE  /\ Top(s, known, set) \in set
         /\ \A j \in set \ {Top(s, known, set)} : Outranks(s, known, Top(s, known, set), j)
<1> DEFINE off == [i \in DOMAIN known |-> DaysOf(s, known, i)]
           team == [i \in DOMAIN known |-> 200 - Evaluate(s, known[i]).team]
           delta == [i \in DOMAIN known |-> Evaluate(s, known[i]).delta]
           nearest == {i \in set : \A j \in set : off[i] <= off[j]}
           named == {i \in nearest : \A j \in nearest : team[i] <= team[j]}
           best == {i \in named : \A j \in named : delta[i] <= delta[j]}
           top == Min(best)
<1>1. \A i \in DOMAIN known : /\ off[i] \in Nat /\ team[i] \in Nat /\ delta[i] \in Nat /\ i \in Nat
                              /\ off[i] = DaysOf(s, known, i) /\ delta[i] = Evaluate(s, known[i]).delta
                              /\ Evaluate(s, known[i]).team = 200 - team[i]
  <2> SUFFICES ASSUME NEW i \in DOMAIN known
               PROVE  /\ off[i] \in Nat /\ team[i] \in Nat /\ delta[i] \in Nat /\ i \in Nat
                      /\ Evaluate(s, known[i]).team = 200 - team[i]
    OBVIOUS
  <2>1. DaysOf(s, known, i) \in Nat /\ Evaluate(s, known[i]).team \in 0..200
        /\ Evaluate(s, known[i]).delta \in Nat /\ i \in Nat
    BY RankTypes
  <2>2. \A n \in 0..200 : 200 - n \in Nat /\ n = 200 - (200 - n)
    OBVIOUS
  <2>3. /\ off[i] = DaysOf(s, known, i) /\ team[i] = 200 - Evaluate(s, known[i]).team
        /\ delta[i] = Evaluate(s, known[i]).delta
    OBVIOUS
  <2> DEFINE e == Evaluate(s, known[i]).team
  <2>4. e \in 0..200 /\ team[i] = 200 - e
    BY <2>1, <2>3
  <2> HIDE DEF off, team, delta, e
  <2>5. 200 - e \in Nat /\ e = 200 - (200 - e)
    BY <2>2, <2>4
  <2>6. team[i] \in Nat /\ e = 200 - team[i]
    BY <2>4, <2>5
  <2>7. QED
    BY <2>1, <2>3, <2>6 DEF e
<1>2. Top(s, known, set) = top
  <2> DEFINE n1 == {i \in set : \A j \in set : DaysOf(s, known, i) <= DaysOf(s, known, j)}
             n2 == {i \in n1 : \A j \in n1 : 200 - Evaluate(s, known[i]).team <= 200 - Evaluate(s, known[j]).team}
             n3 == {i \in n2 : \A j \in n2 : Evaluate(s, known[i]).delta <= Evaluate(s, known[j]).delta}
  <2>1. Top(s, known, set) = Min(n3)
    BY DEF Top, Least, DaysOf
  <2>2. n1 = nearest
    OBVIOUS
  <2>3. n2 = named
    <3> HIDE DEF n1
    <3> QED BY <2>2
  <2>4. n3 = best
    <3> HIDE DEF n1, n2
    <3> QED BY <2>3
  <2>5. QED
    BY <2>1, <2>4
<1> HIDE DEF off, team, delta
<1>3. nearest # {}
  <2>1. \E i \in set : \A j \in set : off[i] <= off[j]
    BY <1>1, LeastExists
  <2>2. QED
    BY <2>1
<1>4. named # {}
  <2>1. \A i \in nearest : team[i] \in Nat
    BY <1>1
  <2> HIDE DEF nearest
  <2>2. \E i \in nearest : \A j \in nearest : team[i] <= team[j]
    BY <1>3, <2>1, LeastExists
  <2>3. QED
    BY <2>2
<1>5. best # {} /\ best \subseteq Nat
  <2>1. \A i \in named : delta[i] \in Nat /\ i \in Nat
    BY <1>1
  <2> HIDE DEF named
  <2>2. \E i \in named : \A j \in named : delta[i] <= delta[j]
    BY <1>4, <2>1, LeastExists
  <2>3. QED
    BY <2>1, <2>2
<1>6. top \in best /\ \A j \in best : top <= j
  <2> HIDE DEF best
  <2> QED BY <1>5, MinOf
<1>7. top \in set /\ top \in nearest /\ top \in named
  BY <1>6
<1>8. ASSUME NEW j \in set, j # top PROVE Outranks(s, known, top, j)
  <2>1. /\ off[top] <= off[j]
        /\ off[top] = off[j] => j \in nearest
    BY <1>1, <1>7, <1>8
  <2>2. j \in nearest => team[top] <= team[j] /\ (team[top] = team[j] => j \in named)
    BY <1>1, <1>7, <1>8
  <2>3. j \in named => delta[top] <= delta[j] /\ (delta[top] = delta[j] => j \in best)
    BY <1>1, <1>6, <1>8
  <2>4. j \in best => top <= j
    BY <1>6
  <2>5. top \in DOMAIN known /\ j \in DOMAIN known
    BY <1>7, <1>8
  <2>6. /\ off[top] \in Nat /\ team[top] \in Nat /\ delta[top] \in Nat /\ top \in Nat
        /\ off[j] \in Nat /\ team[j] \in Nat /\ delta[j] \in Nat /\ j \in Nat
    BY <1>1, <2>5
  <2>7. Outranks(s, known, top, j) <=>
          \/ off[top] < off[j]
          \/ /\ off[top] = off[j]
             /\ \/ 200 - team[top] > 200 - team[j]
                \/ /\ 200 - team[top] = 200 - team[j]
                   /\ delta[top] < delta[j] \/ (delta[top] = delta[j] /\ top < j)
    BY <1>1, <2>5 DEF Outranks
  <2> HIDE DEF nearest, named, best, top
  <2>8. /\ off[top] < off[j] \/ (off[top] = off[j] /\ j \in nearest)
        /\ j \in nearest => team[top] < team[j] \/ (team[top] = team[j] /\ j \in named)
        /\ j \in named => delta[top] < delta[j] \/ (delta[top] = delta[j] /\ j \in best)
        /\ j \in best => top < j
    BY <1>8, <2>1, <2>2, <2>3, <2>4, <2>6
  <2>9. /\ team[top] < team[j] => 200 - team[top] > 200 - team[j]
        /\ team[top] = team[j] => 200 - team[top] = 200 - team[j]
    BY <2>6
  <2>10. QED
    BY <2>7, <2>8, <2>9, Zenon
<1>9. QED
  BY <1>2, <1>7, <1>8

\* The one game that is better than all others of a set is its Top.
LEMMA TopIs ==
  ASSUME NEW s, IsBook(s), NEW known \in Seq(Results), NEW set, set \subseteq DOMAIN known,
         NEW i \in set, \A j \in set \ {i} : Outranks(s, known, i, j)
  PROVE  Top(s, known, set) = i
<1> DEFINE top == Top(s, known, set)
<1>1. top \in set /\ \A j \in set \ {top} : Outranks(s, known, top, j)
  BY TopOutranks
<1> HIDE DEF top
<1>2. top # i => Outranks(s, known, top, i) /\ Outranks(s, known, i, top)
  BY <1>1
<1>3. top # i => FALSE
  <2>1. top \in DOMAIN known /\ i \in DOMAIN known
    BY <1>1
  <2>2. QED
    BY <1>2, <2>1, OutranksIsTotal
<1>4. QED
  BY <1>3 DEF top

\* The decision of the window path between the best candidate and the runner-up.
Decide(s, known, top, second) ==
  IF /\ second # 0
     /\ DaysOf(s, known, second) = DaysOf(s, known, top)
     /\ Evaluate(s, known[top]).delta # 0
     /\ Evaluate(s, known[top]).team - Evaluate(s, known[second]).team < 2 * Margin
  THEN 0 ELSE top

\* The window path in terms of the decision.
LEMMA WindowDecides ==
  ASSUME NEW s, NEW known
  PROVE  LET top == Top(s, known, Candidates(s, known))
         IN  Window(s, known) = Decide(s, known, top, Top(s, known, Candidates(s, known) \ {top}))
BY DEF Window, Decide, DaysOf

\* Game i is a candidate for s.
IsCandidate(s, g) ==
  Distance(g.day, s.day) <= 1 /\ Acceptable(s, Distance(g.day, s.day), Evaluate(s, g))

\* Candidates are known games.
LEMMA CandidatesAre ==
  ASSUME NEW s, NEW known
  PROVE  Candidates(s, known) = {i \in DOMAIN known : IsCandidate(s, known[i])}
BY DEF Candidates, IsCandidate

\* The window path finds a candidate or nothing.
LEMMA WindowType ==
  ASSUME NEW s, IsBook(s), NEW known \in Seq(Results)
  PROVE  Window(s, known) \in Candidates(s, known) \cup {0}
<1> DEFINE candidates == Candidates(s, known)
           top == Top(s, known, candidates)
<1>1. Window(s, known) \in {top, 0}
  BY WindowDecides DEF Decide
<1>2. candidates # {} => top \in candidates
  BY TopOutranks, CandidatesAre
<1>3. candidates = {} => top = 0
  BY DEF Top
<1>4. QED
  BY <1>1, <1>2, <1>3

-----------------------------------------------------------------------------
(* A new game *)

\* What is known of a game does not change when a later one is added.
LEMMA OldGamesStay ==
  ASSUME NEW s, NEW known \in Seq(Results), NEW g \in Results
  PROVE  LET new == Append(known, g)
         IN  /\ new \in Seq(Results)
             /\ DOMAIN new = DOMAIN known \cup {Len(new)}
             /\ Len(new) \notin DOMAIN known
             /\ \A i \in DOMAIN known : new[i] = known[i]
             /\ new[Len(new)] = g
<1>1. /\ Append(known, g) \in Seq(Results) /\ Len(Append(known, g)) = Len(known) + 1
      /\ \A i \in 1..Len(known) : Append(known, g)[i] = known[i]
      /\ Append(known, g)[Len(known) + 1] = g
  BY AppendProperties
<1>2. DOMAIN known = 1..Len(known) /\ Len(known) \in Nat
  BY KnownTypes
<1>3. DOMAIN Append(known, g) = 1..Len(known) + 1
  BY <1>1, KnownTypes
<1>4. 1..Len(known) + 1 = 1..Len(known) \cup {Len(known) + 1} /\ Len(known) + 1 \notin 1..Len(known)
  BY <1>2
<1>5. QED
  BY <1>1, <1>2, <1>3, <1>4

\* A set of old games has the same best one.
LEMMA TopOfOldGames ==
  ASSUME NEW s, IsBook(s), NEW known \in Seq(Results), NEW new \in Seq(Results),
         DOMAIN known \subseteq DOMAIN new, \A i \in DOMAIN known : new[i] = known[i],
         NEW set, set \subseteq DOMAIN known
  PROVE  Top(s, new, set) = Top(s, known, set)
<1>1. CASE set = {}
  BY <1>1 DEF Top
<1>2. CASE set # {}
  <2> DEFINE top == Top(s, known, set)
  <2>1. top \in set /\ \A j \in set \ {top} : Outranks(s, known, top, j)
    BY <1>2, TopOutranks
  <2> HIDE DEF top
  <2>2. \A j \in set \ {top} : Outranks(s, new, top, j)
    BY <2>1 DEF Outranks, DaysOf
  <2>3. Top(s, new, set) = top
    BY <2>1, <2>2, TopIs
  <2>4. QED
    BY <2>3 DEF top
<1>3. QED
  BY <1>1, <1>2

\* A new game takes the statsbook, makes it ambiguous or changes nothing: if it
\* comes second behind the best candidate it is at least as close as the former
\* runner-up, so what was ambiguous stays ambiguous.
LEMMA NewGameTakesOrHides ==
  ASSUME NEW s, IsBook(s), NEW known \in Seq(Results), NEW g \in Results
  PROVE  Window(s, Append(known, g)) \in {Window(s, known), 0, Len(Append(known, g))}
<1> DEFINE new == Append(known, g)
           n == Len(new)
           C == Candidates(s, known)
           D == Candidates(s, new)
           top == Top(s, known, C)
           second == Top(s, known, C \ {top})
           newTop == Top(s, new, D)
           newSecond == Top(s, new, D \ {newTop})
<1>1. /\ new \in Seq(Results) /\ DOMAIN new = DOMAIN known \cup {n} /\ n \notin DOMAIN known
      /\ \A i \in DOMAIN known : new[i] = known[i]
  BY OldGamesStay
<1>2. /\ Window(s, known) = Decide(s, known, top, second)
      /\ Window(s, new) = Decide(s, new, newTop, newSecond)
  BY WindowDecides
<1> HIDE DEF new, n
<1>3. C \subseteq DOMAIN known /\ D \subseteq DOMAIN new /\ (D = C \/ D = C \cup {n})
  BY <1>1, CandidatesAre
<1> HIDE DEF C, D
<1>0. \A i, j \in DOMAIN known : Outranks(s, new, i, j) <=> Outranks(s, known, i, j)
  BY <1>1 DEF Outranks, DaysOf
<1>4. \A i, j \in DOMAIN known : Decide(s, new, i, j) = Decide(s, known, i, j)
  BY <1>1 DEF Decide, DaysOf
<1>5. \A i : Decide(s, new, i, 0) = i /\ Decide(s, known, i, 0) = i
  BY DEF Decide
<1>6. \A set \in SUBSET DOMAIN known : Top(s, new, set) = Top(s, known, set)
  BY <1>1, TopOfOldGames
<1>7. CASE D = C
  <2>1. newTop = top /\ newSecond = second
    BY <1>3, <1>6, <1>7
  <2>2. CASE C = {}
    <3>1. top = 0 /\ second = 0
      BY <2>2 DEF Top
    <3>2. QED
      BY <1>2, <1>5, <2>1, <3>1 DEF new
  <2>3. CASE C # {}
    <3>1. top \in C
      BY <1>3, <2>3, TopOutranks
    <3>2. second \in DOMAIN known \/ second = 0
      <4> HIDE DEF top
      <4>1. C \ {top} # {} => second \in C
        BY <1>3, TopOutranks
      <4>2. C \ {top} = {} => second = 0
        BY DEF Top
      <4>3. QED
        BY <1>3, <4>1, <4>2
    <3>3. QED
      BY <1>2, <1>3, <1>4, <1>5, <2>1, <3>1, <3>2 DEF new
  <2>4. QED
    BY <2>2, <2>3
<1>8. CASE D = C \cup {n}
  <2>1. newTop \in D /\ \A j \in D \ {newTop} : Outranks(s, new, newTop, j)
    BY <1>1, <1>3, <1>8, TopOutranks
  <2>2. CASE newTop = n
    BY <1>2, <2>2 DEF Decide, n, new
  <2>3. CASE newTop # n
    <3>1. newTop \in C /\ C # {}
      BY <1>8, <2>1, <2>3
    <3>2. newTop = top
      <4>1. \A j \in C \ {newTop} : Outranks(s, known, newTop, j)
        BY <1>0, <1>3, <1>8, <2>1, <3>1
      <4> HIDE DEF newTop
      <4>2. QED
        BY <1>3, <3>1, <4>1, TopIs
    <3> HIDE DEF newTop
    <3>3. D \ {newTop} = (C \ {top}) \cup {n}
      BY <1>1, <1>3, <1>8, <3>1, <3>2
    <3>4. newSecond \in D \ {newTop} /\ \A j \in (D \ {newTop}) \ {newSecond} : Outranks(s, new, newSecond, j)
      BY <1>1, <1>3, <3>3, TopOutranks
    <3> HIDE DEF top, newSecond
    <3>5. C \ {top} = {} => second = 0
      BY DEF Top
    <3>6. C \ {top} # {} => second \in C \ {top}
      BY <1>3, TopOutranks
    <3>7. CASE newSecond # n
      <4>1. newSecond \in C \ {top}
        BY <3>3, <3>4, <3>7
      <4>2. newSecond = second
        <5>1. \A j \in (C \ {top}) \ {newSecond} : Outranks(s, known, newSecond, j)
          BY <1>0, <1>3, <3>3, <3>4, <4>1
        <5>2. QED
          BY <1>3, <4>1, <5>1, TopIs
      <4>3. QED
        BY <1>2, <1>3, <1>4, <3>1, <3>2, <4>1, <4>2 DEF new
    <3>8. CASE newSecond = n
      <4>1. Window(s, new) \in {top, 0}
        BY <1>2, <3>2 DEF Decide
      <4>2. CASE Window(s, known) = top
        BY <4>1, <4>2 DEF new
      <4>3. CASE Window(s, known) # top
        <5>1. /\ second # 0 /\ DaysOf(s, known, second) = DaysOf(s, known, top)
              /\ Evaluate(s, known[top]).delta # 0
              /\ Evaluate(s, known[top]).team - Evaluate(s, known[second]).team < 2 * Margin
              /\ Window(s, known) = 0
          BY <1>2, <4>3 DEF Decide
        <5> HIDE DEF second
        <5>2. second \in C \ {top} /\ top \in C
          BY <3>1, <3>2, <3>5, <3>6, <5>1
        <5>3. top \in DOMAIN new /\ second \in DOMAIN new /\ n \in DOMAIN new /\ second # n /\ top # n
          BY <1>1, <1>3, <5>2
        <5>4. Outranks(s, new, n, second) /\ Outranks(s, new, top, n)
          BY <2>1, <3>2, <3>3, <3>4, <3>8, <5>2, <5>3, <1>8
        <5>5. /\ DaysOf(s, new, second) = DaysOf(s, new, top) /\ Evaluate(s, new[top]).delta # 0
              /\ Evaluate(s, new[top]).team - Evaluate(s, new[second]).team < 2 * Margin
          BY <1>1, <1>3, <5>1, <5>2 DEF DaysOf
        <5>6. /\ DaysOf(s, new, n) \in Nat /\ DaysOf(s, new, top) \in Nat /\ DaysOf(s, new, second) \in Nat
              /\ Evaluate(s, new[n]).team \in 0..200 /\ Evaluate(s, new[top]).team \in 0..200
              /\ Evaluate(s, new[second]).team \in 0..200 /\ n # 0
          BY <1>1, <5>3, RankTypes
        <5>7. /\ DaysOf(s, new, n) = DaysOf(s, new, top)
              /\ Evaluate(s, new[n]).team >= Evaluate(s, new[second]).team
          <6> DEFINE d(k) == DaysOf(s, new, k)
                     t(k) == Evaluate(s, new[k]).team
          <6>1. /\ d(n) < d(second) \/ (d(n) = d(second) /\ t(n) >= t(second))
                /\ d(top) < d(n) \/ d(top) = d(n)
            <7>1. 0..200 \subseteq Nat
              OBVIOUS
            <7>2. t(n) \in Nat /\ t(second) \in Nat
              BY <5>6, <7>1, Zenon
            <7>3. \A x, y \in Nat : (x > y => x >= y) /\ (x = y => x >= y)
              OBVIOUS
            <7>4. QED
              BY <5>4, <7>2, <7>3 DEF Outranks
          <6>2. d(n) \in Nat /\ d(second) \in Nat /\ d(top) \in Nat /\ d(second) = d(top)
            BY <5>5, <5>6
          <6> HIDE DEF d, t
          <6>3. d(n) = d(top) /\ t(n) >= t(second)
            BY <6>1, <6>2
          <6>4. QED
            BY <6>3 DEF d, t
        <5>8. Evaluate(s, new[top]).team - Evaluate(s, new[n]).team < 2 * Margin
          <6> DEFINE t(k) == Evaluate(s, new[k]).team
          <6>1. /\ t(n) \in 0..200 /\ t(top) \in 0..200 /\ t(second) \in 0..200
                /\ t(n) >= t(second) /\ t(top) - t(second) < 2 * Margin
            BY <5>5, <5>6, <5>7
          <6> HIDE DEF t
          <6>2. t(top) - t(n) < 2 * Margin
            <7>1. \A x, y, z \in 0..200 : x - y < 2 * Margin /\ z >= y => x - z < 2 * Margin
              BY DEF Margin
            <7>2. QED
              BY <6>1, <7>1
          <6>3. QED
            BY <6>2 DEF t
        <5>9. Decide(s, new, top, n) = 0
          BY <5>5, <5>6, <5>7, <5>8 DEF Decide
        <5>10. QED
          BY <1>2, <3>2, <3>8, <5>9 DEF new
      <4>4. QED
        BY <4>2, <4>3
    <3>9. QED
      BY <3>7, <3>8
  <2>4. QED
    BY <2>2, <2>3
<1>9. QED
  BY <1>3, <1>7, <1>8

\* A new game takes the signature, changes nothing of it, or ties it.
LEMMA NewGameTakesOrTies ==
  ASSUME NEW s, s.day \in Int, NEW known \in Seq(Results), NEW g \in Results
  PROVE  LET new == Append(known, g)
             old == Signature(s, known)
         IN  \/ Signature(s, new) \in {old, Len(new)}
             \/ /\ old # 0 /\ Signature(s, new) = 0 /\ HasSignature(s, g)
                /\ Distance(g.day, s.day) = DaysOf(s, known, old)
<1> DEFINE new == Append(known, g)
           n == Len(new)
           same == Same(s, known, DOMAIN known)
           newSame == Same(s, new, DOMAIN new)
           days(i) == DaysOf(s, new, i)
           old == Signature(s, known)
           found == Signature(s, new)
<1>1. /\ new \in Seq(Results) /\ DOMAIN new = DOMAIN known \cup {n} /\ n \notin DOMAIN known
      /\ \A i \in DOMAIN known : new[i] = known[i]
      /\ new[n] = g
  BY OldGamesStay
<1> HIDE DEF new, n
<1>2. /\ newSame = IF HasSignature(s, g) THEN same \cup {n} ELSE same
      /\ same \subseteq DOMAIN known
  BY <1>1 DEF Same
<1>3. \A i \in DOMAIN known : days(i) = DaysOf(s, known, i)
  BY <1>1 DEF DaysOf
<1>4. \A i \in DOMAIN new : days(i) \in Nat /\ i # 0
  <2>1. \A i \in DOMAIN new : new[i].day \in Int /\ i # 0
    BY <1>1, KnownTypes, BookAndResultTypes
  <2>2. QED
    BY <2>1 DEF DaysOf, Distance
<1> HIDE DEF same, newSame
<1>5. /\ Nearer(s, known) = {i \in same : \A j \in same \ {i} : days(i) < days(j)}
      /\ Nearer(s, new) = {i \in newSame : \A j \in newSame \ {i} : days(i) < days(j)}
  BY <1>2, <1>3 DEF Nearer, same, newSame
<1>6. /\ Nearer(s, known) = {} => old = 0
      /\ Nearer(s, known) # {} => old \in Nearer(s, known)
      /\ Nearer(s, new) = {} => found = 0
      /\ Nearer(s, new) # {} => found \in Nearer(s, new)
      /\ \A i, j \in Nearer(s, known) : i = j
  BY <1>1, SignatureIsNearer
<1> HIDE DEF old, found, days
<1>7. CASE Nearer(s, new) # {}
  <2>1. found # n => found \in Nearer(s, known)
    BY <1>2, <1>5, <1>6, <1>7
  <2>2. found \in {old, n}
    BY <1>6, <2>1
  <2>3. QED
    BY <2>2 DEF old, found, new, n
<1>8. CASE Nearer(s, new) = {} /\ old = 0
  BY <1>6, <1>8 DEF old, found, new, n
<1>9. CASE Nearer(s, new) = {} /\ old # 0
  <2>1. old \in same /\ \A j \in same \ {old} : days(old) < days(j)
    BY <1>5, <1>6, <1>9
  <2>2. HasSignature(s, g)
    BY <1>2, <1>5, <1>9, <2>1
  <2>3. newSame = same \cup {n} /\ n \notin same /\ same \subseteq DOMAIN new
    BY <1>1, <1>2, <2>2
  <2>4. ~ (days(old) < days(n))
    BY <1>5, <1>9, <2>1, <2>3
  <2>5. ~ (days(n) < days(old))
    <3> SUFFICES ASSUME days(n) < days(old) PROVE n \in Nearer(s, new)
      BY <1>9
    <3>1. ASSUME NEW j \in same PROVE days(n) < days(j)
      <4>1. days(n) \in Nat /\ days(old) \in Nat /\ days(j) \in Nat
        BY <1>1, <1>4, <2>1, <2>3
      <4>2. j = old \/ days(old) < days(j)
        BY <2>1
      <4>3. QED
        BY <4>1, <4>2
    <3>2. QED
      BY <1>5, <2>3, <3>1
  <2>6. days(n) = days(old)
    BY <1>1, <1>4, <2>1, <2>3, <2>4, <2>5
  <2>7. Distance(g.day, s.day) = DaysOf(s, known, old)
    BY <1>1, <1>2, <1>3, <2>1, <2>6 DEF days, DaysOf
  <2>8. QED
    BY <1>6, <1>9, <2>2, <2>7 DEF old, found, new, n
<1>10. QED
  BY <1>7, <1>8, <1>9

\* For any number of results: a new game moves a match to another old game only
\* by tying its signature, and then to the one the window gave.
THEOREM MatchesAreStable == MatchSpec => MatchIsStable
<1> DEFINE Moves ==
      LET old == Resolve(sb, games)
          new == Resolve(sb, games')
          n == Len(games')
      IN  new \notin {old, 0, n} =>
            /\ old # 0 /\ old = Signature(sb, games) /\ new = Window(sb, games)
            /\ HasSignature(sb, games'[n])
            /\ Distance(games'[n].day, sb.day) = Distance(games[old].day, sb.day)
<1>1. TypeOK /\ [MatchNext]_matchVars => [Moves]_matchVars
  <2> SUFFICES ASSUME TypeOK, NEW g \in Results, AddGame(g) PROVE Moves
    BY DEF MatchNext
  <2>1. IsBook(sb) /\ sb.day \in Int /\ games \in Seq(Results) /\ games' = Append(games, g)
    BY BookAndResultTypes DEF TypeOK, IsBook, AddGame
  <2>2. Window(sb, games') \in {Window(sb, games), 0, Len(games')}
    BY <2>1, NewGameTakesOrHides
  <2>3. games'[Len(games')] = g
    BY <2>1, OldGamesStay
  <2>4. \/ Signature(sb, games') \in {Signature(sb, games), Len(games')}
        \/ /\ Signature(sb, games) # 0 /\ Signature(sb, games') = 0 /\ HasSignature(sb, g)
           /\ Distance(g.day, sb.day) = DaysOf(sb, games, Signature(sb, games))
    BY <2>1, NewGameTakesOrTies
  <2>5. Len(games') # 0
    BY <2>1, OldGamesStay, KnownTypes
  <2>6. CASE Signature(sb, games') = Signature(sb, games)
    BY <2>2, <2>6 DEF Resolve
  <2>7. CASE Signature(sb, games') = Len(games')
    BY <2>5, <2>7 DEF Resolve
  <2>8. CASE /\ Signature(sb, games) # 0 /\ Signature(sb, games') = 0 /\ HasSignature(sb, games'[Len(games')])
             /\ Distance(games'[Len(games')].day, sb.day) = Distance(games[Signature(sb, games)].day, sb.day)
    <3>1. Resolve(sb, games) = Signature(sb, games) /\ Resolve(sb, games') = Window(sb, games')
      BY <2>8 DEF Resolve
    <3>2. QED
      BY <2>2, <2>8, <3>1
  <2>9. QED
    BY <2>3, <2>4, <2>6, <2>7, <2>8 DEF DaysOf
<1>2. QED
  BY <1>1, MatchTypeOK, PTL DEF MatchSpec, MatchIsStable

-----------------------------------------------------------------------------
(* Home and away *)

\* Swapping the sides of a statsbook swaps its orientations.
LEMMA SwappedIs ==
  ASSUME TypeOK
  PROVE  /\ IsBook(sb) /\ IsBook(Swapped)
         /\ Swapped.day = sb.day /\ Swapped.home = sb.away /\ Swapped.away = sb.home
         /\ Swapped.home_score = sb.away_score /\ Swapped.away_score = sb.home_score
<1>1. sb \in [day : Int, home : Name, away : Name, home_score : Nat, away_score : Nat]
  BY MatcherAssumption DEF TypeOK
<1>2. /\ Swapped.day = sb.day /\ Swapped.home = sb.away /\ Swapped.away = sb.home
      /\ Swapped.home_score = sb.away_score /\ Swapped.away_score = sb.home_score
  BY <1>1 DEF Swapped
<1>3. QED
  BY <1>1, <1>2 DEF IsBook

\* What is straight for a statsbook is crossed for the swapped one.
LEMMA OrientationsSwap ==
  ASSUME TypeOK, NEW g \in Results
  PROVE  Straight(Swapped, g) = Crossed(sb, g) /\ Crossed(Swapped, g) = Straight(sb, g)
<1>1. /\ g.team_1 \in Teams /\ g.team_2 \in Teams /\ g.score_1 \in Nat /\ g.score_2 \in Nat
  BY BookAndResultTypes
<1>2. \A t \in Teams : sb.home[t] \in Int /\ sb.away[t] \in Int
  BY SwappedIs DEF IsBook, Name
<1>3. \A x, y \in Int : x + y = y + x
  OBVIOUS
<1>4. \A m, n \in Nat : Distance(m, n) \in Int
  BY DEF Distance
<1>5. /\ sb.away[g.team_1] + sb.home[g.team_2] = sb.home[g.team_2] + sb.away[g.team_1]
      /\ sb.away[g.team_2] + sb.home[g.team_1] = sb.home[g.team_1] + sb.away[g.team_2]
  BY <1>1, <1>2, <1>3
<1>6. \A x, y \in {g.score_1, g.score_2} :
        Distance(sb.away_score, x) + Distance(sb.home_score, y)
          = Distance(sb.home_score, y) + Distance(sb.away_score, x)
  BY <1>1, <1>3, <1>4, SwappedIs DEF IsBook
<1>7. QED
  BY <1>5, <1>6, SwappedIs DEF Straight, Crossed

\* The best orientation is the same.
LEMMA EvaluateSwaps ==
  ASSUME TypeOK, NEW g \in Results
  PROVE  Evaluate(Swapped, g) = Evaluate(sb, g)
<1> DEFINE a == Straight(sb, g)
           b == Crossed(sb, g)
<1>1. a.team \in 0..200 /\ b.team \in 0..200 /\ a.delta \in Nat /\ b.delta \in Nat
  BY SwappedIs, EvaluateType
<1>2. /\ a = [team |-> a.team, delta |-> a.delta]
      /\ b = [team |-> b.team, delta |-> b.delta]
  BY DEF Straight, Crossed
<1>3. /\ Evaluate(sb, g) = IF a.team > b.team \/ (a.team = b.team /\ a.delta >= b.delta) THEN a ELSE b
      /\ Evaluate(Swapped, g) = IF b.team > a.team \/ (b.team = a.team /\ b.delta >= a.delta) THEN b ELSE a
  BY OrientationsSwap DEF Evaluate
<1> HIDE DEF a, b
<1>4. CASE a.team = b.team /\ a.delta = b.delta
  BY <1>2, <1>3, <1>4
<1>5. CASE ~(a.team = b.team /\ a.delta = b.delta)
  <2>1. (a.team > b.team \/ (a.team = b.team /\ a.delta >= b.delta))
          <=> ~(b.team > a.team \/ (b.team = a.team /\ b.delta >= a.delta))
    <3>1. \A t, u \in 0..200, d, e \in Nat :
            ~(t = u /\ d = e) => ((t > u \/ (t = u /\ d >= e)) <=> ~(u > t \/ (u = t /\ e >= d)))
      OBVIOUS
    <3>2. QED
      BY <1>1, <1>5, <3>1
  <2>2. QED
    BY <1>3, <2>1
<1>6. QED
  BY <1>4, <1>5

\* So are the games with the signature and the nearest among them.
LEMMA SignatureSwaps ==
  ASSUME TypeOK PROVE Signature(Swapped, games) = Signature(sb, games)
<1>1. games \in Seq(Results) /\ sb.day \in Int /\ Swapped.day = sb.day
  BY SwappedIs DEF TypeOK, IsBook
<1>2. \A g : HasSignature(Swapped, g) <=> HasSignature(sb, g)
  <2>1. /\ {Swapped.home_score, Swapped.away_score} = {sb.home_score, sb.away_score}
        /\ {ResolveSide(Swapped.home), ResolveSide(Swapped.away)}
             = {ResolveSide(sb.home), ResolveSide(sb.away)}
    BY SwappedIs
  <2>2. QED
    BY <1>1, <2>1 DEF HasSignature
<1>3. Nearer(Swapped, games) = Nearer(sb, games)
  <2>1. \A T : Same(Swapped, games, T) = Same(sb, games, T)
    BY <1>2 DEF Same
  <2>2. \A i : DaysOf(Swapped, games, i) = DaysOf(sb, games, i)
    BY <1>1 DEF DaysOf
  <2>3. QED
    BY <2>1, <2>2 DEF Nearer
<1>4. /\ Nearer(sb, games) = {} => Signature(sb, games) = 0
      /\ Nearer(sb, games) # {} => Signature(sb, games) \in Nearer(sb, games)
      /\ \A i, j \in Nearer(sb, games) : i = j
  BY <1>1, SignatureIsNearer
<1>5. /\ Nearer(Swapped, games) = {} => Signature(Swapped, games) = 0
      /\ Nearer(Swapped, games) # {} => Signature(Swapped, games) \in Nearer(Swapped, games)
  BY <1>1, SignatureIsNearer
<1>6. QED
  BY <1>3, <1>4, <1>5

\* So are the candidates and the best of them.
LEMMA WindowSwaps ==
  ASSUME TypeOK PROVE Window(Swapped, games) = Window(sb, games)
<1>1. /\ games \in Seq(Results) /\ IsBook(sb) /\ IsBook(Swapped) /\ Swapped.day = sb.day
      /\ \A i \in DOMAIN games : games[i] \in Results
  BY SwappedIs, KnownTypes DEF TypeOK
<1>2. \A i \in DOMAIN games : Evaluate(Swapped, games[i]) = Evaluate(sb, games[i])
  BY <1>1, EvaluateSwaps
<1>3. \A i : DaysOf(Swapped, games, i) = DaysOf(sb, games, i)
  BY <1>1 DEF DaysOf
<1>4. ZeroTotal(Swapped) <=> ZeroTotal(sb)
  BY SwappedIs DEF ZeroTotal, IsBook
<1>5. Candidates(Swapped, games) = Candidates(sb, games)
  BY <1>1, <1>2, <1>4 DEF Candidates, Acceptable
<1>6. \A set \in SUBSET DOMAIN games : Top(Swapped, games, set) = Top(sb, games, set)
  <2> SUFFICES ASSUME NEW set \in SUBSET DOMAIN games
               PROVE  Top(Swapped, games, set) = Top(sb, games, set)
    OBVIOUS
  <2>1. CASE set = {}
    BY <2>1 DEF Top
  <2>2. CASE set # {}
    <3> DEFINE top == Top(sb, games, set)
    <3>1. top \in set /\ \A j \in set \ {top} : Outranks(sb, games, top, j)
      BY <1>1, <2>2, TopOutranks
    <3> HIDE DEF top
    <3>2. \A j \in set \ {top} : Outranks(Swapped, games, top, j)
      BY <1>2, <1>3, <3>1 DEF Outranks
    <3>3. Top(Swapped, games, set) = top
      BY <1>1, <3>1, <3>2, TopIs
    <3>4. QED
      BY <3>3 DEF top
  <2>3. QED
    BY <2>1, <2>2
<1> DEFINE candidates == Candidates(sb, games)
           top == Top(sb, games, candidates)
           second == Top(sb, games, candidates \ {top})
<1>7. candidates \subseteq DOMAIN games
  BY DEF Candidates
<1>8. /\ Window(sb, games) = Decide(sb, games, top, second)
      /\ Window(Swapped, games) = Decide(Swapped, games, top, second)
  <2>1. /\ Top(Swapped, games, candidates) = top
        /\ Top(Swapped, games, candidates \ {top}) = second
    <3> HIDE DEF candidates
    <3> QED BY <1>6, <1>7
  <2>2. QED
    BY <1>5, <2>1, WindowDecides
<1>9. candidates # {} => top \in DOMAIN games /\ second \in DOMAIN games \cup {0}
  <2> HIDE DEF candidates
  <2>1. candidates # {} => top \in candidates
    BY <1>1, <1>7, TopOutranks
  <2> HIDE DEF top
  <2>2. candidates \ {top} # {} => second \in candidates
    BY <1>1, <1>7, TopOutranks
  <2>3. candidates \ {top} = {} => second = 0
    BY DEF Top
  <2>4. QED
    BY <1>7, <2>1, <2>2, <2>3
<1>10. candidates = {} => top = 0 /\ second = 0
  BY DEF Top
<1> HIDE DEF candidates, top, second
<1>11. Decide(Swapped, games, top, second) = Decide(sb, games, top, second)
  <2>1. CASE second = 0
    BY <2>1 DEF Decide
  <2>2. CASE second # 0
    BY <1>2, <1>3, <1>9, <1>10, <2>2 DEF Decide
  <2>3. QED
    BY <2>1, <2>2
<1>12. QED
  BY <1>8, <1>11

\* Whoever the statsbook calls home, the game is the same, and so is each side's
\* team unless both orientations fit alike.
THEOREM HomeAndAwayAreMatchedAlike == MatchSpec => []HomeAndAwayAreAlike
<1>1. TypeOK => HomeAndAwayAreAlike
  <2> SUFFICES ASSUME TypeOK PROVE HomeAndAwayAreAlike
    OBVIOUS
  <2> DEFINE i == Resolve(sb, games)
             g == games[i]
  <2>1. Resolve(Swapped, games) = i
    BY SignatureSwaps, WindowSwaps DEF Resolve
  <2>2. i # 0 => g \in Results
    <3>1. games \in Seq(Results) /\ IsBook(sb) /\ sb.day \in Int
      BY SwappedIs DEF TypeOK, IsBook
    <3>2. Signature(sb, games) \in DOMAIN games \cup {0}
      BY <3>1, SignatureIsNearer DEF Nearer, Same
    <3>3. Window(sb, games) \in DOMAIN games \cup {0}
      BY <3>1, WindowType DEF Candidates
    <3>4. i \in DOMAIN games \cup {0}
      BY <3>2, <3>3 DEF Resolve
    <3> HIDE DEF i
    <3>5. QED
      BY <3>1, <3>4, KnownTypes
  <2>3. ASSUME i # 0, Straight(sb, g) # Crossed(sb, g)
        PROVE  AssignSides(Swapped, g) = Reverse(AssignSides(sb, g))
    <3> HIDE DEF i, g
    <3> DEFINE a == Straight(sb, g)
               b == Crossed(sb, g)
    <3>1. a.team \in 0..200 /\ b.team \in 0..200 /\ a.delta \in Nat /\ b.delta \in Nat
      BY <2>2, <2>3, SwappedIs, EvaluateType
    <3>2. ~(a.team = b.team /\ a.delta = b.delta)
      <4>1. a = [team |-> a.team, delta |-> a.delta] /\ b = [team |-> b.team, delta |-> b.delta]
        BY DEF Straight, Crossed
      <4>2. a # b
        BY <2>3
      <4> HIDE DEF a, b
      <4>3. QED
        BY <4>1, <4>2
    <3>3. /\ AssignSides(sb, g) = IF b.delta < a.delta \/ (a.delta = b.delta /\ b.team > a.team)
                                  THEN <<g.team_2, g.team_1>> ELSE <<g.team_1, g.team_2>>
          /\ AssignSides(Swapped, g) = IF a.delta < b.delta \/ (b.delta = a.delta /\ a.team > b.team)
                                       THEN <<g.team_2, g.team_1>> ELSE <<g.team_1, g.team_2>>
      BY <2>2, <2>3, OrientationsSwap DEF AssignSides
    <3> HIDE DEF a, b
    <3>4. (b.delta < a.delta \/ (a.delta = b.delta /\ b.team > a.team))
            <=> ~(a.delta < b.delta \/ (b.delta = a.delta /\ a.team > b.team))
      <4> DEFINE t == a.team
                 u == b.team
                 d == a.delta
                 e == b.delta
      <4>1. t \in 0..200 /\ u \in 0..200 /\ d \in Nat /\ e \in Nat /\ ~(t = u /\ d = e)
        BY <3>1, <3>2
      <4> HIDE DEF t, u, d, e
      <4>2. (e < d \/ (d = e /\ u > t)) <=> ~(d < e \/ (e = d /\ t > u))
        BY <4>1
      <4>3. QED
        BY <4>2 DEF t, u, d, e
    <3>5. \A t, u : Reverse(<<t, u>>) = <<u, t>>
      BY DEF Reverse
    <3>6. QED
      BY <3>3, <3>4, <3>5
  <2>4. QED
    BY <2>1, <2>3 DEF HomeAndAwayAreAlike
<1>2. QED
  BY <1>1, MatchTypeOK, PTL

-----------------------------------------------------------------------------
(* Scores *)

\* Scores that are no difference apart are the same.
LEMMA NoDistance ==
  /\ \A m, n \in Nat : Distance(m, n) \in Nat /\ (Distance(m, n) = 0 <=> m = n)
  /\ \A x, y \in Nat : x + y = 0 <=> x = 0 /\ y = 0
BY DEF Distance

\* An orientation without a difference gives both sides their scores.
LEMMA NoDelta ==
  ASSUME NEW s, IsBook(s), NEW g \in Results
  PROVE  /\ Straight(s, g).delta = 0 <=> s.home_score = g.score_1 /\ s.away_score = g.score_2
         /\ Crossed(s, g).delta = 0 <=> s.home_score = g.score_2 /\ s.away_score = g.score_1
<1>1. /\ s.home_score \in Nat /\ s.away_score \in Nat /\ g.score_1 \in Nat /\ g.score_2 \in Nat
  BY BookAndResultTypes DEF IsBook
<1>2. /\ Straight(s, g).delta = Distance(s.home_score, g.score_1) + Distance(s.away_score, g.score_2)
      /\ Crossed(s, g).delta = Distance(s.home_score, g.score_2) + Distance(s.away_score, g.score_1)
  BY DEF Straight, Crossed
<1>3. ASSUME NEW x \in Nat, NEW y \in Nat, NEW u \in Nat, NEW v \in Nat
      PROVE  Distance(x, u) + Distance(y, v) = 0 <=> x = u /\ y = v
  <2>1. Distance(x, u) \in Nat /\ Distance(y, v) \in Nat
    BY NoDistance
  <2>2. Distance(x, u) + Distance(y, v) = 0 <=> Distance(x, u) = 0 /\ Distance(y, v) = 0
    BY <2>1
  <2>3. QED
    BY <2>2, NoDistance
<1>4. QED
  BY <1>1, <1>2, <1>3

\* A statsbook matched on an exact score gives each side the team that made that
\* side's score in the result, whatever the names.
THEOREM ExactMatchesKeepScores == MatchSpec => []ExactMatchesAlignScores
<1>1. TypeOK => ExactMatchesAlignScores
  <2> DEFINE i == Resolve(sb, games)
             g == games[i]
             sides == AssignSides(sb, g)
  <2> SUFFICES ASSUME TypeOK, i # 0, i = Signature(sb, games) \/ Evaluate(sb, g).delta = 0
               PROVE  Made(g, sides[1], sb.home_score) /\ Made(g, sides[2], sb.away_score)
    BY DEF ExactMatchesAlignScores
  <2>1. games \in Seq(Results) /\ IsBook(sb) /\ sb.day \in Int
    BY SwappedIs DEF TypeOK, IsBook
  <2>2. Signature(sb, games) # 0 => /\ Signature(sb, games) \in DOMAIN games
                                    /\ HasSignature(sb, games[Signature(sb, games)])
    BY <2>1, SignatureIsNearer DEF Nearer, Same
  <2>3. g \in Results
    <3>1. Window(sb, games) \in DOMAIN games \cup {0}
      BY <2>1, WindowType DEF Candidates
    <3>2. i \in DOMAIN games
      BY <2>2, <3>1 DEF Resolve
    <3> HIDE DEF i
    <3>3. QED
      BY <2>1, <3>2, KnownTypes
  <2>4. i = Signature(sb, games) => {sb.home_score, sb.away_score} = {g.score_1, g.score_2}
    BY <2>2 DEF HasSignature
  <2> HIDE DEF i, g
  <2>5. Straight(sb, g).delta = 0 \/ Crossed(sb, g).delta = 0
    <3>1. \/ sb.home_score = g.score_1 /\ sb.away_score = g.score_2
          \/ sb.home_score = g.score_2 /\ sb.away_score = g.score_1
          \/ Evaluate(sb, g).delta = 0
      BY <2>4
    <3>2. QED
      BY <2>1, <2>3, <3>1, NoDelta, EvaluateType
  <2>6. Straight(sb, g).delta \in Nat /\ Crossed(sb, g).delta \in Nat
    BY <2>1, <2>3, EvaluateType
  <2>7. CASE sides = <<g.team_1, g.team_2>> /\ Straight(sb, g).delta = 0
    <3>1. sb.home_score = g.score_1 /\ sb.away_score = g.score_2
      BY <2>1, <2>3, <2>7, NoDelta
    <3>2. QED
      BY <2>7, <3>1 DEF Made
  <2>8. CASE sides = <<g.team_2, g.team_1>> /\ Crossed(sb, g).delta = 0
    <3>1. sb.home_score = g.score_2 /\ sb.away_score = g.score_1
      BY <2>1, <2>3, <2>8, NoDelta
    <3>2. QED
      BY <2>8, <3>1 DEF Made
  <2>9. \/ sides = <<g.team_1, g.team_2>> /\ Straight(sb, g).delta = 0
        \/ sides = <<g.team_2, g.team_1>> /\ Crossed(sb, g).delta = 0
    <3> DEFINE a == Straight(sb, g)
               b == Crossed(sb, g)
    <3>1. sides = IF b.delta < a.delta \/ (a.delta = b.delta /\ b.team > a.team)
                  THEN <<g.team_2, g.team_1>> ELSE <<g.team_1, g.team_2>>
      BY DEF AssignSides
    <3>2. a.delta \in Nat /\ b.delta \in Nat /\ (a.delta = 0 \/ b.delta = 0)
      BY <2>5, <2>6
    <3> HIDE DEF a, b, sides
    <3>3. IF b.delta < a.delta \/ (a.delta = b.delta /\ b.team > a.team) THEN b.delta = 0 ELSE a.delta = 0
      <4>1. \A d, e \in Nat : d = 0 \/ e = 0 => /\ e < d \/ d = e => e = 0
                                                /\ ~(e < d) => d = 0
        OBVIOUS
      <4>2. QED
        BY <3>2, <4>1
    <3>4. QED
      BY <3>1, <3>3 DEF a, b
  <2>10. QED
    BY <2>7, <2>8, <2>9
<1>2. QED
  BY <1>1, MatchTypeOK, PTL

-----------------------------------------------------------------------------
(* The date *)

Forms == {"blank", "date", "iso", "month name", "month/day", "day/month"}

\* A date as it is written in the cell, with four or two digits of the year.
Written(day, form, short) ==
  [form |-> form, y |-> IF short THEN day.y % 100 ELSE day.y, m |-> day.m, d |-> day.d]

\* Either no date has been written, or that of the day of the game, which is then
\* the only one the file name can have; the parser reads the date as IgrfDate.
DateInv ==
  /\ stage \in {"open", "saved", "parsed"}
  /\ \/ dateCell = NoDate /\ fileDate = {} /\ meant = {}
     \/ \E day \in Dates, form \in Forms, short \in BOOLEAN :
          /\ form = "date" => ~short
          /\ dateCell = Written(day, form, short)
          /\ meant = {day} /\ fileDate \in {{}, {day}}
  /\ stage = "parsed" => game.date = IgrfDate

\* The date cell and the file name say what the officials meant in every state.
LEMMA DateInvariant == Spec => []DateInv
<1>1. Init => DateInv
  BY DEF Init, DateInv
<1>2. DateInv /\ [Next]_vars => DateInv'
  <2> SUFFICES ASSUME DateInv, [Next]_vars PROVE DateInv'
    OBVIOUS
  <2>1. ASSUME UNCHANGED <<dateCell, fileDate, meant, stage, game>> PROVE DateInv'
    BY <2>1 DEF DateInv, IgrfDate, ParseTextDate, SlashDate
  <2>2. ASSUME NEW p \in 1..2, NEW play \in [Sides -> Plays], NEW numberIs, NEW lineupIs, NEW otherSide,
               PlayJam(p, play, numberIs, lineupIs, otherSide)
        PROVE  DateInv'
    BY <2>1, <2>2 DEF PlayJam
  <2>3. ASSUME NEW p \in 1..2, NEW s \in Sides, NEW i \in DOMAIN roster[s], GivePenalty(p, s, i)
        PROVE  DateInv'
    BY <2>1, <2>3 DEF GivePenalty
  <2>4. ASSUME NEW day \in Dates, NEW form \in Forms, NEW short \in BOOLEAN, NEW inName \in BOOLEAN,
               WriteDate(day, form, short, inName)
        PROVE  DateInv'
    BY <2>4 DEF WriteDate, DateInv, Written
  <2>5. ASSUME NEW calculated, NEW staleScores, NEW staleSummary, NEW totals, Save(calculated, staleScores, staleSummary, totals)
        PROVE  DateInv'
    BY <2>5 DEF Save, DateInv, book
  <2>6. CASE Parse
    BY <2>6 DEF Parse, DateInv, book, IgrfDate, ParseTextDate, SlashDate
  <2>7. CASE UNCHANGED vars
    BY <2>1, <2>7 DEF vars, book
  <2>8. QED
    BY <2>2, <2>3, <2>4, <2>5, <2>6, <2>7 DEF Next, Forms
<1>3. QED
  BY <1>1, <1>2, PTL DEF Spec

\* What the parser makes of a written date: the day itself, nothing, what the file
\* name says, or, of a day-first date that is also one with the month first, that.
LEMMA WrittenIsRead ==
  ASSUME NEW day \in Dates, NEW form \in Forms, NEW short \in BOOLEAN, form = "date" => ~short,
         dateCell = Written(day, form, short), fileDate \in {{}, {day}}
  PROVE  /\ fileDate # {} => IgrfDate = {day}
         /\ fileDate = {} /\ (form = "day/month" => day.d > 12) => IgrfDate \subseteq {day}
<1> DEFINE y == dateCell.y
<1>1. /\ day = [y |-> day.y, m |-> day.m, d |-> day.d]
      /\ day.y \in 1990..ThisYear + 1 /\ day.m \in 1..12 /\ day.d \in 1..31
  BY ParserAssumption
<1>2. /\ dateCell.form = form /\ dateCell.m = day.m /\ dateCell.d = day.d
      /\ y = IF short THEN day.y % 100 ELSE day.y
  BY DEF Written
<1> HIDE DEF y
<1>3. ThisYear \in Nat
  BY ParserAssumption
<1>4. CASE ~short
  <2>1. y = day.y
    BY <1>2, <1>4
  <2>2. Day(y, day.m, day.d) = {day} /\ Plausible({day}) = {day}
    BY <1>1, <2>1 DEF Day, Plausible
  <2> DEFINE crossed == Day(y, day.d, day.m)
  <2>3. crossed # {} => day.d \in 1..12
    BY DEF Day
  <2>4. Plausible({}) = {}
    BY DEF Plausible
  <2> HIDE DEF crossed
  <2>5. CASE form = "date"
    BY <1>2, <2>2, <2>5 DEF IgrfDate, y
  <2>6. CASE form = "blank"
    <3>1. ParseTextDate(dateCell) = {} /\ dateCell.form # "date"
      BY <1>2, <2>6 DEF ParseTextDate
    <3>2. QED
      BY <3>1 DEF IgrfDate
  <2>7. CASE form \in {"iso", "month name"}
    <3>1. ParseTextDate(dateCell) = {day} /\ dateCell.form # "date"
      BY <1>2, <2>2, <2>7 DEF ParseTextDate, y
    <3>2. QED
      BY <3>1 DEF IgrfDate
  <2>8. CASE form = "month/day"
    <3>1. ParseTextDate(dateCell) = SlashDate({day}, crossed) /\ dateCell.form # "date"
      BY <1>2, <2>2, <2>8 DEF ParseTextDate, y, crossed
    <3>2. SlashDate({day}, crossed) = {day}
      BY <2>2 DEF SlashDate
    <3>3. QED
      BY <3>1, <3>2 DEF IgrfDate
  <2>9. CASE form = "day/month"
    <3>1. ParseTextDate(dateCell) = SlashDate(crossed, {day}) /\ dateCell.form # "date"
      BY <1>2, <2>2, <2>9 DEF ParseTextDate, y, crossed
    <3>2. crossed = {} => SlashDate(crossed, {day}) = {day}
      BY <2>2 DEF SlashDate
    <3>3. fileDate = {day} => SlashDate(crossed, {day}) = {day}
      BY <2>2 DEF SlashDate
    <3>4. day.d > 12 => crossed = {}
      BY <1>1, <2>3
    <3>5. QED
      BY <2>9, <3>1, <3>2, <3>3, <3>4 DEF IgrfDate
  <2>10. QED
    BY <2>5, <2>6, <2>7, <2>8, <2>9 DEF Forms
<1>5. CASE short
  <2>1. y \in 0..99
    BY <1>1, <1>2, <1>3, <1>5
  <2>2. \A m, d : Plausible(Day(y, m, d)) = {} /\ Day(y, m, d) # {day}
    <3>1. y \notin 1990..ThisYear + 1
      BY <1>3, <2>1
    <3>2. QED
      BY <1>1, <3>1 DEF Plausible, Day
  <2>3. \A m, d : fileDate # Day(y, m, d) \/ Day(y, m, d) = {}
    BY <2>2
  <2>4. ParseTextDate(dateCell) = {} /\ dateCell.form # "date"
    BY <1>2, <1>5, <2>2, <2>3 DEF ParseTextDate, SlashDate, y
  <2>5. QED
    BY <2>4 DEF IgrfDate
<1>6. QED
  BY <1>4, <1>5

\* For every day, notation and number of digits: a date confirmed by the file name
\* is read as the day of the game, and without one no other day is read, except
\* from day-first dates that are dates with the month first.
THEOREM DatesAreRead == Spec => []DateIsTheOneMeant
<1>1. DateInv => DateIsTheOneMeant
  <2> SUFFICES ASSUME DateInv, stage = "parsed"
               PROVE  /\ fileDate # {} => game.date = meant
                      /\ fileDate = {} /\ (dateCell.form = "day/month" => dateCell.d > 12)
                           => game.date \subseteq meant
    BY DEF DateIsTheOneMeant
  <2>1. CASE dateCell = NoDate /\ fileDate = {} /\ meant = {}
    BY <2>1 DEF DateInv, IgrfDate, ParseTextDate, NoDate
  <2>2. CASE \E day \in Dates, form \in Forms, short \in BOOLEAN :
               /\ form = "date" => ~short
               /\ dateCell = Written(day, form, short)
               /\ meant = {day} /\ fileDate \in {{}, {day}}
    <3>1. PICK day \in Dates, form \in Forms, short \in BOOLEAN :
               /\ form = "date" => ~short
               /\ dateCell = Written(day, form, short)
               /\ meant = {day} /\ fileDate \in {{}, {day}}
      BY <2>2
    <3>2. dateCell.form = form /\ dateCell.d = day.d
      BY <3>1 DEF Written
    <3>3. QED
      BY <3>1, <3>2, WrittenIsRead DEF DateInv
  <2>3. QED
    BY <2>1, <2>2 DEF DateInv
<1>2. QED
  BY <1>1, DateInvariant, PTL

\* What holds of 0 and with every number of the next holds of all.
LEMMA NatSetInduction ==
  ASSUME NEW Good, 0 \in Good, \A n \in Nat : n \in Good => n + 1 \in Good
  PROVE  Nat \subseteq Good
<1> DEFINE bad == {n \in Nat : n \notin Good}
<1> SUFFICES ASSUME bad # {} PROVE FALSE
  OBVIOUS
<1>1. bad \subseteq Nat
  OBVIOUS
<1>2. Min(bad) \in bad /\ \A n \in bad : Min(bad) <= n
  <2> HIDE DEF bad
  <2> QED BY <1>1, MinOf
<1> DEFINE m == Min(bad)
<1>3. m \in Nat /\ m \notin Good
  BY <1>2
<1>4. m # 0
  BY <1>3
<1>5. m - 1 \in Nat /\ m = (m - 1) + 1
  BY <1>3, <1>4
<1>6. m - 1 \in bad
  BY <1>3, <1>5
<1>7. m <= m - 1
  BY <1>2, <1>6
<1>8. QED
  BY <1>3, <1>7

-----------------------------------------------------------------------------
(* How jams lie on the sheets *)

Labels == {"number", "text", "SP", "blank"}
ScoreRow == [jam : Nat, label : [Sides -> Labels], jammer : [Sides -> Cells], points : [Sides -> Nat]]
LineupRow == [label : Labels, skaters : [Sides -> Seq(Cells)]]
JamPlays == [Sides -> Plays]

Passes(play) == {s \in Sides : play[s].to # Blank}

\* The first row of jam k.
IsJamRow(row, k, play) ==
  /\ row.jam = k
  /\ row.label["home"] \in {"number", "text"} /\ row.label["away"] = row.label["home"]
  /\ \A s \in Sides : row.jammer[s] = play[s].jammer /\ row.points[s] = play[s].points

\* The second row of a jam: a side that did not pass the star has a blank label,
\* or SP* with no jammer or with the jammer repeated.
IsPassRow(row, play) ==
  \A s \in Sides :
    /\ row.points[s] = play[s].after
    /\ \/ row.label[s] = "SP" /\ row.jammer[s] = play[s].to
       \/ play[s].to = Blank /\ row.label[s] = "blank"
       \/ play[s].to = Blank /\ row.label[s] = "SP" /\ row.jammer[s] = play[s].jammer

\* Jam k of a period begins on row start[k] of both sheets.
IsLayout(start, plays, rows, lines) ==
  /\ start \in [1..Len(plays) + 1 -> Nat \ {0}]
  /\ start[1] = 1 /\ start[Len(plays) + 1] = Len(rows) + 1 /\ Len(lines) = Len(rows)
  /\ \A k \in 1..Len(plays) :
       /\ start[k + 1] = start[k] + IF Passes(plays[k]) = {} THEN 1 ELSE 2
       /\ IsJamRow(rows[start[k]], k, plays[k])
       /\ Passes(plays[k]) # {} => IsPassRow(rows[start[k] + 1], plays[k])
       /\ lines[start[k]].label \in {"number", "text"}
       /\ \A s \in Sides : lines[start[k]].skaters[s] = <<plays[k][s].jammer>> \o plays[k][s].others
       /\ Passes(plays[k]) # {} => lines[start[k] + 1].label = "SP"

\* The sheets of both periods hold the jams that were played, and nothing else.
BookInv ==
  /\ played \in [1..2 -> Seq(JamPlays)]
  /\ score \in [1..2 -> Seq(ScoreRow)] /\ lineups \in [1..2 -> Seq(LineupRow)]
  /\ \A p \in 1..2 : /\ Len(score[p]) <= SheetRows
                     /\ \E start : IsLayout(start, played[p], score[p], lineups[p])

\* The parts of a play.
LEMMA PlayTypes ==
  ASSUME NEW play \in JamPlays, NEW s \in Sides
  PROVE  /\ play[s] \in Plays
         /\ play[s].jammer \in Skaters /\ play[s].points \in Nat /\ play[s].after \in Nat
         /\ play[s].to \in Skaters \cup {Blank} /\ play[s].others \in Seq(Cells)
         /\ play[s].to = Blank => play[s].after = 0
         /\ Skaters \subseteq Cells /\ Blank \notin Skaters
<1>1. play[s] \in Plays
  BY DEF JamPlays
<1>2. Blank \notin Skaters
  <2>1. \A x, y : <<>> # <<x, y>>
    OBVIOUS
  <2>2. \A cell \in Skaters : cell = <<cell[1], cell[2]>>
    BY DEF Skaters
  <2>3. QED
    BY <2>1, <2>2, Zenon DEF Blank
<1>3. Skaters \subseteq Cells
  BY DEF Skaters, Cells
<1>4. play[s].to = Blank => play[s].after = 0
  BY <1>1, ParserAssumption
<1>5. /\ play[s].jammer \in Skaters /\ play[s].points \in Nat /\ play[s].after \in Nat
      /\ play[s].to \in Skaters \cup {Blank} /\ play[s].others \in Seq(Cells)
  <2>1. Plays \subseteq [jammer : Skaters, points : Nat, to : Skaters \cup {Blank}, after : Nat, others : Seq(Cells)]
    BY ParserAssumption
  <2>2. QED
    BY <1>1, <2>1
<1>6. QED
  BY <1>1, <1>2, <1>3, <1>4, <1>5

\* A jam begins after the last row of every earlier one.
LEMMA StartsGrow ==
  ASSUME NEW plays \in Seq(JamPlays), NEW rows \in Seq(ScoreRow), NEW lines,
         NEW start, IsLayout(start, plays, rows, lines)
  PROVE  /\ \A k, l \in 1..Len(plays) + 1 : k < l => start[k + 1] <= start[l]
         /\ \A k \in 1..Len(plays) : /\ start[k] \in 1..Len(rows)
                                     /\ Passes(plays[k]) # {} => start[k] + 1 \in 1..Len(rows)
<1> DEFINE n == Len(plays)
           L == Len(rows)
<1>1. n \in Nat /\ L \in Nat
  BY LenProperties
<1>2. /\ \A k \in 1..n + 1 : start[k] \in Nat \ {0}
      /\ start[n + 1] = L + 1
      /\ \A k \in 1..n : start[k + 1] = start[k] + IF Passes(plays[k]) = {} THEN 1 ELSE 2
  BY DEF IsLayout
<1> HIDE DEF n, L
<1>3. \A k \in 1..n : /\ start[k + 1] >= start[k] + 1
                      /\ Passes(plays[k]) # {} => start[k + 1] = start[k] + 2
                      /\ k \in 1..n + 1 /\ k + 1 \in 1..n + 1
  <2> SUFFICES ASSUME NEW k \in 1..n
               PROVE  /\ start[k + 1] >= start[k] + 1
                      /\ Passes(plays[k]) # {} => start[k + 1] = start[k] + 2
                      /\ k \in 1..n + 1 /\ k + 1 \in 1..n + 1
    OBVIOUS
  <2>1. k \in 1..n + 1 /\ k + 1 \in 1..n + 1
    BY <1>1
  <2>2. start[k] \in Nat
    BY <1>2, <2>1
  <2>3. /\ Passes(plays[k]) # {} => start[k + 1] = start[k] + 2
        /\ Passes(plays[k]) = {} => start[k + 1] = start[k] + 1
    BY <1>2
  <2>4. start[k + 1] >= start[k] + 1
    BY <2>2, <2>3
  <2>5. QED
    BY <2>1, <2>3, <2>4
<1>4. \A k, l \in 1..n + 1 : k < l => start[k + 1] <= start[l]
  <2> DEFINE Good == {m \in Nat : \A k \in 1..n : k + 1 + m \in 1..n + 1 => start[k + 1] <= start[k + 1 + m]}
  <2>1. 0 \in Good
    <3>1. \A k \in 1..n : k + 1 + 0 = k + 1 /\ start[k + 1] \in Nat
      BY <1>2, <1>3
    <3>2. QED
      BY <3>1
  <2>2. ASSUME NEW m \in Nat, m \in Good PROVE m + 1 \in Good
    <3> SUFFICES ASSUME NEW k \in 1..n, k + 1 + (m + 1) \in 1..n + 1
                 PROVE  start[k + 1] <= start[k + 1 + (m + 1)]
      OBVIOUS
    <3> DEFINE j == k + 1 + m
    <3>1. j \in 1..n /\ k + 1 + (m + 1) = j + 1 /\ j \in 1..n + 1
      BY <1>1
    <3>2. start[k + 1] <= start[j]
      BY <2>2, <3>1
    <3>3. start[j + 1] >= start[j] + 1
      BY <1>3, <3>1
    <3>4. start[k + 1] \in Nat /\ start[j] \in Nat /\ start[j + 1] \in Nat
      BY <1>2, <1>3, <3>1
    <3> HIDE DEF j
    <3>5. start[k + 1] <= start[j + 1]
      BY <3>2, <3>3, <3>4
    <3>6. QED
      BY <3>1, <3>5
  <2> HIDE DEF Good
  <2>3. Nat \subseteq Good
    BY <2>1, <2>2, NatSetInduction
  <2> USE DEF Good
  <2> SUFFICES ASSUME NEW k \in 1..n + 1, NEW l \in 1..n + 1, k < l PROVE start[k + 1] <= start[l]
    OBVIOUS
  <2>4. l - k - 1 \in Nat /\ k \in 1..n /\ k + 1 + (l - k - 1) = l
    BY <1>1
  <2>5. QED
    BY <2>3, <2>4
<1>5. ASSUME NEW k \in 1..n
      PROVE  start[k] \in 1..L /\ (Passes(plays[k]) # {} => start[k] + 1 \in 1..L)
  <2>1. start[k + 1] <= L + 1
    <3>1. k \in 1..n + 1 /\ n + 1 \in 1..n + 1 /\ k < n + 1
      BY <1>1
    <3>2. QED
      BY <1>2, <1>4, <3>1
  <2>2. start[k] \in Nat \ {0} /\ start[k + 1] \in Nat
    BY <1>2, <1>3
  <2>3. /\ start[k + 1] >= start[k] + 1
        /\ Passes(plays[k]) # {} => start[k + 1] = start[k] + 2
    BY <1>3
  <2>4. start[k] \in 1..L
    BY <1>1, <2>1, <2>2, <2>3
  <2>5. Passes(plays[k]) # {} => start[k] + 1 \in 1..L
    BY <1>1, <2>1, <2>2, <2>3
  <2>6. QED
    BY <2>4, <2>5
<1>6. QED
  BY <1>4, <1>5 DEF n, L

\* A jam played is laid out behind those before it.
LEMMA LayoutGrows ==
  ASSUME NEW plays \in Seq(JamPlays), NEW rows \in Seq(ScoreRow), NEW lines \in Seq(LineupRow),
         NEW start, IsLayout(start, plays, rows, lines),
         NEW play \in JamPlays,
         NEW jam \in ScoreRow, IsJamRow(jam, Len(plays) + 1, play),
         NEW pass \in ScoreRow, Passes(play) # {} => IsPassRow(pass, play),
         NEW line \in LineupRow, line.label \in {"number", "text"},
         \A s \in Sides : line.skaters[s] = <<play[s].jammer>> \o play[s].others,
         NEW second \in LineupRow, second.label = "SP"
  PROVE  LET one == Passes(play) = {}
         IN  \E new : IsLayout(new, Append(plays, play),
                               rows \o (IF one THEN <<jam>> ELSE <<jam, pass>>),
                               lines \o (IF one THEN <<line>> ELSE <<line, second>>))
<1> DEFINE n == Len(plays)
           L == Len(rows)
           one == Passes(play) = {}
           more == IF one THEN <<jam>> ELSE <<jam, pass>>
           moreLines == IF one THEN <<line>> ELSE <<line, second>>
           size == IF one THEN 1 ELSE 2
           newRows == rows \o more
           newLines == lines \o moreLines
           newPlays == Append(plays, play)
           new == [k \in 1..n + 2 |-> IF k <= n + 1 THEN start[k] ELSE L + 1 + size]
<1>1. n \in Nat /\ L \in Nat /\ Len(lines) = L /\ size \in Nat
  BY LenProperties DEF IsLayout
<1>2. /\ newPlays \in Seq(JamPlays) /\ Len(newPlays) = n + 1 /\ newPlays[n + 1] = play
      /\ \A k \in 1..n : newPlays[k] = plays[k]
  BY AppendProperties
<1>3. /\ newRows \in Seq(ScoreRow) /\ Len(newRows) = L + size
      /\ \A i \in 1..L : newRows[i] = rows[i]
      /\ newRows[L + 1] = jam /\ (~one => newRows[L + 2] = pass)
  <2>1. more \in Seq(ScoreRow) /\ Len(more) = size
    OBVIOUS
  <2>2. more[1] = jam /\ (~one => more[2] = pass)
    OBVIOUS
  <2> HIDE DEF more
  <2>3. /\ newRows \in Seq(ScoreRow) /\ Len(newRows) = L + size
        /\ \A i \in 1..L + size : newRows[i] = IF i <= L THEN rows[i] ELSE more[i - L]
    <3>1. /\ newRows \in Seq(ScoreRow) /\ Len(newRows) = Len(rows) + Len(more)
          /\ \A i \in 1..Len(rows) + Len(more) :
               newRows[i] = IF i <= Len(rows) THEN rows[i] ELSE more[i - Len(rows)]
      BY <2>1, ConcatProperties
    <3>2. QED
      BY <2>1, <3>1
  <2>4. (L + 1) - L = 1 /\ (L + 2) - L = 2 /\ ~(L + 1 <= L) /\ ~(L + 2 <= L)
    BY <1>1
  <2>5. L + 1 \in 1..L + size /\ (~one => L + 2 \in 1..L + size)
    BY <1>1
  <2> HIDE DEF newRows
  <2>6. newRows[L + 1] = jam /\ (~one => newRows[L + 2] = pass)
    BY <2>2, <2>3, <2>4, <2>5
  <2>7. \A i \in 1..L : newRows[i] = rows[i]
    BY <1>1, <2>3
  <2>8. QED
    BY <2>3, <2>6, <2>7
<1>4. /\ Len(newLines) = L + size
      /\ \A i \in 1..L : newLines[i] = lines[i]
      /\ newLines[L + 1] = line /\ (~one => newLines[L + 2] = second)
  <2>1. moreLines \in Seq(LineupRow) /\ Len(moreLines) = size
    OBVIOUS
  <2>2. moreLines[1] = line /\ (~one => moreLines[2] = second)
    OBVIOUS
  <2> HIDE DEF moreLines
  <2>3. /\ Len(newLines) = L + size
        /\ \A i \in 1..L + size : newLines[i] = IF i <= L THEN lines[i] ELSE moreLines[i - L]
    <3>1. /\ Len(newLines) = Len(lines) + Len(moreLines)
          /\ \A i \in 1..Len(lines) + Len(moreLines) :
               newLines[i] = IF i <= Len(lines) THEN lines[i] ELSE moreLines[i - Len(lines)]
      BY <2>1, ConcatProperties
    <3>2. QED
      BY <1>1, <2>1, <3>1
  <2>4. (L + 1) - L = 1 /\ (L + 2) - L = 2 /\ ~(L + 1 <= L) /\ ~(L + 2 <= L)
    BY <1>1
  <2>5. L + 1 \in 1..L + size /\ (~one => L + 2 \in 1..L + size)
    BY <1>1
  <2> HIDE DEF newLines
  <2>6. newLines[L + 1] = line /\ (~one => newLines[L + 2] = second)
    BY <2>2, <2>3, <2>4, <2>5
  <2>7. \A i \in 1..L : newLines[i] = lines[i]
    BY <1>1, <2>3
  <2>8. QED
    BY <2>3, <2>6, <2>7
<1>5. /\ start \in [1..n + 1 -> Nat \ {0}] /\ start[1] = 1 /\ start[n + 1] = L + 1
      /\ \A k \in 1..n : start[k + 1] = start[k] + IF Passes(plays[k]) = {} THEN 1 ELSE 2
  BY DEF IsLayout
<1>6. \A k \in 1..n : start[k] \in 1..L /\ (Passes(plays[k]) # {} => start[k] + 1 \in 1..L)
  BY StartsGrow
<1> HIDE DEF more, moreLines, newRows, newLines, newPlays
<1>7. /\ new \in [1..n + 2 -> Nat \ {0}] /\ new[n + 2] = L + 1 + size
      /\ \A k \in 1..n + 1 : new[k] = start[k]
  BY <1>1, <1>5
<1> HIDE DEF new
<1>8. ASSUME NEW k \in 1..n + 1
      PROVE  /\ new[k + 1] = new[k] + IF Passes(newPlays[k]) = {} THEN 1 ELSE 2
             /\ IsJamRow(newRows[new[k]], k, newPlays[k])
             /\ Passes(newPlays[k]) # {} => IsPassRow(newRows[new[k] + 1], newPlays[k])
             /\ newLines[new[k]].label \in {"number", "text"}
             /\ \A s \in Sides : newLines[new[k]].skaters[s] = <<newPlays[k][s].jammer>> \o newPlays[k][s].others
             /\ Passes(newPlays[k]) # {} => newLines[new[k] + 1].label = "SP"
  <2>1. CASE k = n + 1
    <3>0. k + 1 = n + 2 /\ n + 1 \in 1..n + 1
      BY <1>1, <2>1
    <3>1. new[k] = L + 1 /\ new[k + 1] = L + 1 + size /\ newPlays[k] = play
      BY <1>2, <1>5, <1>7, <2>1, <3>0
    <3>2. newRows[new[k]] = jam /\ newLines[new[k]] = line /\ (~one => newRows[new[k] + 1] = pass /\ newLines[new[k] + 1] = second)
      BY <1>1, <1>3, <1>4, <3>1
    <3>3. QED
      BY <2>1, <3>1, <3>2
  <2>2. CASE k # n + 1
    <3>1. k \in 1..n /\ k + 1 \in 1..n + 1
      BY <1>1, <2>2
    <3>2. new[k] = start[k] /\ new[k + 1] = start[k + 1] /\ newPlays[k] = plays[k]
      BY <1>2, <1>7, <3>1
    <3>3. /\ newRows[new[k]] = rows[start[k]] /\ newLines[new[k]] = lines[start[k]]
          /\ Passes(plays[k]) # {} => /\ newRows[new[k] + 1] = rows[start[k] + 1]
                                      /\ newLines[new[k] + 1] = lines[start[k] + 1]
      BY <1>3, <1>4, <1>6, <3>1, <3>2
    <3>4. QED
      BY <3>1, <3>2, <3>3 DEF IsLayout
  <2>3. QED
    BY <2>1, <2>2
<1>9. IsLayout(new, newPlays, newRows, newLines)
  <2>1. new \in [1..Len(newPlays) + 1 -> Nat \ {0}] /\ Len(newPlays) + 1 = n + 2
    BY <1>1, <1>2, <1>7
  <2>2. new[1] = 1 /\ new[Len(newPlays) + 1] = Len(newRows) + 1 /\ Len(newLines) = Len(newRows)
    BY <1>1, <1>2, <1>3, <1>4, <1>5, <1>7
  <2>3. QED
    BY <1>2, <1>8, <2>1, <2>2 DEF IsLayout
<1>10. QED
  BY <1>9 DEF newPlays, newRows, newLines, more, moreLines

\* A jam that is entered has the rows of its play.
LEMMA EntersRows ==
  ASSUME NEW n \in Nat, NEW play \in JamPlays, NEW numberIs \in {"number", "text"},
         NEW otherSide \in {"blank", "label", "jammer"}
  PROVE  LET jam == [jam |-> n, label |-> [s \in Sides |-> numberIs],
                     jammer |-> [s \in Sides |-> play[s].jammer], points |-> [s \in Sides |-> play[s].points]]
             pass == [jam |-> n,
                      label |-> [s \in Sides |-> IF s \in Passes(play) \/ otherSide # "blank"
                                                 THEN "SP" ELSE "blank"],
                      jammer |-> [s \in Sides |-> IF otherSide = "jammer" /\ s \notin Passes(play)
                                                  THEN play[s].jammer ELSE play[s].to],
                      points |-> [s \in Sides |-> play[s].after]]
         IN  jam \in ScoreRow /\ IsJamRow(jam, n, play) /\ pass \in ScoreRow /\ IsPassRow(pass, play)
<1> DEFINE jam == [jam |-> n, label |-> [s \in Sides |-> numberIs],
                   jammer |-> [s \in Sides |-> play[s].jammer], points |-> [s \in Sides |-> play[s].points]]
           pass == [jam |-> n,
                    label |-> [s \in Sides |-> IF s \in Passes(play) \/ otherSide # "blank"
                                               THEN "SP" ELSE "blank"],
                    jammer |-> [s \in Sides |-> IF otherSide = "jammer" /\ s \notin Passes(play)
                                                THEN play[s].jammer ELSE play[s].to],
                    points |-> [s \in Sides |-> play[s].after]]
<1>1. \A s \in Sides : /\ play[s].jammer \in Cells /\ play[s].to \in Cells
                       /\ play[s].points \in Nat /\ play[s].after \in Nat
  <2>1. Blank \in Cells
    BY DEF Cells
  <2>2. QED
    BY <2>1, PlayTypes
<1>2. jam \in ScoreRow
  <2>1. [s \in Sides |-> numberIs] \in [Sides -> Labels]
    BY DEF Labels
  <2>2. [s \in Sides |-> play[s].jammer] \in [Sides -> Cells] /\ [s \in Sides |-> play[s].points] \in [Sides -> Nat]
    BY <1>1
  <2>3. QED
    BY <2>1, <2>2 DEF ScoreRow
<1>3. IsJamRow(jam, n, play)
  BY DEF IsJamRow, Sides
<1>4. pass \in ScoreRow
  <2>1. pass.label \in [Sides -> Labels]
    BY DEF Labels
  <2>2. pass.jammer \in [Sides -> Cells] /\ pass.points \in [Sides -> Nat]
    BY <1>1
  <2>3. QED
    BY <2>1, <2>2 DEF ScoreRow
<1>5. IsPassRow(pass, play)
  <2> SUFFICES ASSUME NEW s \in Sides
               PROVE  /\ pass.points[s] = play[s].after
                      /\ \/ pass.label[s] = "SP" /\ pass.jammer[s] = play[s].to
                         \/ play[s].to = Blank /\ pass.label[s] = "blank"
                         \/ play[s].to = Blank /\ pass.label[s] = "SP" /\ pass.jammer[s] = play[s].jammer
    BY DEF IsPassRow
  <2>1. s \in Passes(play) <=> play[s].to # Blank
    BY DEF Passes
  <2>2. QED
    BY <2>1
<1>6. QED
  BY <1>2, <1>3, <1>4, <1>5

\* The sheets hold the jams that were played in every state.
LEMMA BookInvariant == Spec => []BookInv
<1>1. Init => BookInv
  <2> SUFFICES ASSUME Init PROVE BookInv
    OBVIOUS
  <2>1. score = [p \in 1..2 |-> <<>>] /\ lineups = [p \in 1..2 |-> <<>>] /\ played = [p \in 1..2 |-> <<>>]
    BY DEF Init
  <2>2. IsLayout([k \in 1..1 |-> 1], <<>>, <<>>, <<>>)
    BY EmptySeq DEF IsLayout
  <2>3. Len(<<>>) = 0 /\ SheetRows \in Nat
    BY EmptySeq, ParserAssumption
  <2>4. QED
    BY <2>1, <2>2, <2>3, EmptySeq DEF BookInv
<1>2. BookInv /\ [Next]_vars => BookInv'
  <2> SUFFICES ASSUME BookInv, [Next]_vars PROVE BookInv'
    OBVIOUS
  <2>1. ASSUME UNCHANGED <<score, lineups, played>> PROVE BookInv'
    BY <2>1 DEF BookInv
  <2>2. ASSUME NEW p \in 1..2, NEW play \in JamPlays,
               NEW numberIs \in {"number", "text"}, NEW lineupIs \in {"number", "text"},
               NEW otherSide \in {"blank", "label", "jammer"},
               PlayJam(p, play, numberIs, lineupIs, otherSide)
        PROVE  BookInv'
    <3> DEFINE n == Len(played[p]) + 1
               one == Passes(play) = {}
               jam == [jam |-> n, label |-> [s \in Sides |-> numberIs],
                       jammer |-> [s \in Sides |-> play[s].jammer], points |-> [s \in Sides |-> play[s].points]]
               pass == [jam |-> n,
                        label |-> [s \in Sides |-> IF s \in Passes(play) \/ otherSide # "blank"
                                                   THEN "SP" ELSE "blank"],
                        jammer |-> [s \in Sides |-> IF otherSide = "jammer" /\ s \notin Passes(play)
                                                    THEN play[s].jammer ELSE play[s].to],
                        points |-> [s \in Sides |-> play[s].after]]
               row(label) == [label |-> label, skaters |-> [s \in Sides |-> <<play[s].jammer>> \o play[s].others]]
               line == row(lineupIs)
               second == row("SP")
    <3>1. /\ Len(score[p]) + (IF one THEN 1 ELSE 2) <= SheetRows
          /\ score' = [score EXCEPT ![p] = score[p] \o IF one THEN <<jam>> ELSE <<jam, pass>>]
          /\ lineups' = [lineups EXCEPT ![p] = lineups[p] \o IF one THEN <<line>> ELSE <<line, second>>]
          /\ played' = [played EXCEPT ![p] = Append(played[p], play)]
      BY <2>2 DEF PlayJam, Passes
    <3>2. /\ played \in [1..2 -> Seq(JamPlays)] /\ played[p] \in Seq(JamPlays)
          /\ score \in [1..2 -> Seq(ScoreRow)] /\ score[p] \in Seq(ScoreRow)
          /\ lineups \in [1..2 -> Seq(LineupRow)] /\ lineups[p] \in Seq(LineupRow)
      BY DEF BookInv
    <3>3. n \in Nat /\ n = Len(played[p]) + 1
      BY <3>2, LenProperties
    <3>4. jam \in ScoreRow /\ IsJamRow(jam, n, play) /\ pass \in ScoreRow /\ IsPassRow(pass, play)
      <4> HIDE DEF n
      <4> QED BY <3>3, EntersRows
    <3>5. line \in LineupRow /\ second \in LineupRow /\ line.label \in {"number", "text"} /\ second.label = "SP"
          /\ \A s \in Sides : line.skaters[s] = <<play[s].jammer>> \o play[s].others
      <4>1. \A s \in Sides : <<play[s].jammer>> \o play[s].others \in Seq(Cells)
        <5> SUFFICES ASSUME NEW s \in Sides PROVE <<play[s].jammer>> \o play[s].others \in Seq(Cells)
          OBVIOUS
        <5>1. play[s].jammer \in Cells /\ play[s].others \in Seq(Cells)
          BY PlayTypes
        <5>2. <<play[s].jammer>> \in Seq(Cells)
          BY <5>1
        <5>3. QED
          BY <5>1, <5>2, ConcatProperties
      <4>2. \A label \in Labels : row(label) \in LineupRow
        BY <4>1 DEF LineupRow
      <4>3. QED
        BY <4>2 DEF Labels
    <3>6. PICK start : IsLayout(start, played[p], score[p], lineups[p])
      BY DEF BookInv
    <3> HIDE DEF n, jam, pass, line, second
    <3>7. \E new : IsLayout(new, Append(played[p], play),
                            score[p] \o (IF one THEN <<jam>> ELSE <<jam, pass>>),
                            lineups[p] \o (IF one THEN <<line>> ELSE <<line, second>>))
      BY <3>2, <3>3, <3>4, <3>5, <3>6, LayoutGrows
    <3>8. \E new : IsLayout(new, played'[p], score'[p], lineups'[p])
      BY <3>1, <3>2, <3>7
    <3>9. /\ played' \in [1..2 -> Seq(JamPlays)] /\ score' \in [1..2 -> Seq(ScoreRow)]
          /\ lineups' \in [1..2 -> Seq(LineupRow)]
          /\ Len(score'[p]) <= SheetRows
      <4>1. (IF one THEN <<jam>> ELSE <<jam, pass>>) \in Seq(ScoreRow)
            /\ Len(IF one THEN <<jam>> ELSE <<jam, pass>>) = IF one THEN 1 ELSE 2
        BY <3>4
      <4>2. (IF one THEN <<line>> ELSE <<line, second>>) \in Seq(LineupRow)
        BY <3>5
      <4> DEFINE more == IF one THEN <<jam>> ELSE <<jam, pass>>
                 moreLines == IF one THEN <<line>> ELSE <<line, second>>
      <4> HIDE DEF more, moreLines
      <4>3. score[p] \o more \in Seq(ScoreRow) /\ Len(score[p] \o more) = Len(score[p]) + Len(more)
        BY <3>2, <4>1, ConcatProperties DEF more
      <4>4. lineups[p] \o moreLines \in Seq(LineupRow)
        BY <3>2, <4>2, ConcatProperties DEF moreLines
      <4>5. Append(played[p], play) \in Seq(JamPlays)
        BY <3>2, AppendProperties
      <4>6. score'[p] = score[p] \o more
        BY <3>1, <3>2 DEF more
      <4>7. QED
        BY <3>1, <3>2, <4>1, <4>3, <4>4, <4>5, <4>6 DEF more, moreLines
    <3>10. \A q \in 1..2 : q # p => score'[q] = score[q] /\ lineups'[q] = lineups[q] /\ played'[q] = played[q]
      BY <3>1, <3>2
    <3>11. \A q \in 1..2 : /\ Len(score'[q]) <= SheetRows
                           /\ \E new : IsLayout(new, played'[q], score'[q], lineups'[q])
      BY <3>8, <3>9, <3>10 DEF BookInv
    <3>12. QED
      BY <3>9, <3>11 DEF BookInv
  <2>3. ASSUME NEW p \in 1..2, NEW s \in Sides, NEW i \in DOMAIN roster[s], GivePenalty(p, s, i)
        PROVE  BookInv'
    BY <2>1, <2>3 DEF GivePenalty
  <2>4. ASSUME NEW day, NEW form, NEW short, NEW inName, WriteDate(day, form, short, inName)
        PROVE  BookInv'
    BY <2>1, <2>4 DEF WriteDate
  <2>5. ASSUME NEW calculated, NEW staleScores, NEW staleSummary, NEW totals, Save(calculated, staleScores, staleSummary, totals)
        PROVE  BookInv'
    BY <2>1, <2>5 DEF Save, book
  <2>6. CASE Parse
    BY <2>1, <2>6 DEF Parse, book
  <2>7. CASE UNCHANGED vars
    BY <2>1, <2>7 DEF vars, book
  <2>8. CASE \E p \in 1..2, play \in [Sides -> Plays], numberIs, lineupIs \in {"number", "text"},
              otherSide \in {"blank", "label", "jammer"} : PlayJam(p, play, numberIs, lineupIs, otherSide)
    BY <2>2, <2>8 DEF JamPlays
  <2>9. QED
    BY <2>3, <2>4, <2>5, <2>6, <2>7, <2>8 DEF Next
<1>3. QED
  BY <1>1, <1>2, PTL DEF Spec

-----------------------------------------------------------------------------
(* Reading the rows of Score *)

\* What is read from row i on, if f is what is read from the rows below.
FromRow(f, rows, i) ==
  IF i > Len(rows) \/ i > SheetRows THEN <<>>
  ELSE IF IsText(rows[i].label["home"]) THEN f[i + 1]
  ELSE IF rows[i].label["home"] # "number" THEN <<>>
  ELSE <<ReadJam(rows, i)>> \o f[RowAfter(rows, i)]

\* f holds what is read from each row on.
IsReading(f, rows) == \A i \in 1..Len(rows) + 1 : f[i] = FromRow(f, rows, i)

\* The row after one of the sheet is below it and ends the sheet at most.
LEMMA RowAfterIsBelow ==
  ASSUME NEW rows, Len(rows) \in Nat, DOMAIN rows = 1..Len(rows), NEW i \in 1..Len(rows)
  PROVE  RowAfter(rows, i) \in i + 1..Len(rows) + 1
<1>1. ASSUME NEW s \in Sides, PassedAt(rows, i + 1, s) PROVE i + 1 <= Len(rows)
  BY <1>1 DEF PassedAt, LabelAt, IsText
<1>2. CASE \E s \in Sides : PassedAt(rows, i + 1, s)
  <2>1. i + 1 <= Len(rows) /\ RowAfter(rows, i) = i + 2
    BY <1>1, <1>2 DEF RowAfter
  <2>2. QED
    BY <2>1
<1>3. CASE ~ \E s \in Sides : PassedAt(rows, i + 1, s)
  <2>1. RowAfter(rows, i) = i + 1
    BY <1>3 DEF RowAfter
  <2>2. QED
    BY <2>1
<1>4. QED
  BY <1>2, <1>3

\* What is read from a row on depends on the rows below alone.
LEMMA FromRowLooksDown ==
  ASSUME NEW rows, Len(rows) \in Nat, DOMAIN rows = 1..Len(rows), NEW i \in 1..Len(rows) + 1,
         NEW f, NEW g, \A j \in 1..Len(rows) + 1 : j > i => f[j] = g[j]
  PROVE  FromRow(f, rows, i) = FromRow(g, rows, i)
<1>1. CASE i > Len(rows)
  BY <1>1 DEF FromRow
<1>2. CASE ~(i > Len(rows))
  <2>1. i \in 1..Len(rows)
    BY <1>2
  <2>2. RowAfter(rows, i) \in i + 1..Len(rows) + 1
    BY <2>1, RowAfterIsBelow
  <2>3. f[i + 1] = g[i + 1]
    BY <2>1
  <2>4. f[RowAfter(rows, i)] = g[RowAfter(rows, i)]
    BY <2>1, <2>2
  <2>5. QED
    BY <2>3, <2>4 DEF FromRow
<1>3. QED
  BY <1>1, <1>2

\* There is such a function, from the last row upwards.
LEMMA ReadingExists ==
  ASSUME NEW rows, Len(rows) \in Nat, DOMAIN rows = 1..Len(rows)
  PROVE  \E f : f = [i \in 1..Len(rows) + 1 |-> FromRow(f, rows, i)]
<1> DEFINE L == Len(rows)
           Holds(f, m) == \A i \in 1..L + 1 : i + m > L => f[i] = FromRow(f, rows, i)
           Good == {m \in Nat : \E f : f = [i \in 1..L + 1 |-> f[i]] /\ Holds(f, m)}
<1>0. L \in Nat
  OBVIOUS
<1>1. 0 \in Good
  <2> DEFINE f == [i \in 1..L + 1 |-> <<>>]
  <2>1. \A i \in 1..L + 1 : i + 0 > L => f[i] = FromRow(f, rows, i)
    <3> SUFFICES ASSUME NEW i \in 1..L + 1, i + 0 > L PROVE f[i] = FromRow(f, rows, i)
      OBVIOUS
    <3>1. i > L /\ f[i] = <<>>
      OBVIOUS
    <3>2. QED
      BY <3>1 DEF FromRow
  <2>2. f = [i \in 1..L + 1 |-> f[i]]
    OBVIOUS
  <2> HIDE DEF f
  <2>3. QED
    BY <2>1, <2>2
<1>2. ASSUME NEW m \in Nat, m \in Good PROVE m + 1 \in Good
  <2>0. \A i \in 1..L + 1 : i + (m + 1) > L =>
          /\ i # L - m => i + m > L
          /\ \A j \in 1..L + 1 : j > i => j # L - m
    <3>1. \A l, k, i, j \in Nat : i + (k + 1) > l =>
            /\ i # l - k => i + k > l
            /\ j > i => j # l - k
      OBVIOUS
    <3>2. L \in Nat /\ \A i \in 1..L + 1 : i \in Nat
      BY <1>0
    <3> HIDE DEF L
    <3> SUFFICES ASSUME NEW i \in 1..L + 1, i + (m + 1) > L
                 PROVE  /\ i # L - m => i + m > L
                        /\ \A j \in 1..L + 1 : j > i => j # L - m
      OBVIOUS
    <3>3. i # L - m => i + m > L
      BY <3>1, <3>2
    <3>4. ASSUME NEW j \in 1..L + 1, j > i PROVE j # L - m
      BY <3>1, <3>2, <3>4
    <3>5. QED
      BY <3>3, <3>4
  <2>1. PICK f : f = [i \in 1..L + 1 |-> f[i]] /\ Holds(f, m)
    BY <1>2
  <2> DEFINE g == [i \in 1..L + 1 |-> IF i = L - m THEN FromRow(f, rows, i) ELSE f[i]]
  <2>2. \A i \in 1..L + 1 : g[i] = IF i = L - m THEN FromRow(f, rows, i) ELSE f[i]
    OBVIOUS
  <2>3. g = [i \in 1..L + 1 |-> g[i]]
    OBVIOUS
  <2> HIDE DEF g
  <2>4. ASSUME NEW i \in 1..L + 1, i + (m + 1) > L PROVE g[i] = FromRow(g, rows, i)
    <3>1. \A j \in 1..L + 1 : j > i => f[j] = g[j]
      <4> SUFFICES ASSUME NEW j \in 1..L + 1, j > i PROVE f[j] = g[j]
        OBVIOUS
      <4>1. j # L - m
        BY <2>0, <2>4
      <4>2. QED
        BY <2>2, <4>1
    <3>2. FromRow(f, rows, i) = FromRow(g, rows, i)
      BY <3>1, FromRowLooksDown
    <3>3. CASE i = L - m
      BY <2>2, <3>2, <3>3
    <3>4. CASE i # L - m
      <4>1. i + m > L
        BY <2>0, <2>4, <3>4
      <4>2. QED
        BY <2>1, <2>2, <3>2, <3>4, <4>1
    <3>5. QED
      BY <3>3, <3>4
  <2>5. Holds(g, m + 1)
    BY <2>4
  <2>6. QED
    BY <2>3, <2>5
<1>3. L + 1 \in Good
  <2> HIDE DEF Good
  <2>1. Nat \subseteq Good
    BY <1>1, <1>2, NatSetInduction
  <2>2. QED
    BY <1>0, <2>1
<1>4. PICK f : f = [i \in 1..L + 1 |-> f[i]] /\ Holds(f, L + 1)
  BY <1>3
<1>5. \A i \in 1..L + 1 : f[i] = FromRow(f, rows, i)
  <2>1. \A i \in 1..L + 1 : i + (L + 1) > L
    BY <1>0
  <2>2. QED
    BY <1>4, <2>1
<1>6. f = [i \in 1..L + 1 |-> FromRow(f, rows, i)]
  BY <1>4, <1>5
<1>7. QED
  BY <1>6

\* The jams of a period in terms of such a function.
LEMMA ReadJamsIsReading ==
  ASSUME NEW rows, Len(rows) \in Nat, DOMAIN rows = 1..Len(rows)
  PROVE  \E f : IsReading(f, rows) /\ ReadJams(rows) = f[1]
<1> DEFINE IsFrom(f) ==
             f = [i \in 1..Len(rows) + 1 |->
                    IF i > Len(rows) \/ i > SheetRows THEN <<>>
                    ELSE IF IsText(rows[i].label["home"]) THEN f[i + 1]
                    ELSE IF rows[i].label["home"] # "number" THEN <<>>
                    ELSE <<ReadJam(rows, i)>> \o f[RowAfter(rows, i)]]
           from == CHOOSE f : IsFrom(f)
<1>1. ReadJams(rows) = from[1]
  BY DEF ReadJams
<1>2. \A f : IsFrom(f) <=> f = [i \in 1..Len(rows) + 1 |-> FromRow(f, rows, i)]
  BY DEF FromRow
<1> HIDE DEF IsFrom
<1>3. \E f : IsFrom(f)
  BY <1>2, ReadingExists
<1>4. IsFrom(from)
  BY <1>3, Zenon
<1> HIDE DEF from
<1>5. from = [i \in 1..Len(rows) + 1 |-> FromRow(from, rows, i)]
  BY <1>2, <1>4
<1> DEFINE body(i) == FromRow(from, rows, i)
<1>6. from = [i \in 1..Len(rows) + 1 |-> body(i)]
  BY <1>5
<1> HIDE DEF body
<1>7. \A i \in 1..Len(rows) + 1 : from[i] = body(i)
  BY <1>6
<1>8. IsReading(from, rows)
  BY <1>7 DEF IsReading, body
<1>9. QED
  BY <1>1, <1>8

\* A sheet with a layout: the rows of Score and Lineups of a period.
IsSheet(start, plays, rows, lines) ==
  /\ plays \in Seq(JamPlays) /\ rows \in Seq(ScoreRow) /\ lines \in Seq(LineupRow)
  /\ Len(rows) <= SheetRows
  /\ IsLayout(start, plays, rows, lines)

\* Where the rows of a sheet are and what is below them.
LEMMA SheetTypes ==
  ASSUME NEW start, NEW plays, NEW rows, NEW lines, IsSheet(start, plays, rows, lines)
  PROVE  /\ Len(plays) \in Nat /\ Len(rows) \in Nat /\ DOMAIN rows = 1..Len(rows) /\ DOMAIN plays = 1..Len(plays)
         /\ \A i \in 1..Len(rows) : rows[i] \in ScoreRow
         /\ \A k \in 1..Len(plays) : plays[k] \in JamPlays
         /\ \A k \in 1..Len(plays) + 1 : start[k] \in 1..Len(rows) + 1
         /\ start[1] = 1 /\ start[Len(plays) + 1] = Len(rows) + 1
         /\ \A k \in 1..Len(plays) :
              /\ start[k] \in 1..Len(rows)
              /\ Passes(plays[k]) = {} => start[k + 1] = start[k] + 1
              /\ Passes(plays[k]) # {} => start[k] + 1 \in 1..Len(rows) /\ start[k + 1] = start[k] + 2
<1>1. /\ plays \in Seq(JamPlays) /\ rows \in Seq(ScoreRow)
      /\ IsLayout(start, plays, rows, lines)
  BY DEF IsSheet
<1>2. /\ Len(plays) \in Nat /\ Len(rows) \in Nat /\ DOMAIN rows = 1..Len(rows) /\ DOMAIN plays = 1..Len(plays)
      /\ \A i \in 1..Len(rows) : rows[i] \in ScoreRow
      /\ \A k \in 1..Len(plays) : plays[k] \in JamPlays
  BY <1>1, LenProperties, ElementOfSeq
<1>3. \A k \in 1..Len(plays) : /\ start[k] \in 1..Len(rows)
                               /\ Passes(plays[k]) # {} => start[k] + 1 \in 1..Len(rows)
  BY <1>1, StartsGrow
<1>4. /\ start[1] = 1 /\ start[Len(plays) + 1] = Len(rows) + 1
      /\ \A k \in 1..Len(plays) : start[k + 1] = start[k] + IF Passes(plays[k]) = {} THEN 1 ELSE 2
  BY <1>1 DEF IsLayout
<1>5. \A k \in 1..Len(plays) + 1 : start[k] \in 1..Len(rows) + 1
  <2> SUFFICES ASSUME NEW k \in 1..Len(plays) + 1 PROVE start[k] \in 1..Len(rows) + 1
    OBVIOUS
  <2>1. CASE k = Len(plays) + 1
    BY <1>2, <1>4, <2>1
  <2>2. CASE k # Len(plays) + 1
    <3>1. k \in 1..Len(plays)
      BY <1>2, <2>2
    <3>2. start[k] \in 1..Len(rows)
      BY <1>3, <3>1
    <3>3. QED
      BY <1>2, <3>2
  <2>3. QED
    BY <2>1, <2>2
<1>6. QED
  BY <1>2, <1>3, <1>4, <1>5

\* The jam numbers of a period are numbers.
Numbered(rows) == \A i \in 1..Len(rows) : rows[i].label["home"] # "text"

\* What is read of a side is what it did, a star that stayed at home aside.
AsPlayed(side, play) ==
  /\ side.jammer = play.jammer
  /\ side.to \in IF play.to # Blank THEN {play.to} ELSE {Blank, play.jammer}
  /\ side.points = play.points + play.after

\* The first row of a numbered jam is read, with the row of its star pass, and
\* nothing of another jam.
LEMMA JamRowIsRead ==
  ASSUME NEW start, NEW plays, NEW rows, NEW lines, IsSheet(start, plays, rows, lines), Numbered(rows),
         NEW k \in 1..Len(plays)
  PROVE  /\ rows[start[k]].label["home"] = "number"
         /\ RowAfter(rows, start[k]) = start[k + 1]
         /\ rows[start[k]].jam = k
         /\ \A s \in Sides : AsPlayed(ReadSide(rows, start[k], s), plays[k][s])
<1> DEFINE i == start[k]
           n == Len(plays)
           L == Len(rows)
<1>1. /\ n \in Nat /\ L \in Nat /\ DOMAIN rows = 1..L /\ i \in 1..L /\ start[k + 1] \in 1..L + 1
      /\ k + 1 \in 1..n + 1
  <2>1. k + 1 \in 1..n + 1 /\ n \in Nat
    BY SheetTypes
  <2>2. QED
    BY <2>1, SheetTypes
<1>2. IsJamRow(rows[i], k, plays[k]) /\ (Passes(plays[k]) # {} => IsPassRow(rows[i + 1], plays[k]))
  BY DEF IsSheet, IsLayout
<1>3. rows[i].label["home"] = "number" /\ rows[i].jam = k
  BY <1>1, <1>2 DEF IsJamRow, Numbered
<1>4. \A s \in Sides : /\ plays[k][s].points \in Nat /\ plays[k][s].after \in Nat
                       /\ plays[k][s].to = Blank => plays[k][s].after = 0
  BY SheetTypes, PlayTypes
<1>5. \A s \in Sides : rows[i].jammer[s] = plays[k][s].jammer /\ rows[i].points[s] = plays[k][s].points
  BY <1>2 DEF IsJamRow
<1>6. CASE Passes(plays[k]) = {}
  <2>1. start[k + 1] = i + 1 /\ \A s \in Sides : plays[k][s].to = Blank
    BY <1>6, SheetTypes DEF Passes
  <2>2. \A s \in Sides : ~PassedAt(rows, i + 1, s)
    <3>1. CASE k = n
      <4>1. i + 1 \notin DOMAIN rows
        BY <1>1, <2>1, <3>1, SheetTypes
      <4>2. QED
        BY <4>1 DEF PassedAt, LabelAt, IsText
    <3>2. CASE k # n
      <4>1. k + 1 \in 1..n
        BY <1>1, <3>2
      <4>2. IsJamRow(rows[start[k + 1]], k + 1, plays[k + 1]) /\ start[k + 1] \in 1..L
        BY <4>1, SheetTypes DEF IsSheet, IsLayout
      <4>3. rows[i + 1].label["home"] = "number" /\ rows[i + 1].label["away"] = "number" /\ i + 1 \in DOMAIN rows
        BY <1>1, <2>1, <4>2 DEF IsJamRow, Numbered
      <4>4. QED
        BY <4>3 DEF PassedAt, LabelAt, IsText, Sides
    <3>3. QED
      BY <3>1, <3>2
  <2>3. RowAfter(rows, i) = start[k + 1]
    BY <2>1, <2>2 DEF RowAfter
  <2>4. ASSUME NEW s \in Sides
        PROVE  AsPlayed(ReadSide(rows, i, s), plays[k][s])
    <3>1. ReadSide(rows, i, s) = [jammer |-> rows[i].jammer[s], to |-> Blank, points |-> rows[i].points[s], lineup |-> {}]
      BY <2>2 DEF ReadSide
    <3>2. plays[k][s].points + plays[k][s].after = plays[k][s].points
      BY <1>4, <2>1
    <3>3. QED
      BY <1>5, <2>1, <3>1, <3>2 DEF AsPlayed
  <2>5. QED
    BY <1>3, <2>3, <2>4
<1>7. CASE Passes(plays[k]) # {}
  <2>1. start[k + 1] = i + 2 /\ i + 1 \in DOMAIN rows /\ IsPassRow(rows[i + 1], plays[k])
    BY <1>1, <1>2, <1>7, SheetTypes
  <2>2. \E s \in Sides : PassedAt(rows, i + 1, s)
    <3>1. PICK s \in Sides : plays[k][s].to # Blank
      BY <1>7 DEF Passes
    <3>2. rows[i + 1].label[s] = "SP"
      BY <2>1, <3>1 DEF IsPassRow
    <3>3. QED
      BY <2>1, <3>2 DEF PassedAt, LabelAt, IsText
  <2>3. RowAfter(rows, i) = start[k + 1]
    BY <2>1, <2>2 DEF RowAfter
  <2>4. ASSUME NEW s \in Sides
        PROVE  AsPlayed(ReadSide(rows, i, s), plays[k][s])
    <3>1. /\ rows[i + 1].points[s] = plays[k][s].after
          /\ \/ rows[i + 1].label[s] = "SP" /\ rows[i + 1].jammer[s] = plays[k][s].to
             \/ plays[k][s].to = Blank /\ rows[i + 1].label[s] = "blank"
             \/ plays[k][s].to = Blank /\ rows[i + 1].label[s] = "SP" /\ rows[i + 1].jammer[s] = plays[k][s].jammer
      BY <2>1 DEF IsPassRow
    <3>2. CASE rows[i + 1].label[s] = "SP"
      <4>1. ReadSide(rows, i, s) = [jammer |-> rows[i].jammer[s], to |-> rows[i + 1].jammer[s],
                                    points |-> rows[i].points[s] + rows[i + 1].points[s], lineup |-> {}]
        BY <2>1, <3>2 DEF ReadSide, PassedAt, LabelAt, IsText
      <4>2. QED
        BY <1>5, <3>1, <3>2, <4>1 DEF AsPlayed
    <3>3. CASE rows[i + 1].label[s] = "blank"
      <4>1. ReadSide(rows, i, s) = [jammer |-> rows[i].jammer[s], to |-> Blank, points |-> rows[i].points[s], lineup |-> {}]
        BY <2>1, <3>3 DEF ReadSide, PassedAt, LabelAt, IsText
      <4>2. plays[k][s].to = Blank /\ plays[k][s].points + plays[k][s].after = plays[k][s].points
        BY <1>4, <3>1, <3>3
      <4>3. QED
        BY <1>5, <4>1, <4>2 DEF AsPlayed
    <3>4. QED
      BY <3>1, <3>2, <3>3
  <2>5. QED
    BY <1>3, <2>3, <2>4
<1>8. QED
  BY <1>6, <1>7

\* The jams of a numbered period are read, each from its first row.
LEMMA NumberedJamsAreRead ==
  ASSUME NEW start, NEW plays, NEW rows, NEW lines, IsSheet(start, plays, rows, lines), Numbered(rows)
  PROVE  /\ Len(ReadJams(rows)) = Len(plays) /\ DOMAIN ReadJams(rows) = 1..Len(plays)
         /\ ReadJams(rows) = <<>> <=> plays = <<>>
         /\ \A k \in 1..Len(plays) : ReadJams(rows)[k] = ReadJam(rows, start[k])
<1> DEFINE n == Len(plays)
           L == Len(rows)
           Jams == {ReadJam(rows, i) : i \in 1..L}
<1>1. /\ n \in Nat /\ L \in Nat /\ DOMAIN rows = 1..L /\ L <= SheetRows /\ SheetRows \in Nat
      /\ start[1] = 1 /\ start[n + 1] = L + 1
      /\ \A k \in 1..n : start[k] \in 1..L
  BY SheetTypes, ParserAssumption DEF IsSheet
<1>2. PICK f : IsReading(f, rows) /\ ReadJams(rows) = f[1]
  BY <1>1, ReadJamsIsReading
<1> HIDE DEF n, L
<1>3. f[L + 1] = <<>>
  <2>1. L + 1 \in 1..L + 1 /\ L + 1 > L
    BY <1>1
  <2>2. QED
    BY <1>2, <2>1 DEF IsReading, FromRow, L
<1>4. \A k \in 1..n : f[start[k]] = <<ReadJam(rows, start[k])>> \o f[start[k + 1]]
  <2> SUFFICES ASSUME NEW k \in 1..n PROVE f[start[k]] = <<ReadJam(rows, start[k])>> \o f[start[k + 1]]
    OBVIOUS
  <2>1. start[k] \in 1..L /\ start[k] \in 1..L + 1 /\ ~(start[k] > L) /\ ~(start[k] > SheetRows)
    BY <1>1
  <2>2. rows[start[k]].label["home"] = "number" /\ RowAfter(rows, start[k]) = start[k + 1]
    BY JamRowIsRead DEF n
  <2>3. f[start[k]] = FromRow(f, rows, start[k])
    BY <1>2, <2>1 DEF IsReading, L
  <2>4. QED
    BY <2>1, <2>2, <2>3 DEF FromRow, IsText, L
<1> DEFINE Holds(m) == /\ f[start[n + 1 - m]] \in Seq(Jams) /\ Len(f[start[n + 1 - m]]) = m
                       /\ \A l \in 1..m : f[start[n + 1 - m]][l] = ReadJam(rows, start[n + 1 - m + l - 1])
           Good == {m \in Nat : m <= n => Holds(m)}
<1>5. 0 \in Good
  <2>1. n + 1 - 0 = n + 1 /\ 1..0 = {}
    BY <1>1
  <2>2. QED
    BY <1>1, <1>3, <2>1, EmptySeq
<1>6. ASSUME NEW m \in Nat, m \in Good PROVE m + 1 \in Good
  <2> SUFFICES ASSUME m + 1 <= n PROVE Holds(m + 1)
    <3> HIDE DEF Holds
    <3> QED OBVIOUS
  <2> DEFINE k == n - m
             rest == f[start[k + 1]]
  <2>1. k \in 1..n /\ n + 1 - m = k + 1 /\ n + 1 - (m + 1) = k /\ m <= n
    BY <1>1
  <2>2. rest \in Seq(Jams) /\ Len(rest) = m /\ \A l \in 1..m : rest[l] = ReadJam(rows, start[k + 1 + l - 1])
    BY <1>6, <2>1
  <2>3. ReadJam(rows, start[k]) \in Jams
    BY <1>1, <2>1
  <2>4. f[start[k]] = <<ReadJam(rows, start[k])>> \o rest
    BY <1>4, <2>1
  <2> HIDE DEF k, rest, Jams
  <2> DEFINE jam == ReadJam(rows, start[k])
  <2>5. <<jam>> \in Seq(Jams) /\ Len(<<jam>>) = 1 /\ <<jam>>[1] = jam
    BY <2>3
  <2>6. /\ <<jam>> \o rest \in Seq(Jams) /\ Len(<<jam>> \o rest) = 1 + m
        /\ \A l \in 1..1 + m : (<<jam>> \o rest)[l] = IF l <= 1 THEN <<jam>>[l] ELSE rest[l - 1]
    <3> HIDE DEF jam
    <3>1. /\ <<jam>> \o rest \in Seq(Jams) /\ Len(<<jam>> \o rest) = Len(<<jam>>) + Len(rest)
          /\ \A l \in 1..Len(<<jam>>) + Len(rest) :
               (<<jam>> \o rest)[l] = IF l <= Len(<<jam>>) THEN <<jam>>[l] ELSE rest[l - Len(<<jam>>)]
      BY <2>2, <2>5, ConcatProperties
    <3>2. QED
      BY <2>2, <2>5, <3>1
  <2>7. ASSUME NEW l \in 1..m + 1 PROVE (<<jam>> \o rest)[l] = ReadJam(rows, start[k + l - 1])
    <3>1. CASE l = 1
      <4>1. l \in 1..1 + m /\ l <= 1 /\ k + l - 1 = k
        BY <2>1, <3>1
      <4> HIDE DEF jam
      <4>2. (<<jam>> \o rest)[l] = jam
        BY <2>5, <2>6, <3>1, <4>1
      <4>3. QED
        BY <4>1, <4>2 DEF jam
    <3>2. CASE l # 1
      <4>1. l \in 1..1 + m /\ ~(l <= 1) /\ l - 1 \in 1..m /\ k + 1 + (l - 1) - 1 = k + l - 1
        BY <2>1, <3>2
      <4>2. (<<jam>> \o rest)[l] = rest[l - 1]
        <5> HIDE DEF jam
        <5> QED BY <2>6, <4>1
      <4>3. rest[l - 1] = ReadJam(rows, start[k + 1 + (l - 1) - 1])
        BY <2>2, <4>1
      <4>4. QED
        BY <4>1, <4>2, <4>3
    <3>3. QED
      BY <3>1, <3>2
  <2>8. 1 + m = m + 1
    OBVIOUS
  <2>9. QED
    BY <2>1, <2>4, <2>6, <2>7, <2>8
<1>7. n \in Good
  <2> HIDE DEF Good
  <2>1. Nat \subseteq Good
    BY <1>5, <1>6, NatSetInduction
  <2>2. QED
    BY <1>1, <2>1
<1>8. Holds(n) /\ n + 1 - n = 1
  BY <1>1, <1>7
<1>9. /\ ReadJams(rows) \in Seq(Jams) /\ Len(ReadJams(rows)) = n
      /\ \A k \in 1..n : ReadJams(rows)[k] = ReadJam(rows, start[1 + k - 1])
  BY <1>1, <1>2, <1>8
<1>10. \A k \in 1..n : 1 + k - 1 = k
  BY <1>1
<1>11. DOMAIN ReadJams(rows) = 1..n
  BY <1>9, LenProperties
<1>12. ReadJams(rows) = <<>> <=> plays = <<>>
  <2>1. plays \in Seq(JamPlays)
    BY DEF IsSheet
  <2> HIDE DEF Jams
  <2>2. (ReadJams(rows) = <<>> <=> Len(ReadJams(rows)) = 0) /\ (plays = <<>> <=> Len(plays) = 0)
    BY <1>9, <2>1, EmptySeq
  <2>3. QED
    BY <1>9, <2>2 DEF n
<1>13. QED
  BY <1>9, <1>10, <1>11, <1>12 DEF n

-----------------------------------------------------------------------------
(* The rows of Lineups *)

\* The row of the k-th jam, if at holds those of the jams before.
RowOf(at, rows, k) == IF k = 0 THEN 0 ELSE NextLineup(rows, at[k - 1] + 1)

\* There is a table of the rows of n jams.
LEMMA RowsExist ==
  ASSUME NEW rows
  PROVE  \A n \in Nat : \E at : at = [k \in 0..n |-> RowOf(at, rows, k)]
<1> DEFINE Good == {n \in Nat : \E at : at = [k \in 0..n |-> RowOf(at, rows, k)]}
<1>1. 0 \in Good
  <2> DEFINE at == [k \in 0..0 |-> 0]
  <2>1. at = [k \in 0..0 |-> RowOf(at, rows, k)]
    BY DEF RowOf
  <2> HIDE DEF at
  <2>2. QED
    BY <2>1
<1>2. ASSUME NEW n \in Nat, n \in Good PROVE n + 1 \in Good
  <2>1. PICK at : at = [k \in 0..n |-> RowOf(at, rows, k)]
    BY <1>2
  <2> DEFINE was(k) == RowOf(at, rows, k)
  <2>2. at = [k \in 0..n |-> was(k)]
    BY <2>1
  <2> HIDE DEF was
  <2>3. \A k \in 0..n : at[k] = was(k)
    BY <2>2
  <2> DEFINE new == [k \in 0..n + 1 |-> IF k = n + 1 THEN RowOf(at, rows, n + 1) ELSE at[k]]
  <2>4. \A k \in 0..n + 1 : new[k] = IF k = n + 1 THEN RowOf(at, rows, n + 1) ELSE at[k]
    OBVIOUS
  <2>5. new = [k \in 0..n + 1 |-> new[k]]
    OBVIOUS
  <2> HIDE DEF new
  <2>6. ASSUME NEW k \in 0..n + 1 PROVE new[k] = RowOf(new, rows, k)
    <3>1. k # 0 => new[k - 1] = at[k - 1]
      <4>1. k # 0 => k - 1 \in 0..n + 1 /\ k - 1 # n + 1
        OBVIOUS
      <4>2. QED
        BY <2>4, <4>1
    <3>2. RowOf(new, rows, k) = RowOf(at, rows, k)
      BY <3>1 DEF RowOf
    <3>3. k # n + 1 => k \in 0..n
      OBVIOUS
    <3>4. QED
      BY <2>3, <2>4, <3>2, <3>3 DEF was
  <2>7. new = [k \in 0..n + 1 |-> RowOf(new, rows, k)]
    BY <2>5, <2>6
  <2>8. QED
    BY <2>7
<1>3. QED
  <2> HIDE DEF Good
  <2>1. Nat \subseteq Good
    BY <1>1, <1>2, NatSetInduction
  <2>2. QED
    BY <2>1 DEF Good

\* Each jam takes the next row that is not one of a star pass.
LEMMA LineupRowsFollow ==
  ASSUME NEW rows, NEW n \in Nat
  PROVE  /\ LineupRows(rows, n)[0] = 0
         /\ \A k \in 1..n : LineupRows(rows, n)[k] = NextLineup(rows, LineupRows(rows, n)[k - 1] + 1)
<1> DEFINE IsAt(at) == at = [k \in 0..n |-> IF k = 0 THEN 0 ELSE NextLineup(rows, at[k - 1] + 1)]
           rowAt == CHOOSE at : IsAt(at)
<1>1. LineupRows(rows, n) = rowAt
  BY DEF LineupRows
<1>2. \A at : IsAt(at) <=> at = [k \in 0..n |-> RowOf(at, rows, k)]
  BY DEF RowOf
<1> HIDE DEF IsAt
<1>3. \E at : IsAt(at)
  <2>1. \E at : at = [k \in 0..n |-> RowOf(at, rows, k)]
    BY RowsExist
  <2>2. QED
    BY <1>2, <2>1
<1>4. IsAt(rowAt)
  BY <1>3, Zenon
<1> HIDE DEF rowAt
<1>5. rowAt = [k \in 0..n |-> RowOf(rowAt, rows, k)]
  BY <1>2, <1>4
<1> DEFINE body(k) == RowOf(rowAt, rows, k)
<1>6. rowAt = [k \in 0..n |-> body(k)]
  BY <1>5
<1> HIDE DEF body
<1>7. \A k \in 0..n : rowAt[k] = body(k)
  BY <1>6
<1>8. rowAt[0] = 0
  BY <1>7 DEF body, RowOf
<1>9. \A k \in 1..n : rowAt[k] = NextLineup(rows, rowAt[k - 1] + 1)
  <2>1. \A k \in 1..n : k \in 0..n /\ k # 0
    OBVIOUS
  <2>2. QED
    BY <1>7, <2>1 DEF body, RowOf
<1>10. QED
  BY <1>1, <1>8, <1>9

\* The next row is r if that is none of a star pass, and the one after it if only
\* r is one.
LEMMA NextLineupIs ==
  ASSUME NEW rows, Len(rows) \in Nat, DOMAIN rows = 1..Len(rows), NEW r \in 1..Len(rows)
  PROVE  /\ rows[r].label # "SP" => NextLineup(rows, r) = r
         /\ rows[r].label = "SP" /\ (r + 1 \in 1..Len(rows) => rows[r + 1].label # "SP") => NextLineup(rows, r) = r + 1
<1> DEFINE set == {q \in r..r + Len(rows) : q \notin DOMAIN rows \/ ~IsStarPassRow(rows[q].label)}
<1>1. NextLineup(rows, r) = Min(set)
  BY DEF NextLineup
<1>2. set \subseteq Nat /\ \A q \in set : r <= q
  OBVIOUS
<1>3. ASSUME rows[r].label # "SP" PROVE NextLineup(rows, r) = r
  <2>1. r \in set
    BY <1>3 DEF IsStarPassRow
  <2> DEFINE m == Min(set)
  <2> HIDE DEF set
  <2>2. m \in set /\ m <= r
    BY <1>2, <2>1, MinOf
  <2>3. m \in Nat /\ r <= m
    BY <1>2, <2>2
  <2> HIDE DEF m
  <2>4. m = r
    BY <2>2, <2>3
  <2>5. QED
    BY <1>1, <2>4 DEF m
<1>4. ASSUME rows[r].label = "SP", r + 1 \in 1..Len(rows) => rows[r + 1].label # "SP"
      PROVE  NextLineup(rows, r) = r + 1
  <2>1. r \notin set
    BY <1>4 DEF IsStarPassRow
  <2>2. r + 1 \in set
    <3>1. r + 1 \in r..r + Len(rows)
      OBVIOUS
    <3>2. r + 1 \notin DOMAIN rows \/ ~IsStarPassRow(rows[r + 1].label)
      BY <1>4 DEF IsStarPassRow
    <3>3. QED
      BY <3>1, <3>2
  <2> DEFINE m == Min(set)
  <2> HIDE DEF set
  <2>3. m \in set /\ m <= r + 1
    BY <1>2, <2>2, MinOf
  <2>4. m \in Nat /\ r <= m /\ m # r
    BY <1>2, <2>1, <2>3
  <2> HIDE DEF m
  <2>5. m = r + 1
    BY <2>3, <2>4
  <2>6. QED
    BY <1>1, <2>5 DEF m
<1>5. QED
  BY <1>3, <1>4

\* On the sheet of its period every jam takes its own row.
LEMMA LineupRowsAreStarts ==
  ASSUME NEW start, NEW plays, NEW rows, NEW lines, IsSheet(start, plays, rows, lines)
  PROVE  \A k \in 1..Len(plays) : LineupRows(lines, Len(plays))[k] = start[k]
<1> DEFINE n == Len(plays)
           L == Len(lines)
           at == LineupRows(lines, Len(plays))
<1>1. n \in Nat /\ L \in Nat /\ DOMAIN lines = 1..L /\ L = Len(rows)
  BY SheetTypes, LenProperties DEF IsSheet, IsLayout
<1>2. \A k \in 1..n : /\ start[k] \in 1..L /\ lines[start[k]].label # "SP"
                      /\ Passes(plays[k]) = {} => start[k + 1] = start[k] + 1
                      /\ Passes(plays[k]) # {} => /\ start[k + 1] = start[k] + 2 /\ start[k] + 1 \in 1..L
                                                  /\ lines[start[k] + 1].label = "SP"
  <2> SUFFICES ASSUME NEW k \in 1..n
               PROVE  /\ start[k] \in 1..L /\ lines[start[k]].label # "SP"
                      /\ Passes(plays[k]) = {} => start[k + 1] = start[k] + 1
                      /\ Passes(plays[k]) # {} => /\ start[k + 1] = start[k] + 2 /\ start[k] + 1 \in 1..L
                                                  /\ lines[start[k] + 1].label = "SP"
    OBVIOUS
  <2>1. /\ lines[start[k]].label \in {"number", "text"}
        /\ Passes(plays[k]) # {} => lines[start[k] + 1].label = "SP"
    BY DEF IsSheet, IsLayout
  <2>2. /\ start[k] \in 1..Len(rows)
        /\ Passes(plays[k]) = {} => start[k + 1] = start[k] + 1
        /\ Passes(plays[k]) # {} => start[k] + 1 \in 1..Len(rows) /\ start[k + 1] = start[k] + 2
    BY SheetTypes
  <2>3. QED
    BY <1>1, <2>1, <2>2
<1>3. start[1] = 1
  BY SheetTypes
<1>4. at[0] = 0 /\ \A k \in 1..n : at[k] = NextLineup(lines, at[k - 1] + 1)
  BY <1>1, LineupRowsFollow
<1> HIDE DEF n, L, at
<1> DEFINE Good == {m \in Nat : m + 1 \in 1..n => at[m + 1] = start[m + 1]}
<1>5. 0 \in Good
  <2> SUFFICES ASSUME 0 + 1 \in 1..n PROVE at[0 + 1] = start[0 + 1]
    OBVIOUS
  <2>1. 1 \in 1..n /\ 1 - 1 = 0 /\ 0 + 1 = 1
    OBVIOUS
  <2>2. at[1] = NextLineup(lines, 1)
    BY <1>4, <2>1
  <2>3. 1 \in 1..L /\ lines[1].label # "SP"
    BY <1>2, <1>3, <2>1
  <2>4. NextLineup(lines, 1) = 1
    BY <1>1, <2>3, NextLineupIs DEF L
  <2>5. QED
    BY <1>3, <2>1, <2>2, <2>4
<1>6. ASSUME NEW m \in Nat, m \in Good PROVE m + 1 \in Good
  <2> SUFFICES ASSUME m + 1 + 1 \in 1..n PROVE at[m + 1 + 1] = start[m + 1 + 1]
    OBVIOUS
  <2> DEFINE k == m + 1
  <2>1. k \in 1..n /\ k + 1 \in 1..n /\ k + 1 - 1 = k
    BY <1>1
  <2>2. at[k] = start[k]
    BY <1>6, <2>1
  <2> HIDE DEF k
  <2>3. at[k + 1] = NextLineup(lines, start[k] + 1)
    BY <1>4, <2>1, <2>2
  <2>4. start[k + 1] \in 1..L /\ lines[start[k + 1]].label # "SP"
    BY <1>2, <2>1
  <2>5. CASE Passes(plays[k]) = {}
    <3>1. start[k + 1] = start[k] + 1
      BY <1>2, <2>1, <2>5
    <3>2. NextLineup(lines, start[k + 1]) = start[k + 1]
      BY <1>1, <2>4, NextLineupIs DEF L
    <3>3. QED
      BY <2>3, <3>1, <3>2 DEF k
  <2>6. CASE Passes(plays[k]) # {}
    <3> DEFINE r == start[k] + 1
    <3>1. r \in 1..L /\ lines[r].label = "SP" /\ start[k + 1] = start[k] + 2 /\ start[k] \in 1..L
      BY <1>2, <2>1, <2>6
    <3>2. r + 1 = start[k + 1]
      BY <3>1
    <3> HIDE DEF r
    <3>3. NextLineup(lines, r) = r + 1
      BY <1>1, <2>4, <3>1, <3>2, NextLineupIs DEF L
    <3>4. QED
      BY <2>3, <3>2, <3>3 DEF k, r
  <2>7. QED
    BY <2>5, <2>6
<1>7. QED
  <2> HIDE DEF Good
  <2>1. Nat \subseteq Good
    BY <1>5, <1>6, NatSetInduction
  <2> SUFFICES ASSUME NEW k \in 1..n PROVE at[k] = start[k]
    BY DEF n, at
  <2>2. k - 1 \in Nat /\ k - 1 + 1 = k
    OBVIOUS
  <2>3. k - 1 \in Good
    BY <2>1, <2>2
  <2>4. QED
    BY <2>2, <2>3 DEF Good

-----------------------------------------------------------------------------
(* Every jam is read back *)

\* The jams and the result of a parsed game are what the parser makes of the workbook.
ParsedInv ==
  stage = "parsed" =>
    /\ game.periods = MergeLineups(ParseScores)
    /\ game.score = [s \in Sides |-> Score(game.periods, s)]

\* What is parsed stays what the parser makes of the workbook.
LEMMA ParsedInvariant == Spec => []ParsedInv
<1>1. Init => ParsedInv
  BY DEF Init, ParsedInv
<1>2. ParsedInv /\ [Next]_vars => ParsedInv'
  <2> SUFFICES ASSUME ParsedInv, [Next]_vars PROVE ParsedInv'
    OBVIOUS
  <2>1. ASSUME UNCHANGED <<book, cached>>
        PROVE  /\ MergeLineups(ParseScores)' = MergeLineups(ParseScores)
               /\ \A periods, s : Score(periods, s)' = Score(periods, s)
    <3>1. MergeLineups(ParseScores)' = MergeLineups(ParseScores)
      <4>1. \A p : ScoreRows(p)' = ScoreRows(p)
        BY <2>1 DEF book, ScoreRows, MapThenSumSet, MapThenFoldSet
      <4>2. \A p : ParsePeriod(p)' = ParsePeriod(p)
        BY <4>1 DEF ParsePeriod
      <4>3. lineups' = lineups
        BY <2>1 DEF book
      <4>4. QED
        BY <4>2, <4>3 DEF MergeLineups, ParseScores
    <3>2. \A periods, s : Score(periods, s)' = Score(periods, s)
      BY <2>1 DEF Score, HasIgrfScores
    <3>3. QED
      BY <3>1, <3>2
  <2>2. CASE stage' # "parsed"
    BY <2>2 DEF ParsedInv
  <2>3. CASE Parse
    <3>1. /\ UNCHANGED <<book, cached>>
          /\ game'.periods = MergeLineups(ParseScores)
          /\ game'.score = [s \in Sides |-> Score(MergeLineups(ParseScores), s)]
      BY <2>3 DEF Parse
    <3>2. game'.periods = MergeLineups(ParseScores)'
      BY <2>1, <3>1
    <3>3. [s \in Sides |-> Score(game.periods, s)]' = game'.score
      BY <2>1, <3>1, <3>2
    <3>4. QED
      BY <3>2, <3>3 DEF ParsedInv
  <2>4. CASE UNCHANGED vars
    <3>1. UNCHANGED <<book, cached>> /\ stage' = stage /\ game' = game
      BY <2>4 DEF vars
    <3>2. [s \in Sides |-> Score(game.periods, s)]' = [s \in Sides |-> Score(game.periods, s)]
      BY <2>1, <3>1
    <3>3. QED
      BY <2>1, <3>1, <3>2 DEF ParsedInv
  <2>5. \A p, play, numberIs, lineupIs, otherSide : PlayJam(p, play, numberIs, lineupIs, otherSide) => stage' # "parsed"
    BY DEF PlayJam
  <2>6. \A p, s, i : GivePenalty(p, s, i) => stage' # "parsed"
    BY DEF GivePenalty
  <2>7. \A day, form, short, inName : WriteDate(day, form, short, inName) => stage' # "parsed"
    BY DEF WriteDate
  <2>8. \A calculated, staleScores, staleSummary, totals : Save(calculated, staleScores, staleSummary, totals) => stage' # "parsed"
    BY DEF Save
  <2>9. QED
    BY <2>2, <2>3, <2>4, <2>5, <2>6, <2>7, <2>8 DEF Next
<1>3. QED
  BY <1>1, <1>2, PTL DEF Spec

\* The periods that were read, by the place of a period in the sequence.
LEMMA PeriodsAre ==
  ASSUME TotalsUnread, NEW one, one = ReadJams(score[1]), NEW two, two = ReadJams(score[2])
  PROVE  /\ one = <<>> /\ two = <<>> => ParseScores = <<>>
         /\ one # <<>> /\ two = <<>> => ParseScores = <<[number |-> 1, jams |-> one]>>
         /\ one = <<>> /\ two # <<>> => ParseScores = <<[number |-> 2, jams |-> two]>>
         /\ one # <<>> /\ two # <<>> => ParseScores = <<[number |-> 1, jams |-> one], [number |-> 2, jams |-> two]>>
<1>1. /\ ParsePeriod(1) = IF one = <<>> THEN <<>> ELSE <<[number |-> 1, jams |-> one]>>
      /\ ParsePeriod(2) = IF two = <<>> THEN <<>> ELSE <<[number |-> 2, jams |-> two]>>
  BY DEF ParsePeriod, TotalsUnread
<1>2. ParseScores = ParsePeriod(1) \o ParsePeriod(2)
  BY DEF ParseScores
<1>3. /\ <<>> \o <<>> = <<>>
      /\ \A x : <<x>> \o <<>> = <<x>> /\ <<>> \o <<x>> = <<x>>
      /\ \A x, y : <<x>> \o <<y>> = <<x, y>>
  <2>1. \A x : <<x>> \in Seq({x}) /\ <<>> \in Seq({x})
    BY EmptySeq
  <2>2. <<>> \o <<>> = <<>>
    BY <2>1, ConcatEmptySeq
  <2>3. \A x : <<x>> \o <<>> = <<x>> /\ <<>> \o <<x>> = <<x>>
    BY <2>1, ConcatEmptySeq
  <2>4. ASSUME NEW x, NEW y PROVE <<x>> \o <<y>> = <<x, y>>
    <3> DEFINE both == <<x>> \o <<y>>
               S == {x, y}
    <3>1. <<x>> \in Seq(S) /\ <<y>> \in Seq(S) /\ <<x, y>> \in Seq(S)
      OBVIOUS
    <3>2. Len(<<x>>) = 1 /\ Len(<<y>>) = 1 /\ Len(<<x, y>>) = 2 /\ <<x>>[1] = x /\ <<y>>[1] = y
          /\ <<x, y>>[1] = x /\ <<x, y>>[2] = y
      OBVIOUS
    <3>3. both \in Seq(S) /\ Len(both) = 2 /\ both[1] = x /\ both[2] = y
      <4>1. /\ both \in Seq(S) /\ Len(both) = Len(<<x>>) + Len(<<y>>)
            /\ \A i \in 1..Len(<<x>>) + Len(<<y>>) :
                 both[i] = IF i <= Len(<<x>>) THEN <<x>>[i] ELSE <<y>>[i - Len(<<x>>)]
        BY <3>1, ConcatProperties
      <4> HIDE DEF both, S
      <4>2. QED
        BY <3>2, <4>1
    <3> HIDE DEF both, S
    <3>4. \A i \in 1..Len(both) : both[i] = <<x, y>>[i]
      BY <3>2, <3>3
    <3>5. both = <<x, y>>
      BY <3>1, <3>2, <3>3, <3>4, SeqEqual
    <3>6. QED
      BY <3>5 DEF both
  <2>5. QED
    BY <2>2, <2>3, <2>4
<1>4. QED
  BY <1>1, <1>2, <1>3

\* A period keeps its number and each jam gets the line-up of its row.
LEMMA MergedPeriod ==
  ASSUME NEW periods, NEW pi \in DOMAIN periods, NEW p, NEW jams, periods[pi] = [number |-> p, jams |-> jams]
  PROVE  MergeLineups(periods)[pi] =
           [number |-> p,
            jams |-> [k \in DOMAIN jams |-> WithLineups(jams[k], lineups[pi], LineupRows(lineups[pi], Len(jams))[k])]]
<1> DEFINE at == LineupRows(lineups[pi], Len(periods[pi].jams))
<1>1. MergeLineups(periods)[pi] =
        [periods[pi] EXCEPT !.jams = [k \in DOMAIN @ |-> WithLineups(@[k], lineups[pi], at[k])]]
  BY DEF MergeLineups
<1>2. QED
  BY <1>1

\* The line-up of a side is added to what was read of it.
LEMMA WithLineupsIs ==
  ASSUME NEW rows, NEW i, NEW lines, NEW r, NEW s \in Sides
  PROVE  LET jam == WithLineups(ReadJam(rows, i), lines, r)
             side == ReadSide(rows, i, s)
         IN  /\ jam.number = rows[i].jam
             /\ jam.side[s].jammer = side.jammer /\ jam.side[s].to = side.to /\ jam.side[s].points = side.points
             /\ jam.side[s].lineup = LineupAt(lines, r, s)
<1> DEFINE old == [q \in Sides |-> ReadSide(rows, i, q)]
           new == [q \in Sides |-> [old[q] EXCEPT !.lineup = LineupAt(lines, r, q)]]
           jam == WithLineups(ReadJam(rows, i), lines, r)
           side == ReadSide(rows, i, s)
<1>1. ReadJam(rows, i) = [number |-> rows[i].jam, side |-> old]
  BY DEF ReadJam
<1> HIDE DEF old
<1>2. jam = [number |-> rows[i].jam, side |-> new]
  BY <1>1 DEF WithLineups
<1>3. new[s] = [side EXCEPT !.lineup = LineupAt(lines, r, s)]
  BY DEF old
<1>4. side = [jammer |-> side.jammer, to |-> side.to, points |-> side.points, lineup |-> {}]
  BY DEF ReadSide
<1> HIDE DEF side
<1>5. new[s] = [jammer |-> side.jammer, to |-> side.to, points |-> side.points, lineup |-> LineupAt(lines, r, s)]
  BY <1>3, <1>4
<1> HIDE DEF new, jam
<1>6. QED
  BY <1>2, <1>5 DEF jam, side

\* The places of a line-up: the jammer's, and then the others'.
LEMMA LineIs ==
  ASSUME NEW play \in JamPlays, NEW s \in Sides
  PROVE  LET line == <<play[s].jammer>> \o play[s].others
             n == Len(play[s].others)
         IN  /\ n \in Nat /\ DOMAIN play[s].others = 1..n
             /\ DOMAIN line = 1..n + 1 /\ line[1] = play[s].jammer
             /\ \A j \in 1..n : line[j + 1] = play[s].others[j]
<1> DEFINE first == <<play[s].jammer>>
           others == play[s].others
           line == first \o others
           n == Len(others)
<1>1. play[s].jammer \in Cells /\ others \in Seq(Cells)
  BY PlayTypes
<1>2. n \in Nat /\ DOMAIN others = 1..n
  BY <1>1, LenProperties
<1>3. first \in Seq(Cells) /\ Len(first) = 1 /\ first[1] = play[s].jammer
  BY <1>1
<1>4. /\ line \in Seq(Cells) /\ Len(line) = Len(first) + n
      /\ \A i \in 1..Len(first) + n : line[i] = IF i <= Len(first) THEN first[i] ELSE others[i - Len(first)]
  BY <1>1, <1>3, ConcatProperties
<1>5. DOMAIN line = 1..Len(line)
  BY <1>4, LenProperties
<1> HIDE DEF first, line, n
<1>6. DOMAIN line = 1..n + 1 /\ line[1] = play[s].jammer
  BY <1>2, <1>3, <1>4, <1>5
<1>7. ASSUME NEW j \in 1..n PROVE line[j + 1] = others[j]
  <2>1. j + 1 \in 1..Len(first) + n /\ ~(j + 1 <= Len(first)) /\ j + 1 - Len(first) = j
    BY <1>2, <1>3
  <2>2. line[j + 1] = IF j + 1 <= Len(first) THEN first[j + 1] ELSE others[j + 1 - Len(first)]
    BY <1>4, <2>1, SMTT(30)
  <2>3. QED
    BY <2>1, <2>2, Zenon
<1>8. QED
  BY <1>2, <1>6, <1>7 DEF line, first, n

\* The skaters of a line-up are those who were on the track.
LEMMA LineupIsOnTrack ==
  ASSUME NEW p \in 1..2, NEW k, NEW s \in Sides, NEW lines, NEW r \in DOMAIN lines,
         played[p][k] \in JamPlays,
         lines[r].skaters[s] = <<played[p][k][s].jammer>> \o played[p][k][s].others
  PROVE  NumbersOf(LineupAt(lines, r, s)) = OnTrack(s, <<p, k>>)
<1> DEFINE play == played[p][k][s]
           skaters == <<play.jammer>> \o play.others
           n == Len(play.others)
           On == NumbersOf(LineupAt(lines, r, s))
           Others == {cell \in {play.others[j] : j \in DOMAIN play.others} : cell # Blank /\ ~cell[2]}
<1>1. /\ play.jammer \in Skaters /\ play.jammer \in Cells /\ play.jammer # Blank /\ play.others \in Seq(Cells)
  BY PlayTypes
<1>2. ~play.jammer[2]
  BY <1>1 DEF Skaters
<1>3. OnTrack(s, <<p, k>>) = {play.jammer} \cup Others
  BY DEF OnTrack
<1>4. LineupAt(lines, r, s) =
        {<<j, skaters[j]>> : j \in {i \in DOMAIN skaters : skaters[i] # Blank /\ ~skaters[i][2]}}
  BY DEF LineupAt
<1>5. On = {skaters[j] : j \in {i \in DOMAIN skaters : skaters[i] # Blank /\ ~skaters[i][2]}}
  <2> DEFINE D == {i \in DOMAIN skaters : skaters[i] # Blank /\ ~skaters[i][2]}
             entries == {<<j, skaters[j]>> : j \in D}
  <2>1. On = {entry[2] : entry \in entries}
    BY <1>4 DEF NumbersOf
  <2> HIDE DEF On, D, skaters
  <2>2. \A j \in D : <<j, skaters[j]>> \in entries /\ <<j, skaters[j]>>[2] = skaters[j]
    OBVIOUS
  <2>3. \A entry \in entries : \E j \in D : entry[2] = skaters[j]
    OBVIOUS
  <2> HIDE DEF entries
  <2>4. ASSUME NEW cell \in On PROVE \E j \in D : cell = skaters[j]
    <3>1. PICK entry \in entries : cell = entry[2]
      BY <2>1
    <3>2. QED
      BY <2>3, <3>1
  <2>5. ASSUME NEW j \in D PROVE skaters[j] \in On
    <3>1. \A entry \in entries : entry[2] \in On
      BY <2>1
    <3>2. QED
      BY <2>2, <3>1
  <2>6. On = {skaters[j] : j \in D}
    BY <2>4, <2>5
  <2>7. QED
    BY <2>6 DEF D
<1>6. n \in Nat /\ DOMAIN play.others = 1..n
  BY <1>1, LenProperties
<1>7. /\ DOMAIN skaters = 1..n + 1 /\ skaters[1] = play.jammer
      /\ \A j \in 1..n : skaters[j + 1] = play.others[j]
  BY LineIs
<1> HIDE DEF skaters, n, play
<1>8. ASSUME NEW cell \in On PROVE cell \in {play.jammer} \cup Others
  <2> HIDE DEF On
  <2>1. PICK j \in 1..n + 1 : skaters[j] = cell /\ cell # Blank /\ ~cell[2]
    BY <1>5, <1>7, <1>8
  <2>2. CASE j = 1
    BY <1>7, <2>1, <2>2
  <2>3. CASE j # 1
    <3>1. j - 1 \in 1..n /\ j - 1 + 1 = j
      BY <1>6, <2>3
    <3>2. skaters[j] = play.others[j - 1]
      BY <1>7, <3>1
    <3>3. QED
      BY <1>6, <2>1, <3>1, <3>2
  <2>4. QED
    BY <2>2, <2>3
<1>9. ASSUME NEW cell \in {play.jammer} \cup Others PROVE cell \in On
  <2>1. CASE cell = play.jammer
    <3>1. 1 \in DOMAIN skaters
      BY <1>6, <1>7
    <3>2. skaters[1] = cell /\ cell # Blank /\ ~cell[2]
      BY <1>1, <1>2, <1>7, <2>1
    <3> HIDE DEF On
    <3>3. QED
      BY <1>5, <3>1, <3>2
  <2>2. CASE cell \in Others
    <3>1. PICK j \in 1..n : play.others[j] = cell
      BY <1>6, <2>2
    <3>2. j + 1 \in DOMAIN skaters
      BY <1>6, <1>7
    <3>3. skaters[j + 1] = cell /\ cell # Blank /\ ~cell[2]
      BY <1>7, <2>2, <3>1
    <3> HIDE DEF On
    <3>4. QED
      BY <1>5, <3>2, <3>3
  <2>3. QED
    BY <1>9, <2>1, <2>2
<1>10. On = {play.jammer} \cup Others
  <2> HIDE DEF On, Others
  <2> QED BY <1>8, <1>9
<1>11. QED
  BY <1>3, <1>10 DEF play

\* Each period has a layout of its sheets.
LEMMA SheetOf ==
  ASSUME BookInv, NEW p \in 1..2
  PROVE  \E start : IsSheet(start, played[p], score[p], lineups[p])
<1>1. PICK start : IsLayout(start, played[p], score[p], lineups[p])
  BY DEF BookInv
<1>2. played[p] \in Seq(JamPlays) /\ score[p] \in Seq(ScoreRow) /\ lineups[p] \in Seq(LineupRow)
      /\ Len(score[p]) <= SheetRows
  BY DEF BookInv
<1>3. QED
  BY <1>1, <1>2 DEF IsSheet

\* With numbers on Score the sheet of each period has them.
LEMMA NumbersAreOnSheets ==
  ASSUME BookInv, NumbersOnScore, NEW p \in 1..2
  PROVE  Numbered(score[p])
<1>1. score[p] \in Seq(ScoreRow) /\ Len(score[p]) <= SheetRows /\ SheetRows \in Nat
  BY ParserAssumption DEF BookInv
<1>2. DOMAIN score[p] = 1..Len(score[p]) /\ Len(score[p]) \in Nat
  BY <1>1, LenProperties
<1>3. ASSUME NEW i \in 1..Len(score[p]) PROVE score[p][i].label["home"] # "text"
  <2>1. i \in 1..SheetRows /\ i \in DOMAIN score[p]
    BY <1>1, <1>2
  <2>2. QED
    BY <2>1 DEF NumbersOnScore
<1>4. QED
  BY <1>3 DEF Numbered

\* The periods that are read are those that were played, in their order.
LEMMA PeriodsAreRead ==
  ASSUME BookInv, TotalsUnread, NumbersOnScore
  PROVE  /\ {ParseScores[pi].number : pi \in DOMAIN ParseScores} = {p \in 1..2 : played[p] # <<>>}
         /\ \A pi, qi \in DOMAIN ParseScores : pi < qi => ParseScores[pi].number < ParseScores[qi].number
         /\ \A pi \in DOMAIN ParseScores :
              \E p \in 1..2 : /\ ParseScores[pi] = [number |-> p, jams |-> ReadJams(score[p])]
                              /\ played[p] # <<>>
                              /\ pi = p \/ (pi = 1 /\ p = 2 /\ played[1] = <<>>)
<1>1. \A p \in 1..2 : ReadJams(score[p]) = <<>> <=> played[p] = <<>>
  <2> SUFFICES ASSUME NEW p \in 1..2 PROVE ReadJams(score[p]) = <<>> <=> played[p] = <<>>
    OBVIOUS
  <2>1. PICK start : IsSheet(start, played[p], score[p], lineups[p])
    BY SheetOf
  <2>2. Numbered(score[p])
    BY NumbersAreOnSheets
  <2>3. QED
    BY <2>1, <2>2, NumberedJamsAreRead
<1> DEFINE one == [number |-> 1, jams |-> ReadJams(score[1])]
           two == [number |-> 2, jams |-> ReadJams(score[2])]
<1>2. one.number = 1 /\ two.number = 2
  OBVIOUS
<1>3. /\ played[1] = <<>> /\ played[2] = <<>> => ParseScores = <<>>
      /\ played[1] # <<>> /\ played[2] = <<>> => ParseScores = <<one>>
      /\ played[1] = <<>> /\ played[2] # <<>> => ParseScores = <<two>>
      /\ played[1] # <<>> /\ played[2] # <<>> => ParseScores = <<one, two>>
  BY <1>1, PeriodsAre
<1>4. DOMAIN <<>> = {} /\ DOMAIN <<one>> = {1} /\ DOMAIN <<two>> = {1} /\ DOMAIN <<one, two>> = {1, 2}
      /\ <<one>>[1] = one /\ <<two>>[1] = two /\ <<one, two>>[1] = one /\ <<one, two>>[2] = two
  OBVIOUS
<1>5. ASSUME NEW pi \in DOMAIN ParseScores
      PROVE  \E p \in 1..2 : /\ ParseScores[pi] = [number |-> p, jams |-> ReadJams(score[p])]
                             /\ played[p] # <<>>
                             /\ pi = p \/ (pi = 1 /\ p = 2 /\ played[1] = <<>>)
  <2> HIDE DEF one, two
  <2>1. \/ ParseScores[pi] = one /\ played[1] # <<>> /\ pi = 1
        \/ ParseScores[pi] = two /\ played[2] # <<>> /\ (pi = 2 \/ (pi = 1 /\ played[1] = <<>>))
    BY <1>3, <1>4
  <2>2. QED
    BY <2>1 DEF one, two
<1> HIDE DEF one, two
<1>6. {ParseScores[pi].number : pi \in DOMAIN ParseScores} = {p \in 1..2 : played[p] # <<>>}
  <2>1. CASE played[1] = <<>> /\ played[2] = <<>>
    BY <1>3, <1>4, <2>1
  <2>2. CASE played[1] # <<>> /\ played[2] = <<>>
    BY <1>2, <1>3, <1>4, <2>2
  <2>3. CASE played[1] = <<>> /\ played[2] # <<>>
    BY <1>2, <1>3, <1>4, <2>3
  <2>4. CASE played[1] # <<>> /\ played[2] # <<>>
    BY <1>2, <1>3, <1>4, <2>4
  <2>5. QED
    BY <2>1, <2>2, <2>3, <2>4
<1>7. \A pi, qi \in DOMAIN ParseScores : pi < qi => ParseScores[pi].number < ParseScores[qi].number
  BY <1>2, <1>3, <1>4
<1>8. QED
  BY <1>5, <1>6, <1>7

\* The skaters of a line-up at their positions, those of starred numbers left out.
Placed(play) ==
  LET line == <<play.jammer>> \o play.others
  IN  {<<j, line[j]>> : j \in {i \in DOMAIN line : line[i] # Blank /\ ~line[i][2]}}

\* A period that was read has every jam as it was played, with the skaters of its
\* own line-up if the period is in its place.
ReadBack(period, p, pi) ==
  /\ period.number = p /\ Len(period.jams) = Len(played[p])
  /\ \A k \in DOMAIN played[p], s \in Sides :
       /\ AsPlayed(period.jams[k].side[s], played[p][k][s])
       /\ NumbersOf(period.jams[k].side[s].lineup) = IF pi = p THEN OnTrack(s, <<p, k>>) ELSE {}
       /\ pi = p => period.jams[k].side[s].lineup = Placed(played[p][k][s])

\* A period that is read has every jam of it as it was played.
LEMMA PeriodIsReadBack ==
  ASSUME BookInv, NumbersOnScore, NEW pi \in DOMAIN ParseScores, NEW p \in 1..2,
         ParseScores[pi] = [number |-> p, jams |-> ReadJams(score[p])],
         pi = p \/ (pi = 1 /\ p = 2 /\ played[1] = <<>>)
  PROVE  ReadBack(MergeLineups(ParseScores)[pi], p, pi)
<1> DEFINE n == Len(played[p])
           at == LineupRows(lineups[pi], n)
<1>1. PICK start : IsSheet(start, played[p], score[p], lineups[p])
  BY SheetOf
<1>2. Numbered(score[p])
  BY NumbersAreOnSheets
<1>3. /\ Len(ReadJams(score[p])) = n /\ DOMAIN ReadJams(score[p]) = 1..n
      /\ \A k \in 1..n : ReadJams(score[p])[k] = ReadJam(score[p], start[k])
  BY <1>1, <1>2, NumberedJamsAreRead
<1>4. n \in Nat /\ DOMAIN played[p] = 1..n /\ \A k \in 1..n : played[p][k] \in JamPlays
  BY <1>1, SheetTypes
<1> DEFINE jams == [k \in 1..n |-> WithLineups(ReadJams(score[p])[k], lineups[pi], at[k])]
           period == MergeLineups(ParseScores)[pi]
<1>5. period = [number |-> p, jams |-> jams]
  <2> HIDE DEF n
  <2> QED BY <1>3, MergedPeriod
<1>6. Len(jams) = n
  BY <1>4
<1>7. ASSUME NEW k \in 1..n, NEW s \in Sides
      PROVE  /\ AsPlayed(period.jams[k].side[s], played[p][k][s])
             /\ NumbersOf(period.jams[k].side[s].lineup) = IF pi = p THEN OnTrack(s, <<p, k>>) ELSE {}
             /\ pi = p => period.jams[k].side[s].lineup = Placed(played[p][k][s])
  <2> DEFINE jam == WithLineups(ReadJam(score[p], start[k]), lineups[pi], at[k])
             side == ReadSide(score[p], start[k], s)
             play == played[p][k][s]
  <2>1. period.jams[k] = jam
    BY <1>3, <1>5
  <2>2. /\ jam.side[s].jammer = side.jammer /\ jam.side[s].to = side.to /\ jam.side[s].points = side.points
        /\ jam.side[s].lineup = LineupAt(lineups[pi], at[k], s)
    BY WithLineupsIs
  <2>3. AsPlayed(side, play)
    BY <1>1, <1>2, JamRowIsRead
  <2>4. /\ NumbersOf(LineupAt(lineups[pi], at[k], s)) = IF pi = p THEN OnTrack(s, <<p, k>>) ELSE {}
        /\ pi = p => LineupAt(lineups[pi], at[k], s) = Placed(play)
    <3>1. CASE pi = p
      <4>1. at[k] = start[k]
        BY <1>1, <3>1, LineupRowsAreStarts
      <4>2. lineups[p][start[k]].skaters[s] = <<play.jammer>> \o play.others
        BY <1>1 DEF IsSheet, IsLayout
      <4>3. start[k] \in DOMAIN lineups[p]
        <5>1. start[k] \in 1..Len(score[p])
          BY <1>1, SheetTypes
        <5>2. Len(lineups[p]) = Len(score[p]) /\ lineups[p] \in Seq(LineupRow)
          BY <1>1 DEF IsSheet, IsLayout
        <5>3. QED
          BY <5>1, <5>2, LenProperties
      <4>4. NumbersOf(LineupAt(lineups[p], start[k], s)) = OnTrack(s, <<p, k>>)
        <5> DEFINE lines == lineups[p]
                   r == start[k]
        <5>1. r \in DOMAIN lines /\ played[p][k] \in JamPlays
              /\ lines[r].skaters[s] = <<played[p][k][s].jammer>> \o played[p][k][s].others
          BY <1>4, <4>2, <4>3
        <5> HIDE DEF lines, r, play, jam, side, at, n, jams, period
        <5>2. NumbersOf(LineupAt(lines, r, s)) = OnTrack(s, <<p, k>>)
          BY <5>1, LineupIsOnTrack
        <5>3. QED
          BY <5>2 DEF lines, r
      <4>5. LineupAt(lineups[p], start[k], s) = Placed(play)
        <5> DEFINE line == lineups[p][start[k]].skaters[s]
        <5>1. LineupAt(lineups[p], start[k], s) = {<<j, line[j]>> : j \in {i \in DOMAIN line : line[i] # Blank /\ ~line[i][2]}}
          BY <4>3 DEF LineupAt
        <5>2. line = <<play.jammer>> \o play.others
          BY <4>2
        <5> HIDE DEF line, play
        <5>3. QED
          BY <5>1, <5>2 DEF Placed
      <4>6. QED
        BY <3>1, <4>1, <4>4, <4>5
    <3>2. CASE pi # p
      <4>1. pi = 1 /\ played[1] = <<>>
        BY <3>2
      <4>2. PICK first : IsSheet(first, played[1], score[1], lineups[1])
        BY SheetOf
      <4>3. Len(score[1]) = 0
        <5>1. Len(played[1]) = 0 /\ Len(score[1]) \in Nat /\ first[1] = 1 /\ first[Len(played[1]) + 1] = Len(score[1]) + 1
          BY <4>1, <4>2, SheetTypes
        <5>2. first[0 + 1] = first[1]
          OBVIOUS
        <5>3. QED
          BY <5>1, <5>2
      <4>4. DOMAIN lineups[1] = {}
        <5>1. Len(lineups[1]) = 0 /\ lineups[1] \in Seq(LineupRow)
          BY <4>2, <4>3 DEF IsSheet, IsLayout
        <5>2. QED
          BY <5>1, LenProperties
      <4>5. LineupAt(lineups[pi], at[k], s) = {}
        BY <4>1, <4>4 DEF LineupAt
      <4>6. QED
        BY <3>2, <4>5 DEF NumbersOf
    <3>3. QED
      BY <3>1, <3>2
  <2> HIDE DEF jam, side, play, period, at, n
  <2>5. AsPlayed(jam.side[s], play)
    BY <2>2, <2>3 DEF AsPlayed
  <2>6. QED
    BY <2>1, <2>2, <2>4, <2>5 DEF play
<1> HIDE DEF jams
<1>8. period.number = p /\ Len(period.jams) = n
  BY <1>5, <1>6
<1> HIDE DEF period
<1>9. ReadBack(period, p, pi)
  BY <1>4, <1>7, <1>8 DEF ReadBack
<1>10. QED
  BY <1>9 DEF period

\* For every roster, sequence of plays and way to type the jam numbers of
\* Lineups: with numbers on Score and no row of totals read, every jam is read back
\* in its period and order, with both jammers and the points of both rows, and in
\* periods that are in place with the skaters of its own line-up.
THEOREM PlayedJamsAreReadBack == Spec => []JamsAreReadBack
<1>1. BookInv /\ ParsedInv => JamsAreReadBack
  <2> SUFFICES ASSUME BookInv, ParsedInv, stage = "parsed", NumbersOnScore, TotalsUnread
               PROVE  JamsAreReadBack
    BY DEF JamsAreReadBack
  <2>1. game.periods = MergeLineups(ParseScores) /\ DOMAIN game.periods = DOMAIN ParseScores
    BY DEF ParsedInv, MergeLineups
  <2>2. ASSUME NEW pi \in DOMAIN ParseScores
        PROVE  ReadBack(game.periods[pi], ParseScores[pi].number, pi)
    <3>1. PICK p \in 1..2 : /\ ParseScores[pi] = [number |-> p, jams |-> ReadJams(score[p])]
                            /\ pi = p \/ (pi = 1 /\ p = 2 /\ played[1] = <<>>)
      BY PeriodsAreRead
    <3>2. ParseScores[pi].number = p
      BY <3>1
    <3>3. ReadBack(MergeLineups(ParseScores)[pi], p, pi)
      BY <3>1, PeriodIsReadBack
    <3>4. QED
      BY <2>1, <3>2, <3>3
  <2>3. \A pi \in DOMAIN ParseScores : game.periods[pi].number = ParseScores[pi].number
    BY <2>2 DEF ReadBack
  <2>4. {game.periods[pi].number : pi \in DOMAIN game.periods} = {p \in 1..2 : played[p] # <<>>}
    <3>1. {game.periods[pi].number : pi \in DOMAIN game.periods} = {ParseScores[pi].number : pi \in DOMAIN ParseScores}
      BY <2>1, <2>3
    <3>2. QED
      BY <3>1, PeriodsAreRead
  <2>5. \A pi, qi \in DOMAIN game.periods : pi < qi => game.periods[pi].number < game.periods[qi].number
    BY <2>1, <2>3, PeriodsAreRead
  <2>6. \A pi \in DOMAIN game.periods : ReadBack(game.periods[pi], game.periods[pi].number, pi)
    BY <2>1, <2>2, <2>3
  <2>7. ASSUME NEW pi \in DOMAIN game.periods
        PROVE  LET p == game.periods[pi].number
               IN  /\ Len(game.periods[pi].jams) = Len(played[p])
                   /\ \A k \in DOMAIN played[p], s \in Sides :
                        LET read == SideIn(game.periods, <<pi, k>>, s)
                            play == played[p][k][s]
                        IN  /\ read.jammer = play.jammer
                            /\ read.to \in IF play.to # Blank THEN {play.to} ELSE {Blank, play.jammer}
                            /\ read.points = play.points + play.after
                            /\ pi = p => NumbersOf(read.lineup) = OnTrack(s, <<p, k>>)
    <3>1. \A k, s : SideIn(game.periods, <<pi, k>>, s) = game.periods[pi].jams[k].side[s]
      BY DEF SideIn
    <3>2. ReadBack(game.periods[pi], game.periods[pi].number, pi)
      BY <2>6
    <3> DEFINE p == game.periods[pi].number
    <3>3. Len(game.periods[pi].jams) = Len(played[p])
      BY <3>2 DEF ReadBack
    <3>4. ASSUME NEW k \in DOMAIN played[p], NEW s \in Sides
          PROVE  LET read == SideIn(game.periods, <<pi, k>>, s)
                     play == played[p][k][s]
                 IN  /\ read.jammer = play.jammer
                     /\ read.to \in IF play.to # Blank THEN {play.to} ELSE {Blank, play.jammer}
                     /\ read.points = play.points + play.after
                     /\ pi = p => NumbersOf(read.lineup) = OnTrack(s, <<p, k>>)
      <4> DEFINE read == game.periods[pi].jams[k].side[s]
      <4>1. /\ AsPlayed(read, played[p][k][s])
            /\ pi = p => NumbersOf(read.lineup) = OnTrack(s, <<p, k>>)
        BY <3>2 DEF ReadBack
      <4> HIDE DEF read, p
      <4>2. SideIn(game.periods, <<pi, k>>, s) = read
        BY <3>1 DEF read
      <4>3. QED
        BY <4>1, <4>2 DEF AsPlayed
    <3>5. QED
      BY <3>3, <3>4
  <2>8. QED
    BY <2>4, <2>5, <2>7 DEF JamsAreReadBack
<1>2. QED
  BY <1>1, BookInvariant, ParsedInvariant, PTL

-----------------------------------------------------------------------------
(* Sums *)

\* The sum over the set S of the values of the function F.
SumOf(F, S) == MapThenSumSet(LAMBDA x : F[x], S)

\* The member a sum takes out of a set first.
Pick(s) == CHOOSE x \in s : TRUE

\* h is a table of the sums of F over the subsets of S.
IsTable(h, F, S) == h = [T \in SUBSET S |-> IF T = {} THEN 0 ELSE F[Pick(T)] + h[T \ {Pick(T)}]]

\* The sums over the subsets of a finite set are naturals and follow the table.
LEMMA SumTable ==
  ASSUME NEW F, NEW S, IsFiniteSet(S), \A x \in S : F[x] \in Nat
  PROVE  /\ \E h : IsTable(h, F, S)
         /\ \A T \in SUBSET S : /\ SumOf(F, T) \in Nat
                                /\ T = {} => SumOf(F, T) = 0
                                /\ T # {} => SumOf(F, T) = F[Pick(T)] + SumOf(F, T \ {Pick(T)})
<1> DEFINE pick == [U \in SUBSET S |-> Pick(U)]
           step == [q \in S \X Nat |-> F[q[1]] + q[2]]
<1>1. \A U \in SUBSET S : U # {} => pick[U] \in U /\ pick[U] = Pick(U)
  BY DEF Pick
<1>2. \A x \in S, v \in Nat : step[<<x, v>>] = F[x] + v
  OBVIOUS
<1> HIDE DEF pick, step
<1>3. PICK h : IsFold(h, 0, step, pick, S)
  BY <1>1, FoldExists
<1>4. \A T \in SUBSET S : h[T] = IF T = {} THEN 0 ELSE step[<<pick[T], h[T \ {pick[T]}]>>]
  BY <1>3, FoldAt DEF IsFold
<1> DEFINE Good == {T \in SUBSET S : h[T] \in Nat}
<1>5. ASSUME NEW T \in SUBSET S, \A U \in SUBSET T : U # T => U \in Good PROVE T \in Good
  <2>1. CASE T = {}
    <3>1. h[T] = 0
      BY <1>4, <2>1
    <3>2. QED
      BY <3>1
  <2>2. CASE T # {}
    <3>1. pick[T] \in T /\ T \ {pick[T]} \in Good
      BY <1>1, <1>5, <2>2
    <3>2. h[T] = F[pick[T]] + h[T \ {pick[T]}]
      BY <1>2, <1>4, <2>2, <3>1
    <3>3. QED
      BY <3>1, <3>2
  <2>3. QED
    BY <2>1, <2>2
<1>6. \A T \in SUBSET S : h[T] \in Nat
  <2>1. \A T \in SUBSET S : T \in Good
    <3> HIDE DEF Good
    <3> QED BY <1>5, SubsetInduction
  <2>2. QED
    BY <2>1
<1>7. ASSUME NEW T \in SUBSET S PROVE h[T] = IF T = {} THEN 0 ELSE F[Pick(T)] + h[T \ {Pick(T)}]
  <2>1. CASE T # {}
    <3>1. Pick(T) \in S /\ h[T \ {Pick(T)}] \in Nat /\ pick[T] = Pick(T)
      BY <1>1, <1>6, <2>1
    <3>2. QED
      BY <1>2, <1>4, <2>1, <3>1
  <2>2. QED
    BY <1>4, <2>1
<1>8. ASSUME NEW T \in SUBSET S PROVE SumOf(F, T) = h[T]
  <2> DEFINE table == CHOOSE g : IsTable(g, F, T)
             body(U) == IF U = {} THEN 0 ELSE F[Pick(U)] + h[U \ {Pick(U)}]
             part == [U \in SUBSET T |-> body(U)]
  <2>1. SumOf(F, T) = table[T]
    BY DEF SumOf, MapThenSumSet, MapThenFoldSet, IsTable, Pick
  <2>2. IsTable(part, F, T)
    <3>1. \A U \in SUBSET T : h[U] = body(U)
      BY <1>7
    <3>2. \A U \in SUBSET T : part[U] = h[U]
      <4> HIDE DEF body
      <4> QED BY <3>1
    <3>3. \A U \in SUBSET T : U # {} => part[U \ {Pick(U)}] = h[U \ {Pick(U)}]
      <4> HIDE DEF part
      <4> QED BY <3>2
    <3> HIDE DEF part
    <3>4. [U \in SUBSET T |-> body(U)] = [U \in SUBSET T |-> IF U = {} THEN 0 ELSE F[Pick(U)] + part[U \ {Pick(U)}]]
      BY <3>3
    <3>5. QED
      BY <3>4 DEF IsTable, part
  <2>3. IsTable(table, F, T)
    <3> HIDE DEF part
    <3> QED BY <2>2, Zenon
  <2> HIDE DEF table, part, body
  <2>4. \A U \in SUBSET T : table[U] = IF U = {} THEN 0 ELSE F[Pick(U)] + table[U \ {Pick(U)}]
    <3> DEFINE row(U) == IF U = {} THEN 0 ELSE F[Pick(U)] + table[U \ {Pick(U)}]
    <3>1. table = [U \in SUBSET T |-> row(U)]
      BY <2>3 DEF IsTable
    <3> HIDE DEF row
    <3>2. \A U \in SUBSET T : table[U] = row(U)
      BY <3>1
    <3>3. QED
      BY <3>2 DEF row
  <2> DEFINE Agree == {U \in SUBSET T : table[U] = h[U]}
  <2>5. ASSUME NEW U \in SUBSET T, \A V \in SUBSET U : V # U => V \in Agree PROVE U \in Agree
    <3>1. U # {} => U \ {Pick(U)} \in Agree
      BY <2>5 DEF Pick
    <3>2. U \in SUBSET S
      OBVIOUS
    <3>3. QED
      BY <1>7, <2>4, <3>1, <3>2
  <2>6. IsFiniteSet(T)
    BY FS_Subset
  <2>7. T \in Agree
    <3> HIDE DEF Agree
    <3> QED BY <2>5, <2>6, SubsetInduction
  <2>8. QED
    BY <2>1, <2>7
<1>9. ASSUME NEW T \in SUBSET S
      PROVE  /\ SumOf(F, T) \in Nat
             /\ T = {} => SumOf(F, T) = 0
             /\ T # {} => SumOf(F, T) = F[Pick(T)] + SumOf(F, T \ {Pick(T)})
  <2>1. SumOf(F, T) = h[T] /\ SumOf(F, T \ {Pick(T)}) = h[T \ {Pick(T)}]
    BY <1>8
  <2>2. QED
    BY <1>6, <1>7, <2>1
<1>10. \E g : IsTable(g, F, S)
  <2> DEFINE body(U) == IF U = {} THEN 0 ELSE F[Pick(U)] + h[U \ {Pick(U)}]
             all == [U \in SUBSET S |-> h[U]]
  <2>1. \A U \in SUBSET S : all[U] = IF U = {} THEN 0 ELSE F[Pick(U)] + all[U \ {Pick(U)}]
    BY <1>7
  <2>2. all = [U \in SUBSET S |-> all[U]]
    OBVIOUS
  <2> HIDE DEF all
  <2>3. IsTable(all, F, S)
    BY <2>1, <2>2 DEF IsTable
  <2>4. QED
    BY <2>3
<1>11. QED
  BY <1>9, <1>10

\* Any member can be taken out of a sum.
LEMMA SumTakesOut ==
  ASSUME NEW F, NEW S, IsFiniteSet(S), \A x \in S : F[x] \in Nat
  PROVE  \A T \in SUBSET S : /\ SumOf(F, T) \in Nat
                             /\ T = {} => SumOf(F, T) = 0
                             /\ \A x \in T : SumOf(F, T) = F[x] + SumOf(F, T \ {x})
<1> DEFINE Good == {T \in SUBSET S : \A x \in T : SumOf(F, T) = F[x] + SumOf(F, T \ {x})}
<1>1. \A T \in SUBSET S : /\ SumOf(F, T) \in Nat
                          /\ T = {} => SumOf(F, T) = 0
                          /\ T # {} => SumOf(F, T) = F[Pick(T)] + SumOf(F, T \ {Pick(T)})
  BY SumTable
<1>2. ASSUME NEW T \in SUBSET S, \A U \in SUBSET T : U # T => U \in Good PROVE T \in Good
  <2> SUFFICES ASSUME NEW x \in T PROVE SumOf(F, T) = F[x] + SumOf(F, T \ {x})
    OBVIOUS
  <2> DEFINE p == Pick(T)
             rest == (T \ {p}) \ {x}
  <2>1. p \in T /\ SumOf(F, T) = F[p] + SumOf(F, T \ {p})
    BY <1>1 DEF Pick
  <2> HIDE DEF p
  <2>2. CASE p = x
    BY <2>1, <2>2
  <2>3. CASE p # x
    <3>1. T \ {p} \in Good /\ x \in T \ {p} /\ T \ {x} \in Good /\ p \in T \ {x}
      BY <1>2, <2>1, <2>3
    <3>2. (T \ {x}) \ {p} = rest
      OBVIOUS
    <3>3. SumOf(F, T \ {p}) = F[x] + SumOf(F, rest) /\ SumOf(F, T \ {x}) = F[p] + SumOf(F, rest)
      BY <3>1, <3>2
    <3>4. F[x] \in Nat /\ F[p] \in Nat /\ SumOf(F, rest) \in Nat
      BY <1>1, <2>1
    <3> DEFINE a == SumOf(F, T)
               b == SumOf(F, T \ {p})
               c == SumOf(F, T \ {x})
               d == SumOf(F, rest)
    <3>5. a = F[p] + b /\ b = F[x] + d /\ c = F[p] + d
      BY <2>1, <3>3
    <3> HIDE DEF a, b, c, d
    <3>6. a = F[x] + c
      BY <3>4, <3>5 DEF d
    <3>7. QED
      BY <3>6 DEF a, c
  <2>4. QED
    BY <2>2, <2>3
<1>3. \A T \in SUBSET S : T \in Good
  <2> HIDE DEF Good
  <2> QED BY <1>2, SubsetInduction
<1>4. QED
  BY <1>1, <1>3

\* The sum over two sets without a common member is that of their sums.
LEMMA SumSplits ==
  ASSUME NEW F, NEW S, IsFiniteSet(S), \A x \in S : F[x] \in Nat,
         NEW X \in SUBSET S, NEW Y \in SUBSET S, X \cap Y = {}
  PROVE  SumOf(F, X \cup Y) = SumOf(F, X) + SumOf(F, Y)
<1> DEFINE Good == {T \in SUBSET X : SumOf(F, T \cup Y) = SumOf(F, T) + SumOf(F, Y)}
<1>1. \A T \in SUBSET S : /\ SumOf(F, T) \in Nat
                          /\ T = {} => SumOf(F, T) = 0
                          /\ \A x \in T : SumOf(F, T) = F[x] + SumOf(F, T \ {x})
  BY SumTakesOut
<1>2. ASSUME NEW T \in SUBSET X, \A U \in SUBSET T : U # T => U \in Good PROVE T \in Good
  <2>1. CASE T = {}
    <3>1. T \cup Y = Y /\ T \in SUBSET S
      BY <2>1
    <3>2. SumOf(F, T) = 0 /\ SumOf(F, Y) \in Nat
      BY <1>1, <2>1, <3>1
    <3>3. SumOf(F, T \cup Y) = SumOf(F, Y)
      BY <3>1, Zenon
    <3>4. SumOf(F, T \cup Y) = SumOf(F, T) + SumOf(F, Y)
      BY <3>2, <3>3
    <3>5. QED
      BY <3>4
  <2>2. CASE T # {}
    <3>1. PICK x \in T : TRUE
      BY <2>2
    <3>2. T \ {x} \in Good
      BY <1>2, <3>1
    <3>3. (T \cup Y) \ {x} = (T \ {x}) \cup Y /\ x \in T \cup Y /\ T \cup Y \in SUBSET S /\ T \in SUBSET S
      BY <3>1
    <3>4. SumOf(F, T \cup Y) = F[x] + SumOf(F, (T \ {x}) \cup Y) /\ SumOf(F, T) = F[x] + SumOf(F, T \ {x})
      BY <1>1, <3>1, <3>3
    <3>5. F[x] \in Nat /\ SumOf(F, T \ {x}) \in Nat /\ SumOf(F, Y) \in Nat
      BY <1>1, <3>1
    <3> DEFINE a == SumOf(F, T \cup Y)
               b == SumOf(F, T)
               c == SumOf(F, T \ {x})
               d == SumOf(F, Y)
    <3>6. a = F[x] + (c + d) /\ b = F[x] + c
      BY <3>2, <3>4
    <3>7. c \in Nat /\ d \in Nat
      BY <3>5
    <3> HIDE DEF a, b, c, d
    <3>8. a = b + d
      BY <3>5, <3>6, <3>7
    <3>9. QED
      BY <3>8 DEF a, b, d
  <2>3. QED
    BY <2>1, <2>2
<1>3. IsFiniteSet(X)
  BY FS_Subset
<1>4. X \in Good
  <2> HIDE DEF Good
  <2> QED BY <1>2, <1>3, SubsetInduction
<1>5. QED
  BY <1>4

\* What is summed over A is at most what is summed over B if the members of A
\* have parts of B of their own that sum up to no less.
LEMMA SumOfParts ==
  ASSUME NEW f, NEW A, IsFiniteSet(A), \A a \in A : f[a] \in Nat,
         NEW g, NEW B, IsFiniteSet(B), \A b \in B : g[b] \in Nat,
         NEW part \in [A -> SUBSET B], \A a, b \in A : a # b => part[a] \cap part[b] = {},
         \A a \in A : f[a] <= SumOf(g, part[a])
  PROVE  SumOf(f, A) <= SumOf(g, B)
<1> DEFINE All(T) == UNION {part[a] : a \in T}
           Good == {T \in SUBSET A : SumOf(f, T) <= SumOf(g, All(T))}
<1>1. \A T \in SUBSET A : /\ SumOf(f, T) \in Nat
                          /\ T = {} => SumOf(f, T) = 0
                          /\ \A x \in T : SumOf(f, T) = f[x] + SumOf(f, T \ {x})
  BY SumTakesOut
<1>2. \A T \in SUBSET B : SumOf(g, T) \in Nat
  BY SumTable
<1>3. \A T \in SUBSET A : All(T) \in SUBSET B
  OBVIOUS
<1>4. \A T \in SUBSET A : \A x \in T : /\ All(T) = part[x] \cup All(T \ {x})
                                       /\ part[x] \cap All(T \ {x}) = {}
  OBVIOUS
<1> HIDE DEF All
<1>5. ASSUME NEW T \in SUBSET A, \A U \in SUBSET T : U # T => U \in Good PROVE T \in Good
  <2>1. CASE T = {}
    <3>1. SumOf(f, T) = 0 /\ SumOf(g, All(T)) \in Nat
      BY <1>1, <1>2, <1>3, <2>1
    <3>2. SumOf(f, T) <= SumOf(g, All(T))
      BY <3>1
    <3>3. QED
      BY <3>2
  <2>2. CASE T # {}
    <3>1. PICK x \in T : TRUE
      BY <2>2
    <3>2. T \ {x} \in Good
      BY <1>5, <3>1
    <3> DEFINE rest == All(T \ {x})
    <3>3. /\ part[x] \in SUBSET B /\ rest \in SUBSET B /\ part[x] \cap rest = {}
          /\ All(T) = part[x] \cup rest
      BY <1>3, <1>4, <3>1
    <3> HIDE DEF rest
    <3>4. SumOf(g, part[x] \cup rest) = SumOf(g, part[x]) + SumOf(g, rest)
      BY <3>3, SumSplits
    <3> DEFINE a == SumOf(f, T)
               b == SumOf(f, T \ {x})
               c == SumOf(g, part[x])
               d == SumOf(g, rest)
    <3>5. a = f[x] + b /\ f[x] \in Nat /\ b \in Nat /\ c \in Nat /\ d \in Nat
      BY <1>1, <1>2, <3>1, <3>3
    <3>6. f[x] <= c /\ b <= d
      BY <3>1, <3>2 DEF rest
    <3>7. SumOf(g, All(T)) = c + d
      BY <3>3, <3>4
    <3> HIDE DEF a, b, c, d
    <3>8. a <= c + d
      BY <3>5, <3>6
    <3>9. SumOf(f, T) <= SumOf(g, All(T))
      BY <3>7, <3>8 DEF a
    <3>10. QED
      BY <3>9
  <2>3. QED
    BY <2>1, <2>2
<1>6. A \in Good
  <2> HIDE DEF Good
  <2> QED BY <1>5, SubsetInduction
<1>7. SumOf(f, A) <= SumOf(g, All(A)) /\ All(A) \in SUBSET B
  BY <1>3, <1>6
<1>8. SumOf(g, B) = SumOf(g, All(A)) + SumOf(g, B \ All(A))
  <2>1. All(A) \cup (B \ All(A)) = B /\ All(A) \cap (B \ All(A)) = {} /\ B \ All(A) \in SUBSET B
    BY <1>7
  <2> DEFINE other == B \ All(A)
  <2> HIDE DEF other
  <2>2. SumOf(g, All(A) \cup other) = SumOf(g, All(A)) + SumOf(g, other)
    BY <1>7, <2>1, SumSplits DEF other
  <2>3. QED
    BY <2>1, <2>2 DEF other
<1>9. SumOf(f, A) \in Nat /\ SumOf(g, All(A)) \in Nat /\ SumOf(g, B \ All(A)) \in Nat
  BY <1>1, <1>2, <1>7
<1>10. QED
  BY <1>7, <1>8, <1>9

-----------------------------------------------------------------------------
(* Every row counts for one jam at most, however the jam numbers are typed *)

\* Later jams begin further down.
LEMMA StartsAreOrdered ==
  ASSUME NEW start, NEW plays, NEW rows, NEW lines, IsSheet(start, plays, rows, lines)
  PROVE  \A k, l \in 1..Len(plays) + 1 : k < l => start[k] < start[l]
<1> SUFFICES ASSUME NEW k \in 1..Len(plays) + 1, NEW l \in 1..Len(plays) + 1, k < l
             PROVE  start[k] < start[l]
  OBVIOUS
<1>1. Len(plays) \in Nat
  BY SheetTypes
<1>2. k \in 1..Len(plays) /\ k + 1 \in 1..Len(plays) + 1
  BY <1>1
<1>3. start[k + 1] <= start[l]
  BY StartsGrow DEF IsSheet
<1>4. start[k] \in Nat /\ start[k + 1] \in Nat /\ start[l] \in Nat
  BY <1>2, SheetTypes
<1>5. start[k] < start[k + 1]
  <2>1. start[k + 1] = start[k] + 1 \/ start[k + 1] = start[k] + 2
    BY <1>2, SheetTypes
  <2>2. QED
    BY <1>4, <2>1
<1>6. QED
  BY <1>3, <1>4, <1>5

\* Row i is the first one of jam k or that of its star pass.
IsOfJam(i, k, start, plays) == i = start[k] \/ (Passes(plays[k]) # {} /\ i = start[k] + 1)

\* Every row is one of a jam.
LEMMA RowsOfJams ==
  ASSUME NEW start, NEW plays, NEW rows, NEW lines, IsSheet(start, plays, rows, lines)
  PROVE  \A i \in 1..Len(rows) : \E k \in 1..Len(plays) : IsOfJam(i, k, start, plays)
<1> DEFINE n == Len(plays)
           L == Len(rows)
           Is(i, k) == IsOfJam(i, k, start, plays)
           Good == {m \in Nat : m + 1 <= L => \E k \in 1..n : Is(m + 1, k)}
<1>1. /\ n \in Nat /\ L \in Nat /\ start[1] = 1 /\ start[n + 1] = L + 1
      /\ \A k \in 1..n : /\ start[k] \in 1..L
                         /\ Passes(plays[k]) = {} => start[k + 1] = start[k] + 1
                         /\ Passes(plays[k]) # {} => start[k + 1] = start[k] + 2
  BY SheetTypes
<1> HIDE DEF n, L
<1> USE DEF IsOfJam
<1>2. 0 \in Good
  <2> SUFFICES ASSUME 1 <= L PROVE \E k \in 1..n : Is(1, k)
    OBVIOUS
  <2>1. n # 0
    BY <1>1
  <2>2. 1 \in 1..n /\ Is(1, 1)
    BY <1>1, <2>1
  <2>3. QED
    BY <2>2
<1>3. ASSUME NEW m \in Nat, m \in Good PROVE m + 1 \in Good
  <2> SUFFICES ASSUME m + 1 + 1 <= L PROVE \E k \in 1..n : Is(m + 1 + 1, k)
    OBVIOUS
  <2>0. m + 1 <= L
    BY <1>1
  <2>1. PICK k \in 1..n : Is(m + 1, k)
    <3>1. m + 1 <= L => \E k \in 1..n : Is(m + 1, k)
      BY <1>3
    <3> HIDE DEF Is
    <3>2. QED
      BY <2>0, <3>1
  <2>2. CASE start[k + 1] = m + 1 + 1
    <3>1. k + 1 \in 1..n
      BY <1>1, <2>2
    <3>2. Is(m + 1 + 1, k + 1)
      BY <2>2
    <3>3. QED
      BY <3>1, <3>2
  <2>3. CASE start[k + 1] # m + 1 + 1
    <3>1. Passes(plays[k]) # {} /\ m + 1 = start[k]
      BY <1>1, <2>1, <2>3
    <3>2. Is(m + 1 + 1, k)
      BY <3>1
    <3>3. QED
      BY <3>2
  <2>4. QED
    BY <2>2, <2>3
<1>4. ASSUME NEW i \in 1..L PROVE \E k \in 1..n : Is(i, k)
  <2> HIDE DEF Good
  <2>1. Nat \subseteq Good
    BY <1>2, <1>3, NatSetInduction
  <2>2. i - 1 \in Nat /\ (i - 1) + 1 = i /\ i <= L
    BY <1>1
  <2>3. i - 1 \in Good
    BY <2>1, <2>2
  <2>4. QED
    BY <2>2, <2>3 DEF Good
<1>5. QED
  BY <1>4 DEF n, L

\* A row with a number is the first one of the jam of that number.
LEMMA NumberRowsAreJams ==
  ASSUME NEW start, NEW plays, NEW rows, NEW lines, IsSheet(start, plays, rows, lines),
         NEW i \in 1..Len(rows), rows[i].label["home"] = "number"
  PROVE  rows[i].jam \in 1..Len(plays) /\ start[rows[i].jam] = i
<1>1. PICK k \in 1..Len(plays) : IsOfJam(i, k, start, plays)
  BY RowsOfJams
<1>2. IsJamRow(rows[start[k]], k, plays[k]) /\ (Passes(plays[k]) # {} => IsPassRow(rows[start[k] + 1], plays[k]))
  BY DEF IsSheet, IsLayout
<1>3. CASE i = start[k]
  BY <1>2, <1>3 DEF IsJamRow
<1>4. CASE Passes(plays[k]) # {} /\ i = start[k] + 1
  <2>1. rows[i].label["home"] \in {"SP", "blank"}
    BY <1>2, <1>4 DEF IsPassRow, Sides
  <2>2. QED
    BY <2>1
<1>5. QED
  BY <1>1, <1>3, <1>4 DEF IsOfJam

\* Jams read from the rows from i on: each from its own first row and below the
\* rows of those read before it.
IsReadFrom(jams, i, start, plays, rows) ==
  /\ \A j \in 1..Len(jams) :
       /\ jams[j].number \in 1..Len(plays) /\ start[jams[j].number] >= i
       /\ jams[j] = ReadJam(rows, start[jams[j].number])
  /\ \A j, l \in 1..Len(jams) : j < l => start[jams[l].number] >= RowAfter(rows, start[jams[j].number])

\* A jam put in front of those read below it.
LEMMA OneMoreIsRead ==
  ASSUME NEW start, NEW plays, NEW rows, NEW lines, IsSheet(start, plays, rows, lines),
         NEW S, NEW jams \in Seq(S), NEW i \in 1..Len(rows), rows[i].label["home"] = "number",
         ReadJam(rows, i) \in S, IsReadFrom(jams, RowAfter(rows, i), start, plays, rows)
  PROVE  IsReadFrom(<<ReadJam(rows, i)>> \o jams, i, start, plays, rows)
<1> DEFINE jam == ReadJam(rows, i)
           n == Len(plays)
           all == <<jam>> \o jams
           after == RowAfter(rows, i)
           m == Len(jams)
<1>1. m \in Nat /\ n \in Nat /\ Len(rows) \in Nat /\ DOMAIN rows = 1..Len(rows)
  BY SheetTypes, LenProperties
<1>2. jam.number \in 1..n /\ start[jam.number] = i
  BY NumberRowsAreJams DEF ReadJam
<1>3. after \in Nat /\ after > i
  BY <1>1, RowAfterIsBelow
<1>4. \A k \in 1..n : start[k] \in Nat
  BY SheetTypes
<1>5. Len(all) = m + 1 /\ all[1] = jam /\ \A j \in 1..m : all[j + 1] = jams[j]
  <2> DEFINE first == <<jam>>
  <2>1. first \in Seq(S) /\ Len(first) = 1 /\ first[1] = jam
    OBVIOUS
  <2> HIDE DEF first, jam
  <2>2. /\ Len(first \o jams) = Len(first) + Len(jams)
        /\ \A j \in 1..Len(first) + Len(jams) :
             (first \o jams)[j] = IF j <= Len(first) THEN first[j] ELSE jams[j - Len(first)]
    BY <2>1, ConcatProperties
  <2>3. 1 \in 1..1 + m /\ \A j \in 1..m : j + 1 \in 1..1 + m /\ ~(j + 1 <= 1) /\ j + 1 - 1 = j
    BY <1>1
  <2>4. \A j \in 1..1 + m : all[j] = IF j <= 1 THEN jam ELSE jams[j - 1]
    BY <2>1, <2>2 DEF first
  <2> HIDE DEF all, m
  <2>5. all[1] = jam
    BY <2>3, <2>4
  <2>6. ASSUME NEW j \in 1..m PROVE all[j + 1] = jams[j]
    BY <2>3, <2>4
  <2>7. Len(all) = m + 1
    BY <1>1, <2>1, <2>2 DEF all, m, first
  <2>8. QED
    BY <2>5, <2>6, <2>7
<1>6. /\ \A j \in 1..m : /\ jams[j].number \in 1..n /\ start[jams[j].number] >= after
                         /\ jams[j] = ReadJam(rows, start[jams[j].number])
      /\ \A j, l \in 1..m : j < l => start[jams[l].number] >= RowAfter(rows, start[jams[j].number])
  BY DEF IsReadFrom
<1>7. jam = ReadJam(rows, start[jam.number])
  BY <1>2
<1> HIDE DEF jam, n, all, after, m
<1>8. ASSUME NEW j \in 1..m + 1
      PROVE  j = 1 \/ (j - 1 \in 1..m /\ all[j] = jams[j - 1])
  <2>1. j # 1 => j - 1 \in 1..m /\ (j - 1) + 1 = j
    BY <1>1
  <2>2. QED
    BY <1>5, <2>1
<1>9. ASSUME NEW j \in 1..m + 1
      PROVE  /\ all[j].number \in 1..n /\ start[all[j].number] >= i
             /\ all[j] = ReadJam(rows, start[all[j].number])
  <2>1. CASE j = 1
    BY <1>2, <1>5, <1>7, <2>1
  <2>2. CASE j # 1
    <3> DEFINE k == jams[j - 1].number
    <3>1. k \in 1..n /\ start[k] >= after /\ jams[j - 1] = ReadJam(rows, start[k]) /\ all[j] = jams[j - 1]
      BY <1>6, <1>8, <2>2
    <3> HIDE DEF k
    <3>2. start[k] >= i
      BY <1>3, <1>4, <3>1
    <3>3. QED
      BY <3>1, <3>2 DEF k
  <2>3. QED
    BY <2>1, <2>2
<1>10. ASSUME NEW j \in 1..m + 1, NEW l \in 1..m + 1, j < l
       PROVE  start[all[l].number] >= RowAfter(rows, start[all[j].number])
  <2>1. l - 1 \in 1..m /\ all[l] = jams[l - 1]
    BY <1>8, <1>10
  <2>2. CASE j = 1
    BY <1>2, <1>5, <1>6, <2>1, <2>2 DEF after
  <2>3. CASE j # 1
    <3>1. j - 1 \in 1..m /\ all[j] = jams[j - 1] /\ j - 1 < l - 1
      BY <1>8, <1>10, <2>3
    <3>2. QED
      BY <1>6, <2>1, <3>1
  <2>4. QED
    BY <2>2, <2>3
<1>11. IsReadFrom(all, i, start, plays, rows)
  BY <1>5, <1>9, <1>10 DEF IsReadFrom, n
<1>12. QED
  BY <1>11 DEF all, jam

\* The jams of a period are read in order, from rows that do not overlap.
LEMMA JamsAreReadInOrder ==
  ASSUME NEW start, NEW plays, NEW rows, NEW lines, IsSheet(start, plays, rows, lines)
  PROVE  /\ Len(ReadJams(rows)) \in Nat /\ DOMAIN ReadJams(rows) = 1..Len(ReadJams(rows))
         /\ IsReadFrom(ReadJams(rows), 1, start, plays, rows)
<1> DEFINE n == Len(plays)
           L == Len(rows)
           S == {ReadJam(rows, i) : i \in 1..L}
           Holds(jams, i) == jams \in Seq(S) /\ IsReadFrom(jams, i, start, plays, rows)
<1>1. /\ n \in Nat /\ L \in Nat /\ DOMAIN rows = 1..L /\ \A k \in 1..n : start[k] \in Nat
  BY SheetTypes
<1>2. PICK f : IsReading(f, rows) /\ ReadJams(rows) = f[1]
  BY <1>1, ReadJamsIsReading
<1> DEFINE Good == {m \in Nat : \A i \in 1..L + 1 : i + m > L => Holds(f[i], i)}
<1>3. \A i : Holds(<<>>, i)
  <2>1. <<>> \in Seq(S) /\ Len(<<>>) = 0
    BY EmptySeq
  <2>2. QED
    BY <2>1 DEF IsReadFrom
<1>4. ASSUME NEW jams, NEW i \in 1..L, Holds(jams, i + 1) PROVE Holds(jams, i)
  <2>1. \A j \in 1..Len(jams) : start[jams[j].number] >= i
    <3> SUFFICES ASSUME NEW j \in 1..Len(jams) PROVE start[jams[j].number] >= i
      OBVIOUS
    <3>1. jams[j].number \in 1..n /\ start[jams[j].number] >= i + 1
      BY <1>4 DEF IsReadFrom
    <3>2. start[jams[j].number] \in Nat /\ i \in Nat
      BY <1>1, <3>1
    <3>3. QED
      BY <3>1, <3>2
  <2>2. QED
    BY <1>4, <2>1 DEF IsReadFrom
<1>5. ASSUME NEW i \in 1..L, rows[i].label["home"] = "number", Holds(f[RowAfter(rows, i)], RowAfter(rows, i))
      PROVE  Holds(<<ReadJam(rows, i)>> \o f[RowAfter(rows, i)], i)
  <2> DEFINE jams == f[RowAfter(rows, i)]
  <2>1. ReadJam(rows, i) \in S
    OBVIOUS
  <2> HIDE DEF jams, S
  <2>2. jams \in Seq(S) /\ IsReadFrom(jams, RowAfter(rows, i), start, plays, rows)
    BY <1>5 DEF jams
  <2>3. IsReadFrom(<<ReadJam(rows, i)>> \o jams, i, start, plays, rows)
    BY <1>5, <2>1, <2>2, OneMoreIsRead DEF L
  <2>4. <<ReadJam(rows, i)>> \o jams \in Seq(S)
    <3> DEFINE jam == ReadJam(rows, i)
    <3> HIDE DEF jam
    <3>1. jam \in S
      BY <2>1 DEF jam
    <3>2. <<jam>> \in Seq(S)
      BY <3>1
    <3>3. <<jam>> \o jams \in Seq(S)
      BY <2>2, <3>2, ConcatProperties
    <3>4. QED
      BY <3>3 DEF jam
  <2>5. QED
    BY <2>3, <2>4 DEF jams
<1>6. ASSUME NEW i \in 1..L + 1, \A j \in 1..L + 1 : j > i => Holds(f[j], j)
      PROVE  Holds(f[i], i)
  <2>1. f[i] = FromRow(f, rows, i)
    BY <1>2 DEF IsReading, L
  <2> HIDE DEF Holds
  <2>2. CASE f[i] = <<>>
    BY <1>3, <2>2
  <2>3. CASE f[i] # <<>>
    <3>1. i \in 1..L
      BY <1>1, <2>1, <2>3 DEF FromRow, L
    <3>2. i + 1 \in 1..L + 1 /\ i + 1 > i
      BY <1>1, <3>1
    <3>3. RowAfter(rows, i) \in 1..L + 1 /\ RowAfter(rows, i) > i
      <4>1. RowAfter(rows, i) \in i + 1..L + 1
        BY <1>1, <3>1, RowAfterIsBelow
      <4>2. QED
        BY <1>1, <3>1, <4>1
    <3>4. \/ f[i] = f[i + 1]
          \/ rows[i].label["home"] = "number" /\ f[i] = <<ReadJam(rows, i)>> \o f[RowAfter(rows, i)]
      BY <2>1, <2>3 DEF FromRow
    <3>5. Holds(f[i + 1], i + 1) /\ Holds(f[RowAfter(rows, i)], RowAfter(rows, i))
      BY <1>6, <3>2, <3>3
    <3>6. QED
      BY <1>4, <1>5, <3>1, <3>4, <3>5
  <2>4. QED
    BY <2>2, <2>3
<1> HIDE DEF Holds
<1>7. 0 \in Good
  <2> SUFFICES ASSUME NEW i \in 1..L + 1, i + 0 > L PROVE Holds(f[i], i)
    OBVIOUS
  <2>1. \A j \in 1..L + 1 : ~(j > i)
    BY <1>1
  <2>2. QED
    BY <1>6, <2>1
<1>8. ASSUME NEW m \in Nat, m \in Good PROVE m + 1 \in Good
  <2> SUFFICES ASSUME NEW i \in 1..L + 1, i + (m + 1) > L PROVE Holds(f[i], i)
    OBVIOUS
  <2>1. ASSUME NEW j \in 1..L + 1, j > i PROVE Holds(f[j], j)
    <3>1. j + m > L
      BY <1>1, <2>1
    <3>2. QED
      BY <1>8, <3>1
  <2>2. QED
    BY <1>6, <2>1
<1>9. L \in Good
  <2> HIDE DEF Good
  <2>1. Nat \subseteq Good
    BY <1>7, <1>8, NatSetInduction
  <2>2. QED
    BY <1>1, <2>1
<1>10. Holds(f[1], 1)
  <2>1. 1 \in 1..L + 1 /\ 1 + L > L
    BY <1>1
  <2>2. QED
    BY <1>9, <2>1
<1>11. ReadJams(rows) \in Seq(S) /\ IsReadFrom(ReadJams(rows), 1, start, plays, rows)
  BY <1>2, <1>10 DEF Holds
<1>12. QED
  BY <1>11, LenProperties

\* What a side made in a jam.
PointsOf(play, s) == play[s].points + play[s].after

\* The jams that begin in the rows read as jam k.
Own(k, start, plays, rows) ==
  {m \in 1..Len(plays) : start[m] >= start[k] /\ start[m] < RowAfter(rows, start[k])}

\* A side is credited with what it made in the jam, and in the next one at most
\* if that began in the rows read.
LEMMA PointsReadAreOwn ==
  ASSUME NEW start, NEW plays, NEW rows, NEW lines, IsSheet(start, plays, rows, lines),
         NEW k \in 1..Len(plays), NEW s \in Sides
  PROVE  LET points == ReadSide(rows, start[k], s).points
         IN  /\ points \in Nat /\ k \in Own(k, start, plays, rows)
             /\ \/ points <= PointsOf(plays[k], s)
                \/ /\ k + 1 \in Own(k, start, plays, rows)
                   /\ points <= PointsOf(plays[k], s) + PointsOf(plays[k + 1], s)
<1> DEFINE i == start[k]
           n == Len(plays)
           L == Len(rows)
           points == ReadSide(rows, i, s).points
           own == Own(k, start, plays, rows)
<1>1. /\ n \in Nat /\ L \in Nat /\ DOMAIN rows = 1..L /\ i \in 1..L
      /\ \A m \in 1..n : plays[m] \in JamPlays
  BY SheetTypes
<1>2. \A m \in 1..n : plays[m][s].points \in Nat /\ plays[m][s].after \in Nat
  BY <1>1, PlayTypes
<1>3. \A m \in 1..n : IsJamRow(rows[start[m]], m, plays[m])
  BY DEF IsSheet, IsLayout
<1>4. rows[i].points[s] = plays[k][s].points
  BY <1>3 DEF IsJamRow
<1>5. RowAfter(rows, i) > i
  BY <1>1, RowAfterIsBelow
<1>6. k \in own
  BY <1>1, <1>5 DEF Own
<1>7. ~PassedAt(rows, i + 1, s) => points = plays[k][s].points
  BY <1>4 DEF ReadSide
<1>8. PassedAt(rows, i + 1, s) => points = plays[k][s].points + rows[i + 1].points[s]
  BY <1>4 DEF ReadSide
<1>9. CASE ~PassedAt(rows, i + 1, s)
  <2>1. points \in Nat /\ points <= PointsOf(plays[k], s)
    BY <1>2, <1>7, <1>9 DEF PointsOf
  <2>2. QED
    BY <1>6, <2>1
<1>10. CASE PassedAt(rows, i + 1, s) /\ Passes(plays[k]) # {}
  <2>1. rows[i + 1].points[s] = plays[k][s].after
    BY <1>10 DEF IsSheet, IsLayout, IsPassRow
  <2>2. points = PointsOf(plays[k], s) /\ points \in Nat
    BY <1>2, <1>8, <1>10, <2>1 DEF PointsOf
  <2>3. QED
    BY <1>6, <2>2
<1>11. CASE PassedAt(rows, i + 1, s) /\ Passes(plays[k]) = {}
  <2>1. i + 1 \in 1..L
    BY <1>1, <1>11 DEF PassedAt, LabelAt, IsText
  <2>2. start[k + 1] = i + 1 /\ start[n + 1] = L + 1
    BY <1>11, SheetTypes
  <2>3. k + 1 \in 1..n
    BY <1>1, <2>1, <2>2
  <2>4. rows[i + 1].points[s] = plays[k + 1][s].points
    BY <1>3, <2>2, <2>3 DEF IsJamRow
  <2>5. RowAfter(rows, i) = i + 2
    BY <1>11 DEF RowAfter
  <2>6. k + 1 \in own
    BY <1>1, <2>2, <2>3, <2>5 DEF Own
  <2>7. points = plays[k][s].points + plays[k + 1][s].points
    BY <1>8, <1>11, <2>4
  <2>8. points \in Nat /\ points <= PointsOf(plays[k], s) + PointsOf(plays[k + 1], s)
    <3>1. \A a, b, c, d \in Nat : a + c \in Nat /\ a + c <= (a + b) + (c + d)
      OBVIOUS
    <3>2. /\ plays[k][s].points \in Nat /\ plays[k][s].after \in Nat
          /\ plays[k + 1][s].points \in Nat /\ plays[k + 1][s].after \in Nat
      BY <1>2, <2>3
    <3> HIDE DEF points
    <3>3. QED
      BY <2>7, <3>1, <3>2, Zenon DEF PointsOf
  <2>9. QED
    BY <1>6, <2>6, <2>8
<1>12. QED
  BY <1>9, <1>10, <1>11

\* The points credited to a side in the jams read, and those it made in the jams played.
Credited(periods, s) == [x \in JamIndex(periods) |-> SideIn(periods, x, s).points]
MadeIn(s) == [x \in Moments |-> PointsOf(played[x[1]][x[2]], s)]

\* The score of the periods is the sum of the points credited.
LEMMA PeriodsScoreAsSum ==
  ASSUME NEW periods, NEW s, IsFiniteSet(JamIndex(periods)),
         \A x \in JamIndex(periods) : SideIn(periods, x, s).points \in Nat
  PROVE  PeriodsScore(periods, s) = SumOf(Credited(periods, s), JamIndex(periods))
<1> DEFINE S == JamIndex(periods)
           F == Credited(periods, s)
           IsScore(h) == h = [T \in SUBSET S |-> IF T = {} THEN 0
                                                  ELSE SideIn(periods, Pick(T), s).points + h[T \ {Pick(T)}]]
           table == CHOOSE h : IsScore(h)
           sum == CHOOSE h : IsTable(h, F, S)
<1>1. PeriodsScore(periods, s) = table[S] /\ SumOf(F, S) = sum[S]
  BY DEF PeriodsScore, SumOf, MapThenSumSet, MapThenFoldSet, IsTable, Pick
<1>2. \A T \in SUBSET S : T # {} => F[Pick(T)] = SideIn(periods, Pick(T), s).points
  BY DEF Credited, Pick
<1>3. \A h : IsScore(h) <=> IsTable(h, F, S)
  <2> HIDE DEF S, F
  <2> QED BY <1>2 DEF IsTable
<1>4. (CHOOSE h : IsScore(h)) = (CHOOSE h : IsTable(h, F, S))
  <2> HIDE DEF IsScore, S, F
  <2> QED BY <1>3, Zenon
<1>5. QED
  BY <1>1, <1>4

\* The official score is the sum of the points made.
LEMMA OfficialAsSum ==
  ASSUME NEW s \in Sides, BookInv
  PROVE  Official(s) = SumOf(MadeIn(s), Moments)
<1> DEFINE F == MadeIn(s)
           IsScore(h) == h = [T \in SUBSET Moments |-> IF T = {} THEN 0
                          ELSE (played[Pick(T)[1]][Pick(T)[2]][s].points + played[Pick(T)[1]][Pick(T)[2]][s].after)
                               + h[T \ {Pick(T)}]]
           table == CHOOSE h : IsScore(h)
           sum == CHOOSE h : IsTable(h, F, Moments)
<1>1. Official(s) = table[Moments] /\ SumOf(F, Moments) = sum[Moments]
  BY DEF Official, SumOf, MapThenSumSet, MapThenFoldSet, IsTable, Pick
<1>2. \A T \in SUBSET Moments : T # {} =>
        F[Pick(T)] = played[Pick(T)[1]][Pick(T)[2]][s].points + played[Pick(T)[1]][Pick(T)[2]][s].after
  BY DEF MadeIn, PointsOf, Pick
<1>3. \A h : IsScore(h) <=> IsTable(h, F, Moments)
  <2> HIDE DEF F
  <2> QED BY <1>2 DEF IsTable
<1>4. (CHOOSE h : IsScore(h)) = (CHOOSE h : IsTable(h, F, Moments))
  <2> HIDE DEF IsScore, F
  <2> QED BY <1>3, Zenon
<1>5. QED
  BY <1>1, <1>4

\* The jams played are the pairs of a period and a number of a jam of it; the
\* points made in them are naturals.
LEMMA MomentsAre ==
  ASSUME BookInv
  PROVE  /\ IsFiniteSet(Moments)
         /\ \A x \in Moments : \E p \in 1..2 : \E k \in 1..Len(played[p]) : x = <<p, k>>
         /\ \A p \in 1..2 : \A k \in 1..Len(played[p]) : <<p, k>> \in Moments
         /\ \A s \in Sides, x \in Moments : MadeIn(s)[x] \in Nat
<1>1. \A p \in 1..2 : /\ DOMAIN played[p] = 1..Len(played[p]) /\ Len(played[p]) \in Nat
                      /\ \A k \in 1..Len(played[p]) : played[p][k] \in JamPlays
  <2> SUFFICES ASSUME NEW p \in 1..2
               PROVE  /\ DOMAIN played[p] = 1..Len(played[p]) /\ Len(played[p]) \in Nat
                      /\ \A k \in 1..Len(played[p]) : played[p][k] \in JamPlays
    OBVIOUS
  <2>1. PICK start : IsSheet(start, played[p], score[p], lineups[p])
    BY SheetOf
  <2>2. QED
    BY <2>1, SheetTypes
<1>2. \A x : x \in Moments <=> \E p \in 1..2 : \E k \in 1..Len(played[p]) : x = <<p, k>>
  BY <1>1 DEF Moments
<1>3. IsFiniteSet(Moments)
  <2> DEFINE one == {1} \X (1..Len(played[1]))
             two == {2} \X (1..Len(played[2]))
  <2>1. IsFiniteSet(one) /\ IsFiniteSet(two)
    <3>1. Len(played[1]) \in Int /\ Len(played[2]) \in Int
      BY <1>1
    <3>2. \A n \in Int : IsFiniteSet(1..n)
      BY FS_Interval
    <3>3. IsFiniteSet({1}) /\ IsFiniteSet({2}) /\ IsFiniteSet(1..Len(played[1])) /\ IsFiniteSet(1..Len(played[2]))
      BY <3>1, <3>2, FS_Singleton
    <3>4. QED
      BY <3>3, FS_Product
  <2>2. Moments \subseteq one \cup two
    <3> SUFFICES ASSUME NEW x \in Moments PROVE x \in one \cup two
      OBVIOUS
    <3>1. PICK p \in 1..2 : \E k \in 1..Len(played[p]) : x = <<p, k>>
      BY <1>2
    <3>2. PICK k \in 1..Len(played[p]) : x = <<p, k>>
      BY <3>1
    <3>3. p = 1 \/ p = 2
      OBVIOUS
    <3>4. QED
      BY <3>2, <3>3
  <2> HIDE DEF one, two
  <2>3. QED
    BY <2>1, <2>2, FS_Union, FS_Subset
<1>4. ASSUME NEW s \in Sides, NEW x \in Moments PROVE MadeIn(s)[x] \in Nat
  <2>1. PICK p \in 1..2 : \E k \in 1..Len(played[p]) : x = <<p, k>>
    BY <1>2
  <2>2. PICK k \in 1..Len(played[p]) : x = <<p, k>>
    BY <2>1
  <2>3. played[p][k][s].points \in Nat /\ played[p][k][s].after \in Nat
    BY <1>1, PlayTypes
  <2>4. MadeIn(s)[x] = PointsOf(played[p][k], s)
    BY <2>2 DEF MadeIn
  <2>5. QED
    BY <2>3, <2>4 DEF PointsOf
<1>5. QED
  BY <1>2, <1>3, <1>4

\* The periods that are read, in order, however their jam numbers are typed.
LEMMA PeriodsInOrder ==
  ASSUME TotalsUnread
  PROVE  /\ DOMAIN ParseScores \subseteq 1..2
         /\ \A pi \in DOMAIN ParseScores :
              \E p \in 1..2 : ParseScores[pi] = [number |-> p, jams |-> ReadJams(score[p])]
         /\ \A pi, qi \in DOMAIN ParseScores : pi < qi => ParseScores[pi].number < ParseScores[qi].number
<1> DEFINE one == [number |-> 1, jams |-> ReadJams(score[1])]
           two == [number |-> 2, jams |-> ReadJams(score[2])]
<1>1. one.number = 1 /\ two.number = 2
  OBVIOUS
<1>2. ParseScores \in {<<>>, <<one>>, <<two>>, <<one, two>>}
  BY PeriodsAre
<1>3. DOMAIN <<>> = {} /\ DOMAIN <<one>> = {1} /\ DOMAIN <<two>> = {1} /\ DOMAIN <<one, two>> = {1, 2}
      /\ <<one>>[1] = one /\ <<two>>[1] = two /\ <<one, two>>[1] = one /\ <<one, two>>[2] = two
  OBVIOUS
<1> HIDE DEF one, two
<1>4. DOMAIN ParseScores \subseteq 1..2 /\ \A pi \in DOMAIN ParseScores : ParseScores[pi] \in {one, two}
  BY <1>2, <1>3
<1>5. \A pi, qi \in DOMAIN ParseScores : pi < qi => ParseScores[pi].number < ParseScores[qi].number
  BY <1>1, <1>2, <1>3
<1>6. QED
  BY <1>4, <1>5 DEF one, two

\* A period that was read: its jams have numbers of jams played, from whose rows
\* their points come, and no two of them share a row.
IsRead(period, p, start) ==
  /\ period.number = p
  /\ \E n \in Nat : DOMAIN period.jams = 1..n
  /\ \A k \in DOMAIN period.jams :
       /\ period.jams[k].number \in 1..Len(played[p])
       /\ \A s \in Sides : period.jams[k].side[s].points = ReadSide(score[p], start[period.jams[k].number], s).points
  /\ \A k, l \in DOMAIN period.jams :
       k < l => start[period.jams[l].number] >= RowAfter(score[p], start[period.jams[k].number])

\* Every period that is parsed is such a period.
LEMMA PeriodIsRead ==
  ASSUME BookInv, NEW pi \in DOMAIN ParseScores, NEW p \in 1..2,
         ParseScores[pi] = [number |-> p, jams |-> ReadJams(score[p])],
         NEW start, IsSheet(start, played[p], score[p], lineups[p])
  PROVE  IsRead(MergeLineups(ParseScores)[pi], p, start)
<1> DEFINE read == ReadJams(score[p])
           at == LineupRows(lineups[pi], Len(read))
           jams == [k \in DOMAIN read |-> WithLineups(read[k], lineups[pi], at[k])]
           period == MergeLineups(ParseScores)[pi]
<1>1. /\ Len(read) \in Nat /\ DOMAIN read = 1..Len(read)
      /\ IsReadFrom(read, 1, start, played[p], score[p])
  BY JamsAreReadInOrder
<1>2. period = [number |-> p, jams |-> jams]
  BY MergedPeriod
<1>3. \A k \in 1..Len(read) : /\ read[k].number \in 1..Len(played[p])
                              /\ read[k] = ReadJam(score[p], start[read[k].number])
  BY <1>1 DEF IsReadFrom
<1>4. \A k, l \in 1..Len(read) : k < l => start[read[l].number] >= RowAfter(score[p], start[read[k].number])
  BY <1>1 DEF IsReadFrom
<1>5. ASSUME NEW k \in 1..Len(read)
      PROVE  /\ jams[k].number = read[k].number
             /\ \A s \in Sides : jams[k].side[s].points = ReadSide(score[p], start[read[k].number], s).points
  <2> DEFINE i == start[read[k].number]
             r == at[k]
             lines == lineups[pi]
             rows == score[p]
  <2>1. jams[k] = WithLineups(ReadJam(rows, i), lines, r)
    BY <1>1, <1>3
  <2>2. read[k].number = rows[i].jam
    <3>1. read[k] = ReadJam(rows, i)
      BY <1>3
    <3> HIDE DEF read, rows, i
    <3>2. QED
      BY <3>1 DEF ReadJam
  <2> HIDE DEF jams, read, i, r, lines, rows
  <2>3. \A s \in Sides : /\ jams[k].number = rows[i].jam
                         /\ jams[k].side[s].points = ReadSide(rows, i, s).points
    BY <2>1, WithLineupsIs
  <2>4. jams[k].number = rows[i].jam
    BY <2>3 DEF Sides
  <2>5. QED
    BY <2>2, <2>3, <2>4 DEF i, rows
<1>6. DOMAIN jams = 1..Len(read)
  BY <1>1
<1>7. period.number = p /\ period.jams = jams
  BY <1>2
<1> HIDE DEF period, jams, read
<1>8. IsRead(period, p, start)
  BY <1>1, <1>3, <1>4, <1>5, <1>6, <1>7 DEF IsRead
<1>9. QED
  BY <1>8 DEF period

\* A sum is no less than that of one or two of its summands.
LEMMA SumAtLeast ==
  ASSUME NEW F, NEW S, IsFiniteSet(S), \A x \in S : F[x] \in Nat, NEW T \in SUBSET S
  PROVE  /\ \A x \in T : F[x] <= SumOf(F, T)
         /\ \A x, y \in T : x # y => F[x] + F[y] <= SumOf(F, T)
<1>1. \A U \in SUBSET S : /\ SumOf(F, U) \in Nat
                          /\ \A x \in U : SumOf(F, U) = F[x] + SumOf(F, U \ {x})
  BY SumTakesOut
<1>2. ASSUME NEW x \in T PROVE F[x] <= SumOf(F, T)
  <2>1. SumOf(F, T) = F[x] + SumOf(F, T \ {x}) /\ SumOf(F, T \ {x}) \in Nat /\ F[x] \in Nat
    BY <1>1
  <2>2. QED
    BY <2>1
<1>3. ASSUME NEW x \in T, NEW y \in T, x # y PROVE F[x] + F[y] <= SumOf(F, T)
  <2> DEFINE one == T \ {x}
             two == one \ {y}
  <2>1. one \in SUBSET S /\ two \in SUBSET S /\ y \in one
    BY <1>3
  <2>2. SumOf(F, T) = F[x] + SumOf(F, one) /\ SumOf(F, one) = F[y] + SumOf(F, two)
    BY <1>1, <2>1
  <2>3. SumOf(F, two) \in Nat /\ F[x] \in Nat /\ F[y] \in Nat
    BY <1>1, <2>1
  <2> DEFINE a == SumOf(F, T)
             b == SumOf(F, one)
             c == SumOf(F, two)
  <2>4. a = F[x] + b /\ b = F[y] + c /\ c \in Nat
    BY <2>2, <2>3
  <2> HIDE DEF a, b, c
  <2>5. F[x] + F[y] <= a
    BY <2>3, <2>4
  <2>6. QED
    BY <2>5 DEF a
<1>4. QED
  BY <1>2, <1>3

\* The periods of a parsed game, each with the rows of its sheet.
LEMMA ParsedPeriods ==
  ASSUME BookInv, TotalsUnread, NEW periods, periods = MergeLineups(ParseScores)
  PROVE  /\ DOMAIN periods \subseteq 1..2
         /\ \A pi \in DOMAIN periods : \E p \in 1..2 : \E start :
              IsSheet(start, played[p], score[p], lineups[p]) /\ IsRead(periods[pi], p, start)
         /\ \A pi, qi \in DOMAIN periods : pi # qi => periods[pi].number # periods[qi].number
<1>1. DOMAIN periods = DOMAIN ParseScores
  BY DEF MergeLineups
<1>2. ASSUME NEW pi \in DOMAIN periods
      PROVE  /\ periods[pi].number = ParseScores[pi].number /\ periods[pi].number \in 1..2
             /\ \E p \in 1..2 : \E start :
                  IsSheet(start, played[p], score[p], lineups[p]) /\ IsRead(periods[pi], p, start)
  <2>1. PICK p \in 1..2 : ParseScores[pi] = [number |-> p, jams |-> ReadJams(score[p])]
    BY <1>1, PeriodsInOrder
  <2>2. PICK start : IsSheet(start, played[p], score[p], lineups[p])
    BY SheetOf
  <2>3. IsRead(periods[pi], p, start)
    BY <1>1, <2>1, <2>2, PeriodIsRead
  <2>4. ParseScores[pi].number = p /\ periods[pi].number = p
    BY <2>1, <2>3 DEF IsRead
  <2>5. QED
    BY <2>2, <2>3, <2>4
<1>3. ASSUME NEW pi \in DOMAIN periods, NEW qi \in DOMAIN periods, pi # qi
      PROVE  periods[pi].number # periods[qi].number
  <2>1. pi \in 1..2 /\ qi \in 1..2
    BY <1>1, PeriodsInOrder
  <2>2. pi < qi \/ qi < pi
    BY <1>3, <2>1
  <2>3. /\ pi < qi => ParseScores[pi].number < ParseScores[qi].number
        /\ qi < pi => ParseScores[qi].number < ParseScores[pi].number
    BY <1>1, PeriodsInOrder
  <2>4. periods[pi].number \in 1..2 /\ periods[qi].number \in 1..2
    BY <1>2
  <2>5. QED
    BY <1>2, <2>2, <2>3, <2>4
<1>4. DOMAIN periods \subseteq 1..2
  BY <1>1, PeriodsInOrder
<1>5. QED
  BY <1>2, <1>3, <1>4

\* Pairs of a period and a jam of it.
LEMMA JamIndexIs ==
  ASSUME BookInv, TotalsUnread, NEW periods, periods = MergeLineups(ParseScores)
  PROVE  /\ IsFiniteSet(JamIndex(periods))
         /\ \A x : x \in JamIndex(periods) <=>
              \E pi \in DOMAIN periods : \E k \in DOMAIN periods[pi].jams : x = <<pi, k>>
<1>1. \A x : x \in JamIndex(periods) <=>
        \E pi \in DOMAIN periods : \E k \in DOMAIN periods[pi].jams : x = <<pi, k>>
  BY DEF JamIndex
<1>2. \A pi \in DOMAIN periods : IsFiniteSet(DOMAIN periods[pi].jams)
  <2> SUFFICES ASSUME NEW pi \in DOMAIN periods PROVE IsFiniteSet(DOMAIN periods[pi].jams)
    OBVIOUS
  <2>1. PICK p \in 1..2 : \E start :
          IsSheet(start, played[p], score[p], lineups[p]) /\ IsRead(periods[pi], p, start)
    BY ParsedPeriods
  <2>2. PICK n \in Nat : DOMAIN periods[pi].jams = 1..n
    BY <2>1 DEF IsRead
  <2>3. IsFiniteSet(1..n)
    BY FS_Interval
  <2>4. QED
    BY <2>2, <2>3
<1> DEFINE part(pi) == IF pi \in DOMAIN periods THEN {pi} \X DOMAIN periods[pi].jams ELSE {}
<1>3. IsFiniteSet(part(1)) /\ IsFiniteSet(part(2))
  <2>1. \A pi : IsFiniteSet({pi}) /\ IsFiniteSet({})
    BY FS_Singleton, FS_EmptySet
  <2>2. \A pi \in DOMAIN periods : IsFiniteSet({pi} \X DOMAIN periods[pi].jams)
    BY <1>2, <2>1, FS_Product
  <2>3. QED
    BY <2>1, <2>2
<1>4. JamIndex(periods) \subseteq part(1) \cup part(2)
  <2>1. DOMAIN periods \subseteq {1, 2}
    BY ParsedPeriods
  <2>2. QED
    BY <1>1, <2>1
<1> HIDE DEF part
<1>5. IsFiniteSet(JamIndex(periods))
  BY <1>3, <1>4, FS_Union, FS_Subset
<1>6. QED
  BY <1>1, <1>5

\* No side is credited with more than it made.
LEMMA CreditIsEarned ==
  ASSUME BookInv, TotalsUnread, NEW periods, periods = MergeLineups(ParseScores), NEW s \in Sides
  PROVE  /\ \A x \in JamIndex(periods) : SideIn(periods, x, s).points \in Nat
         /\ PeriodsScore(periods, s) <= Official(s)
         /\ PeriodsScore(periods, s) \in Nat /\ Official(s) \in Nat
<1> DEFINE A == JamIndex(periods)
           f == Credited(periods, s)
           g == MadeIn(s)
           start == [p \in 1..2 |-> CHOOSE st : IsSheet(st, played[p], score[p], lineups[p])]
<1>1. \A p \in 1..2 : IsSheet(start[p], played[p], score[p], lineups[p])
  <2>1. \A p \in 1..2 : \E st : IsSheet(st, played[p], score[p], lineups[p])
    BY SheetOf
  <2>2. \A p \in 1..2 : start[p] = CHOOSE st : IsSheet(st, played[p], score[p], lineups[p])
    OBVIOUS
  <2> HIDE DEF start
  <2>3. ASSUME NEW p \in 1..2 PROVE IsSheet(start[p], played[p], score[p], lineups[p])
    <3>1. IsSheet(CHOOSE st : IsSheet(st, played[p], score[p], lineups[p]), played[p], score[p], lineups[p])
      BY <2>1, Zenon
    <3>2. QED
      BY <2>2, <3>1
  <2>4. QED
    BY <2>3
<1> HIDE DEF start
<1>2. \A pi \in DOMAIN periods : \E p \in 1..2 : IsRead(periods[pi], p, start[p])
  <2> SUFFICES ASSUME NEW pi \in DOMAIN periods PROVE \E p \in 1..2 : IsRead(periods[pi], p, start[p])
    OBVIOUS
  <2>1. DOMAIN periods = DOMAIN ParseScores
    BY DEF MergeLineups
  <2>2. PICK p \in 1..2 : ParseScores[pi] = [number |-> p, jams |-> ReadJams(score[p])]
    BY <2>1, PeriodsInOrder
  <2>3. QED
    BY <1>1, <2>1, <2>2, PeriodIsRead
<1> DEFINE P(x) == periods[x[1]].number
           N(x) == periods[x[1]].jams[x[2]].number
           OwnOf(x) == Own(N(x), start[P(x)], played[P(x)], score[P(x)])
           part == [x \in A |-> {y \in Moments : y[1] = P(x) /\ y[2] \in OwnOf(x)}]
<1>3. ASSUME NEW x \in A
      PROVE  /\ x[1] \in DOMAIN periods /\ x[2] \in DOMAIN periods[x[1]].jams /\ x = <<x[1], x[2]>>
             /\ P(x) \in 1..2 /\ N(x) \in 1..Len(played[P(x)])
             /\ f[x] = ReadSide(score[P(x)], start[P(x)][N(x)], s).points
             /\ f[x] = SideIn(periods, x, s).points
             /\ IsRead(periods[x[1]], P(x), start[P(x)])
  <2>1. PICK pi \in DOMAIN periods : \E k \in DOMAIN periods[pi].jams : x = <<pi, k>>
    BY JamIndexIs
  <2>2. PICK k \in DOMAIN periods[pi].jams : x = <<pi, k>>
    BY <2>1
  <2>3. PICK p \in 1..2 : IsRead(periods[pi], p, start[p])
    BY <1>2
  <2>4. P(x) = p
    BY <2>2, <2>3 DEF IsRead
  <2>5. f[x] = periods[pi].jams[k].side[s].points /\ f[x] = SideIn(periods, x, s).points
    BY <2>2 DEF Credited, SideIn
  <2>6. N(x) = periods[pi].jams[k].number
    BY <2>2
  <2> HIDE DEF A, f, P, N
  <2>7. f[x] = ReadSide(score[p], start[p][N(x)], s).points /\ N(x) \in 1..Len(played[p])
    BY <2>3, <2>5, <2>6 DEF IsRead
  <2>8. x[1] = pi /\ x[2] = k
    BY <2>2
  <2>9. QED
    BY <2>2, <2>3, <2>4, <2>5, <2>7, <2>8
<1>4. IsFiniteSet(A) /\ IsFiniteSet(Moments) /\ \A y \in Moments : g[y] \in Nat
  BY JamIndexIs, MomentsAre
<1>5. part \in [A -> SUBSET Moments] /\ \A x \in A : part[x] = {y \in Moments : y[1] = P(x) /\ y[2] \in OwnOf(x)}
  OBVIOUS
<1> HIDE DEF A, f, g, part, P, N
<1>6. ASSUME NEW x \in A
      PROVE  /\ f[x] \in Nat /\ f[x] <= SumOf(g, part[x])
  <2> DEFINE p == P(x)
             k == N(x)
             plays == played[p]
             rows == score[p]
             st == start[p]
             points == ReadSide(rows, st[k], s).points
  <2>1. p \in 1..2 /\ k \in 1..Len(plays) /\ f[x] = points
    BY <1>3
  <2>2. IsSheet(st, plays, rows, lineups[p])
    BY <1>1, <2>1
  <2>3. /\ points \in Nat /\ k \in Own(k, st, plays, rows)
        /\ \/ points <= PointsOf(plays[k], s)
           \/ /\ k + 1 \in Own(k, st, plays, rows)
              /\ points <= PointsOf(plays[k], s) + PointsOf(plays[k + 1], s)
    <3> HIDE DEF p, k, plays, rows, st
    <3> QED BY <2>1, <2>2, PointsReadAreOwn
  <2>4. \A m \in Own(k, st, plays, rows) : /\ <<p, m>> \in part[x]
                                           /\ g[<<p, m>>] = PointsOf(plays[m], s)
    <3> SUFFICES ASSUME NEW m \in Own(k, st, plays, rows)
                 PROVE  <<p, m>> \in part[x] /\ g[<<p, m>>] = PointsOf(plays[m], s)
      OBVIOUS
    <3>1. m \in 1..Len(plays)
      BY DEF Own
    <3>2. <<p, m>> \in Moments
      BY <2>1, <3>1, MomentsAre
    <3>3. g[<<p, m>>] = PointsOf(plays[m], s)
      BY <3>2 DEF MadeIn, g
    <3>4. QED
      BY <1>5, <3>2, <3>3
  <2>5. part[x] \in SUBSET Moments
    BY <1>5
  <2>6. /\ \A y \in part[x] : g[y] <= SumOf(g, part[x])
        /\ \A y, z \in part[x] : y # z => g[y] + g[z] <= SumOf(g, part[x])
    BY <1>4, <2>5, SumAtLeast
  <2>7. SumOf(g, part[x]) \in Nat /\ \A y \in part[x] : g[y] \in Nat
    BY <1>4, <2>5, SumTakesOut
  <2> HIDE DEF p, k, plays, rows, st, points
  <2> DEFINE sum == SumOf(g, part[x])
  <2>8. sum \in Nat
    BY <2>7
  <2>9. PointsOf(plays[k], s) \in Nat /\ PointsOf(plays[k], s) <= sum
    BY <2>3, <2>4, <2>6, <2>7
  <2>10. k + 1 \in Own(k, st, plays, rows) =>
           /\ PointsOf(plays[k + 1], s) \in Nat
           /\ PointsOf(plays[k], s) + PointsOf(plays[k + 1], s) <= sum
    <3> SUFFICES ASSUME k + 1 \in Own(k, st, plays, rows)
                 PROVE  /\ PointsOf(plays[k + 1], s) \in Nat
                        /\ PointsOf(plays[k], s) + PointsOf(plays[k + 1], s) <= sum
      OBVIOUS
    <3>1. <<p, k>> # <<p, k + 1>>
      BY <2>1
    <3>2. /\ <<p, k>> \in part[x] /\ g[<<p, k>>] = PointsOf(plays[k], s)
          /\ <<p, k + 1>> \in part[x] /\ g[<<p, k + 1>>] = PointsOf(plays[k + 1], s)
      BY <2>3, <2>4
    <3>3. QED
      BY <2>6, <2>7, <3>1, <3>2
  <2> HIDE DEF sum
  <2>11. points <= sum
    BY <2>3, <2>8, <2>9, <2>10
  <2>12. QED
    BY <2>1, <2>3, <2>11 DEF sum
<1>7. ASSUME NEW x \in A, NEW z \in A, x # z PROVE part[x] \cap part[z] = {}
  <2> SUFFICES ASSUME NEW y \in part[x], y \in part[z] PROVE FALSE
    OBVIOUS
  <2>1. P(x) = P(z) /\ y[2] \in OwnOf(x) /\ y[2] \in OwnOf(z)
    BY <1>5
  <2>2. x[1] \in DOMAIN periods /\ z[1] \in DOMAIN periods /\ x = <<x[1], x[2]>> /\ z = <<z[1], z[2]>>
    BY <1>3
  <2>3. x[1] = z[1]
    BY <2>1, <2>2, ParsedPeriods DEF P
  <2>4. x[2] # z[2]
    BY <1>7, <2>2, <2>3
  <2> DEFINE p == P(x)
             st == start[p]
             rows == score[p]
             k == x[2]
             l == z[2]
             jams == periods[x[1]].jams
  <2>5. IsRead(periods[x[1]], p, st) /\ k \in DOMAIN jams /\ l \in DOMAIN jams
    BY <1>3, <2>3
  <2>6. k \in Nat /\ l \in Nat
    BY <2>5 DEF IsRead
  <2>7. /\ k < l => st[jams[l].number] >= RowAfter(rows, st[jams[k].number])
        /\ l < k => st[jams[k].number] >= RowAfter(rows, st[jams[l].number])
    BY <2>5 DEF IsRead
  <2>8. N(x) = jams[k].number /\ N(z) = jams[l].number
    BY <2>3 DEF N
  <2>9. /\ y[2] \in 1..Len(played[p])
        /\ st[y[2]] >= st[N(x)] /\ st[y[2]] < RowAfter(rows, st[N(x)])
        /\ st[y[2]] >= st[N(z)] /\ st[y[2]] < RowAfter(rows, st[N(z)])
    BY <2>1 DEF Own
  <2>10. /\ N(x) \in 1..Len(played[p]) /\ N(z) \in 1..Len(played[p]) /\ p \in 1..2
    BY <1>3, <2>1
  <2>11. \A m \in 1..Len(played[p]) : st[m] \in Nat /\ RowAfter(rows, st[m]) \in Nat
    <3>1. IsSheet(st, played[p], rows, lineups[p])
      BY <1>1, <2>10
    <3> SUFFICES ASSUME NEW m \in 1..Len(played[p]) PROVE st[m] \in Nat /\ RowAfter(rows, st[m]) \in Nat
      OBVIOUS
    <3>2. st[m] \in 1..Len(rows) /\ Len(rows) \in Nat /\ DOMAIN rows = 1..Len(rows)
      BY <3>1, SheetTypes
    <3> HIDE DEF st, rows
    <3>3. RowAfter(rows, st[m]) \in st[m] + 1..Len(rows) + 1
      BY <3>2, RowAfterIsBelow
    <3>4. QED
      BY <3>2, <3>3
  <2> HIDE DEF p, st, rows, k, l, jams
  <2>12. k < l \/ l < k
    BY <2>4, <2>6 DEF k, l
  <2>13. \/ st[N(z)] >= RowAfter(rows, st[N(x)])
         \/ st[N(x)] >= RowAfter(rows, st[N(z)])
    BY <2>7, <2>8, <2>12
  <2>14. /\ st[y[2]] \in Nat /\ st[N(x)] \in Nat /\ st[N(z)] \in Nat
         /\ RowAfter(rows, st[N(x)]) \in Nat /\ RowAfter(rows, st[N(z)]) \in Nat
    BY <2>9, <2>10, <2>11
  <2>15. QED
    BY <2>9, <2>13, <2>14
<1>8. SumOf(f, A) <= SumOf(g, Moments)
  <2>1. /\ IsFiniteSet(A) /\ \A x \in A : f[x] \in Nat
        /\ IsFiniteSet(Moments) /\ \A y \in Moments : g[y] \in Nat
        /\ part \in [A -> SUBSET Moments] /\ \A x \in A : f[x] <= SumOf(g, part[x])
    BY <1>4, <1>5, <1>6
  <2>2. \A x, z \in A : x # z => part[x] \cap part[z] = {}
    BY <1>7
  <2>3. QED
    BY <2>1, <2>2, SumOfParts
<1>9. \A x \in A : SideIn(periods, x, s).points \in Nat
  BY <1>3, <1>6
<1>10. PeriodsScore(periods, s) = SumOf(f, A) /\ Official(s) = SumOf(g, Moments)
  BY <1>4, <1>9, PeriodsScoreAsSum, OfficialAsSum DEF A, f, g
<1>11. SumOf(f, A) \in Nat /\ SumOf(g, Moments) \in Nat
  BY <1>4, <1>6, SumTakesOut
<1>12. QED
  BY <1>8, <1>9, <1>10, <1>11 DEF A

\* For every game and every way to type its jam numbers, where no row of totals is
\* taken for one of a star pass: each row of Score is read for one jam at most, so no jam is read twice or out of order and no side
\* gets more points than it made.
THEOREM RowsAreCountedOnce == Spec => []PointsAreCountedOnce
<1>1. BookInv /\ ParsedInv => PointsAreCountedOnce
  <2> SUFFICES ASSUME BookInv, ParsedInv, stage = "parsed", TotalsUnread PROVE PointsAreCountedOnce
    BY DEF PointsAreCountedOnce
  <2> DEFINE periods == game.periods
  <2>1. periods = MergeLineups(ParseScores)
    BY DEF ParsedInv
  <2> HIDE DEF periods
  <2>2. \A s \in Sides : PeriodsScore(periods, s) <= Official(s)
    BY <2>1, CreditIsEarned
  <2>3. ASSUME NEW pi \in DOMAIN periods, NEW k \in DOMAIN periods[pi].jams, NEW l \in DOMAIN periods[pi].jams, k < l
        PROVE  periods[pi].jams[k].number < periods[pi].jams[l].number
    <3>1. PICK p \in 1..2 : \E start :
            IsSheet(start, played[p], score[p], lineups[p]) /\ IsRead(periods[pi], p, start)
      BY <2>1, ParsedPeriods
    <3>2. PICK start : IsSheet(start, played[p], score[p], lineups[p]) /\ IsRead(periods[pi], p, start)
      BY <3>1
    <3> DEFINE a == periods[pi].jams[k].number
               b == periods[pi].jams[l].number
               rows == score[p]
               n == Len(played[p])
    <3>3. a \in 1..n /\ b \in 1..n /\ start[b] >= RowAfter(rows, start[a])
      BY <2>3, <3>2 DEF IsRead
    <3>4. n \in Nat /\ Len(rows) \in Nat /\ DOMAIN rows = 1..Len(rows) /\ start[a] \in 1..Len(rows)
          /\ start[b] \in 1..Len(rows)
      <4>1. IsSheet(start, played[p], rows, lineups[p])
        BY <3>2
      <4>2. a \in 1..Len(played[p]) /\ b \in 1..Len(played[p])
        BY <3>3
      <4> HIDE DEF a, b, rows
      <4>3. /\ Len(played[p]) \in Nat /\ Len(rows) \in Nat /\ DOMAIN rows = 1..Len(rows)
            /\ \A m \in 1..Len(played[p]) : start[m] \in 1..Len(rows)
        BY <4>1, SheetTypes
      <4>4. QED
        BY <4>2, <4>3
    <3>5. RowAfter(rows, start[a]) \in start[a] + 1..Len(rows) + 1
      <4> HIDE DEF rows, a, b
      <4> QED BY <3>4, RowAfterIsBelow
    <3>6. \A i, j \in 1..n + 1 : i < j => start[i] < start[j]
      BY <3>2, StartsAreOrdered
    <3> HIDE DEF a, b, rows, n
    <3>7. start[a] < start[b]
      BY <3>3, <3>4, <3>5
    <3>8. a \in 1..n + 1 /\ b \in 1..n + 1
      BY <3>3, <3>4
    <3>9. ~(b < a) /\ a # b
      BY <3>4, <3>6, <3>7, <3>8
    <3>10. a < b
      BY <3>3, <3>4, <3>9
    <3>11. QED
      BY <3>10 DEF a, b
  <2>4. QED
    BY <2>2, <2>3 DEF PointsAreCountedOnce, periods
<1>2. QED
  BY <1>1, BookInvariant, ParsedInvariant, PTL

-----------------------------------------------------------------------------
(* The result *)

\* What the totals of IGRF were saved as: none, or each as it was before the game
\* or as it is.
CachedInv ==
  stage \in {"saved", "parsed"} =>
    \/ \A s \in Sides : cached.score[s] = <<>>
    \/ \A s \in Sides : cached.score[s] \in {<<0>>, <<Official(s)>>}

\* The totals saved stay what they were saved as.
LEMMA CachedInvariant == Spec => []CachedInv
<1>1. Init => CachedInv
  BY DEF Init, CachedInv
<1>2. CachedInv /\ [Next]_vars => CachedInv'
  <2> SUFFICES ASSUME CachedInv, [Next]_vars PROVE CachedInv'
    OBVIOUS
  <2>1. played' = played => \A s : Official(s)' = Official(s)
    BY DEF Official, Moments, MapThenSumSet, MapThenFoldSet
  <2>2. ASSUME NEW calculated \in BOOLEAN, NEW staleScores \in SUBSET Sides, NEW staleSummary, NEW totals,
               Save(calculated, staleScores, staleSummary, totals)
        PROVE  CachedInv'
    <3>1. /\ played' = played
          /\ \A s \in Sides : cached'.score[s] = IF ~calculated THEN <<>>
                                                  ELSE IF s \in staleScores THEN <<0>> ELSE <<Official(s)>>
      BY <2>2 DEF Save
    <3>2. QED
      BY <2>1, <3>1 DEF CachedInv
  <2>3. CASE Parse
    <3>1. played' = played /\ cached' = cached /\ stage = "saved"
      BY <2>3 DEF Parse
    <3>2. QED
      BY <2>1, <3>1 DEF CachedInv
  <2>4. CASE UNCHANGED vars
    <3>1. played' = played /\ cached' = cached /\ stage' = stage
      BY <2>4 DEF vars
    <3>2. QED
      BY <2>1, <3>1 DEF CachedInv
  <2>5. CASE stage' = "open"
    BY <2>5 DEF CachedInv
  <2>6. \A p, play, numberIs, lineupIs, otherSide : PlayJam(p, play, numberIs, lineupIs, otherSide) => stage' = "open"
    BY DEF PlayJam
  <2>7. \A p, s, i : GivePenalty(p, s, i) => stage' = "open"
    BY DEF GivePenalty
  <2>8. \A day, form, short, inName : WriteDate(day, form, short, inName) => stage' = "open"
    BY DEF WriteDate
  <2>9. QED
    BY <2>2, <2>3, <2>4, <2>5, <2>6, <2>7, <2>8 DEF Next
<1>3. QED
  BY <1>1, <1>2, PTL DEF Spec

\* With numbers on Score a side is credited with all it made.
LEMMA NumberedCreditIsWhole ==
  ASSUME BookInv, TotalsUnread, NumbersOnScore, NEW periods, periods = MergeLineups(ParseScores), NEW s \in Sides
  PROVE  PeriodsScore(periods, s) = Official(s)
<1> DEFINE B == JamIndex(periods)
           f == MadeIn(s)
           g == Credited(periods, s)
           part == [y \in Moments |-> {x \in B : periods[x[1]].number = y[1] /\ x[2] = y[2]}]
<1>1. /\ \A x \in B : SideIn(periods, x, s).points \in Nat
      /\ PeriodsScore(periods, s) <= Official(s)
      /\ PeriodsScore(periods, s) \in Nat /\ Official(s) \in Nat
  BY CreditIsEarned
<1>2. IsFiniteSet(B) /\ IsFiniteSet(Moments) /\ \A y \in Moments : f[y] \in Nat
  BY JamIndexIs, MomentsAre
<1>3. \A x \in B : g[x] = SideIn(periods, x, s).points /\ g[x] \in Nat
  BY <1>1 DEF Credited
<1>4. part \in [Moments -> SUBSET B]
      /\ \A y \in Moments : part[y] = {x \in B : periods[x[1]].number = y[1] /\ x[2] = y[2]}
  OBVIOUS
<1> HIDE DEF B, f, g, part
<1>5. ASSUME NEW y \in Moments PROVE f[y] <= SumOf(g, part[y])
  <2>1. PICK p \in 1..2 : \E k \in 1..Len(played[p]) : y = <<p, k>>
    BY MomentsAre
  <2>2. PICK k \in 1..Len(played[p]) : y = <<p, k>>
    BY <2>1
  <2>3. Len(played[p]) \in Nat /\ DOMAIN played[p] = 1..Len(played[p])
    <3>1. PICK start : IsSheet(start, played[p], score[p], lineups[p])
      BY SheetOf
    <3>2. QED
      BY <3>1, SheetTypes
  <2>4. played[p] # <<>>
    <3>1. Len(<<>>) = 0
      BY EmptySeq
    <3>2. QED
      BY <2>2, <2>3, <3>1
  <2>5. PICK pi \in DOMAIN ParseScores : ParseScores[pi].number = p
    <3>1. p \in {q \in 1..2 : played[q] # <<>>}
      BY <2>4
    <3>2. p \in {ParseScores[qi].number : qi \in DOMAIN ParseScores}
      BY <3>1, PeriodsAreRead
    <3>3. QED
      BY <3>2
  <2>6. ParseScores[pi] = [number |-> p, jams |-> ReadJams(score[p])] /\ (pi = p \/ (pi = 1 /\ p = 2 /\ played[1] = <<>>))
    <3>1. PICK q \in 1..2 : /\ ParseScores[pi] = [number |-> q, jams |-> ReadJams(score[q])]
                            /\ pi = q \/ (pi = 1 /\ q = 2 /\ played[1] = <<>>)
      BY PeriodsAreRead
    <3>2. q = p
      BY <2>5, <3>1
    <3>3. QED
      BY <3>1, <3>2
  <2>7. ReadBack(periods[pi], p, pi)
    BY <2>6, PeriodIsReadBack
  <2>8. periods[pi].number = p /\ periods[pi].jams[k].side[s].points = PointsOf(played[p][k], s)
    <3>1. AsPlayed(periods[pi].jams[k].side[s], played[p][k][s]) /\ periods[pi].number = p
      BY <2>2, <2>3, <2>7 DEF ReadBack
    <3>2. QED
      BY <3>1 DEF AsPlayed, PointsOf
  <2>9. pi \in DOMAIN periods /\ k \in DOMAIN periods[pi].jams
    <3>1. DOMAIN periods = DOMAIN ParseScores
      BY DEF MergeLineups
    <3>2. DOMAIN periods[pi].jams = 1..Len(played[p])
      <4>1. PICK start : IsSheet(start, played[p], score[p], lineups[p])
        BY SheetOf
      <4>2. Numbered(score[p])
        BY NumbersAreOnSheets
      <4>3. DOMAIN ReadJams(score[p]) = 1..Len(played[p])
        BY <4>1, <4>2, NumberedJamsAreRead
      <4>4. DOMAIN periods[pi].jams = DOMAIN ReadJams(score[p])
        <5> DEFINE jams == ReadJams(score[p])
        <5>1. ParseScores[pi] = [number |-> p, jams |-> jams]
          BY <2>6
        <5> HIDE DEF jams
        <5>2. periods[pi] = [number |-> p, jams |-> [j \in DOMAIN jams |->
                               WithLineups(jams[j], lineups[pi], LineupRows(lineups[pi], Len(jams))[j])]]
          BY <5>1, MergedPeriod
        <5>3. DOMAIN periods[pi].jams = DOMAIN jams
          BY <5>2
        <5>4. QED
          BY <5>3 DEF jams
      <4>5. QED
        BY <4>3, <4>4
    <3>3. QED
      BY <2>2, <3>1, <3>2
  <2>10. <<pi, k>> \in B
    BY <2>9, JamIndexIs DEF B
  <2>11. <<pi, k>> \in part[y]
    BY <1>4, <2>2, <2>8, <2>10
  <2>12. g[<<pi, k>>] = PointsOf(played[p][k], s)
    BY <1>3, <2>8, <2>10 DEF SideIn
  <2>13. f[y] = PointsOf(played[p][k], s)
    BY <2>2 DEF f, MadeIn
  <2>14. \A x \in part[y] : g[x] <= SumOf(g, part[y])
    BY <1>2, <1>3, <1>4, SumAtLeast
  <2>15. QED
    BY <2>11, <2>12, <2>13, <2>14
<1>6. \A y, z \in Moments : y # z => part[y] \cap part[z] = {}
  <2> SUFFICES ASSUME NEW y \in Moments, NEW z \in Moments, NEW x \in part[y], x \in part[z] PROVE y = z
    OBVIOUS
  <2>1. y[1] = z[1] /\ y[2] = z[2]
    BY <1>4
  <2>2. \A v \in Moments : v = <<v[1], v[2]>>
    <3> SUFFICES ASSUME NEW v \in Moments PROVE v = <<v[1], v[2]>>
      OBVIOUS
    <3>1. PICK p \in 1..2 : \E k \in 1..Len(played[p]) : v = <<p, k>>
      BY MomentsAre
    <3>2. QED
      BY <3>1
  <2>3. QED
    BY <2>1, <2>2
<1>7. SumOf(f, Moments) <= SumOf(g, B)
  BY <1>2, <1>3, <1>4, <1>5, <1>6, SumOfParts
<1>8. PeriodsScore(periods, s) = SumOf(g, B) /\ Official(s) = SumOf(f, Moments)
  BY <1>1, <1>2, PeriodsScoreAsSum, OfficialAsSum DEF B, f, g
<1>9. QED
  BY <1>1, <1>7, <1>8

\* For every game, whichever totals it was saved without: the result read is the
\* official one if the jams can be read or every total was saved, and no game
\* with a jam or a score that can be read passes for an unfilled placeholder.
THEOREM OfficialResultIsKept == Spec => []ResultIsKept
<1>1. BookInv /\ ParsedInv /\ CachedInv => ResultIsKept
  <2> SUFFICES ASSUME BookInv, ParsedInv, CachedInv, stage = "parsed", TotalsUnread PROVE ResultIsKept
    BY DEF ResultIsKept
  <2> DEFINE periods == game.periods
  <2>1. periods = MergeLineups(ParseScores) /\ \A s \in Sides : game.score[s] = Score(periods, s)
    BY DEF ParsedInv
  <2>2. \A s \in Sides : PeriodsScore(periods, s) \in Nat /\ Official(s) \in Nat
                         /\ PeriodsScore(periods, s) <= Official(s)
    <3> HIDE DEF periods
    <3> QED BY <2>1, CreditIsEarned
  <2>3. NumbersOnScore => \A s \in Sides : PeriodsScore(periods, s) = Official(s)
    <3> HIDE DEF periods
    <3> QED BY <2>1, NumberedCreditIsWhole
  <2>4. \/ \A s \in Sides : cached.score[s] = <<>>
        \/ \A s \in Sides : cached.score[s] \in {<<0>>, <<Official(s)>>}
    BY DEF CachedInv
  <2>5. \A v : <<v>> # <<>> /\ <<v>>[1] = v
    OBVIOUS
  <2>6. ASSUME NEW s \in Sides, cached.score[s] # <<>>
        PROVE  HasIgrfScores /\ cached.score[s] \in {<<0>>, <<Official(s)>>}
    BY <2>4, <2>5, <2>6 DEF HasIgrfScores
  <2>7. ASSUME NEW s \in Sides, NumbersOnScore \/ cached.score[s] = <<Official(s)>>
        PROVE  Score(periods, s) = Official(s)
    <3>1. CASE cached.score[s] = <<>>
      <4>1. ~HasIgrfScores /\ PeriodsScore(periods, s) = Official(s)
        BY <2>3, <2>5, <2>7, <3>1 DEF HasIgrfScores
      <4>2. QED
        BY <4>1 DEF Score
    <3>2. CASE cached.score[s] = <<Official(s)>>
      <4>1. HasIgrfScores /\ cached.score[s][1] = Official(s)
        BY <2>5, <2>6, <3>2
      <4>2. Official(s) = 0 => ~(PeriodsScore(periods, s) > 0)
        BY <2>2
      <4>3. QED
        BY <4>1, <4>2 DEF Score
    <3>3. CASE cached.score[s] = <<0>> /\ NumbersOnScore
      <4>1. HasIgrfScores /\ cached.score[s][1] = 0 /\ PeriodsScore(periods, s) = Official(s)
        BY <2>3, <2>5, <2>6, <3>3
      <4>2. ~(PeriodsScore(periods, s) > 0) => Official(s) = 0
        BY <2>2, <4>1
      <4>3. QED
        BY <4>1, <4>2 DEF Score
    <3>4. QED
      BY <2>6, <2>7, <3>1, <3>2, <3>3
  <2>8. NumbersOnScore \/ (\A s \in Sides : cached.score[s] = <<Official(s)>>)
          => \A s \in Sides : game.score[s] = Official(s)
    BY <2>1, <2>7
  <2>9. ASSUME game.periods = <<>>, NumbersOnScore PROVE JamsPlayed = 0
    <3>1. {ParseScores[pi].number : pi \in DOMAIN ParseScores} = {p \in 1..2 : played[p] # <<>>}
      BY <2>9, PeriodsAreRead
    <3>2. DOMAIN ParseScores = {}
      BY <2>1, <2>9 DEF MergeLineups
    <3>3. played[1] = <<>> /\ played[2] = <<>>
      BY <3>1, <3>2
    <3>4. QED
      BY <3>3, EmptySeq DEF JamsPlayed
  <2>10. ASSUME NEW s \in Sides, game.score[s] = 0
         PROVE  cached.score[s] \in {<<>>, <<0>>} \/ Official(s) = 0
    <3> SUFFICES ASSUME cached.score[s] = <<Official(s)>> PROVE Official(s) = 0
      BY <2>6
    <3>1. QED
      BY <2>1, <2>7, <2>10
  <2>11. QED
    BY <2>8, <2>9, <2>10 DEF ResultIsKept, HasNoGameData
<1>2. QED
  BY <1>1, BookInvariant, ParsedInvariant, CachedInvariant, PTL

-----------------------------------------------------------------------------
(* The roster *)

\* The roster stays one of the rosters.
LEMMA RosterInvariant == Spec => [](roster \in Rosters)
<1>1. Init => roster \in Rosters
  BY DEF Init
<1>2. roster \in Rosters /\ [Next]_vars => (roster \in Rosters)'
  <2> SUFFICES ASSUME [Next]_vars PROVE roster' = roster
    OBVIOUS
  <2>1. CASE UNCHANGED vars
    BY <2>1 DEF vars, book
  <2>2. CASE Parse
    BY <2>2 DEF Parse, book
  <2>3. \A p, play, numberIs, lineupIs, otherSide : PlayJam(p, play, numberIs, lineupIs, otherSide) => roster' = roster
    BY DEF PlayJam
  <2>4. \A p, s, i : GivePenalty(p, s, i) => roster' = roster
    BY DEF GivePenalty
  <2>5. \A day, form, short, inName : WriteDate(day, form, short, inName) => roster' = roster
    BY DEF WriteDate
  <2>6. \A calculated, staleScores, staleSummary, totals : Save(calculated, staleScores, staleSummary, totals) => roster' = roster
    BY DEF Save, book
  <2>7. QED
    BY <2>1, <2>2, <2>3, <2>4, <2>5, <2>6 DEF Next
<1>3. QED
  BY <1>1, <1>2, PTL DEF Spec

\* The skaters kept of the first i rows, if h holds those of fewer.
TeamUpTo(h, s, players, i) ==
  IF i = 0 THEN <<>>
  ELSE IF IsKept(s, players, i) THEN Append(h[i - 1], Number(roster[s][i])) ELSE h[i - 1]

\* There is a table of the skaters kept of n rows.
LEMMA TeamsExist ==
  ASSUME NEW s, NEW players
  PROVE  \A n \in Nat : \E h : h = [i \in 0..n |-> TeamUpTo(h, s, players, i)]
<1> DEFINE Good == {n \in Nat : \E h : h = [i \in 0..n |-> TeamUpTo(h, s, players, i)]}
<1>1. 0 \in Good
  <2> DEFINE h == [i \in 0..0 |-> <<>>]
  <2>1. h = [i \in 0..0 |-> TeamUpTo(h, s, players, i)]
    BY DEF TeamUpTo
  <2> HIDE DEF h
  <2>2. QED
    BY <2>1
<1>2. ASSUME NEW n \in Nat, n \in Good PROVE n + 1 \in Good
  <2>1. PICK h : h = [i \in 0..n |-> TeamUpTo(h, s, players, i)]
    BY <1>2
  <2> DEFINE was(i) == TeamUpTo(h, s, players, i)
  <2>2. h = [i \in 0..n |-> was(i)]
    BY <2>1
  <2> HIDE DEF was
  <2>3. \A i \in 0..n : h[i] = was(i)
    BY <2>2
  <2> DEFINE new == [i \in 0..n + 1 |-> IF i = n + 1 THEN TeamUpTo(h, s, players, n + 1) ELSE h[i]]
  <2>4. \A i \in 0..n + 1 : new[i] = IF i = n + 1 THEN TeamUpTo(h, s, players, n + 1) ELSE h[i]
    OBVIOUS
  <2>5. new = [i \in 0..n + 1 |-> new[i]]
    OBVIOUS
  <2> HIDE DEF new
  <2>6. ASSUME NEW i \in 0..n + 1 PROVE new[i] = TeamUpTo(new, s, players, i)
    <3>1. i # 0 => new[i - 1] = h[i - 1]
      <4>1. i # 0 => i - 1 \in 0..n + 1 /\ i - 1 # n + 1
        OBVIOUS
      <4>2. QED
        BY <2>4, <4>1
    <3>2. TeamUpTo(new, s, players, i) = TeamUpTo(h, s, players, i)
      BY <3>1 DEF TeamUpTo
    <3>3. i # n + 1 => i \in 0..n
      OBVIOUS
    <3>4. QED
      BY <2>3, <2>4, <3>2, <3>3 DEF was
  <2>7. new = [i \in 0..n + 1 |-> TeamUpTo(new, s, players, i)]
    BY <2>5, <2>6
  <2>8. QED
    BY <2>7
<1>3. QED
  <2> HIDE DEF Good
  <2>1. Nat \subseteq Good
    BY <1>1, <1>2, NatSetInduction
  <2>2. QED
    BY <2>1 DEF Good

\* The team that is parsed is the last entry of such a table.
LEMMA ParseTeamIs ==
  ASSUME NEW s, NEW players, Len(roster[s]) \in Nat
  PROVE  \E h : /\ ParseTeam(s, players) = h[Len(roster[s])]
                /\ \A i \in 0..Len(roster[s]) : h[i] = TeamUpTo(h, s, players, i)
<1> DEFINE n == Len(roster[s])
           IsTeam(h) == h = [i \in 0..n |-> IF i = 0 THEN <<>>
                                            ELSE IF IsKept(s, players, i) THEN Append(h[i - 1], Number(roster[s][i]))
                                            ELSE h[i - 1]]
           team == CHOOSE h : IsTeam(h)
<1>1. ParseTeam(s, players) = team[n]
  BY DEF ParseTeam
<1>2. \A h : IsTeam(h) <=> h = [i \in 0..n |-> TeamUpTo(h, s, players, i)]
  BY DEF TeamUpTo
<1> HIDE DEF IsTeam
<1>3. \E h : IsTeam(h)
  <2>1. \E h : h = [i \in 0..n |-> TeamUpTo(h, s, players, i)]
    <3>1. n \in Nat
      OBVIOUS
    <3> HIDE DEF n
    <3>2. QED
      BY <3>1, TeamsExist
  <2>2. QED
    BY <1>2, <2>1
<1>4. IsTeam(team)
  BY <1>3, Zenon
<1> HIDE DEF team
<1>5. team = [i \in 0..n |-> TeamUpTo(team, s, players, i)]
  BY <1>2, <1>4
<1> DEFINE body(i) == TeamUpTo(team, s, players, i)
<1>6. team = [i \in 0..n |-> body(i)]
  BY <1>5
<1> HIDE DEF body
<1>7. \A i \in 0..n : team[i] = body(i)
  BY <1>6
<1>8. \A i \in 0..n : team[i] = TeamUpTo(team, s, players, i)
  BY <1>7 DEF body
<1>9. QED
  BY <1>1, <1>8

\* What is kept of the first m rows: each number of a row kept, and no number twice.
IsTeamOf(t, s, players, m) ==
  /\ t \in Seq(Cells)
  /\ \A i \in 1..m : IsKept(s, players, i) => \E k \in 1..Len(t) : t[k] = Number(roster[s][i])
  /\ \A k \in 1..Len(t) : \E i \in 1..m : IsKept(s, players, i) /\ t[k] = Number(roster[s][i])
  /\ \A k, l \in 1..Len(t) : t[k] = t[l] => k = l

\* A row that is kept adds its number.
LEMMA KeptRowIsAdded ==
  ASSUME NEW s \in Sides, NEW players, NEW m \in Nat, NEW t, IsTeamOf(t, s, players, m),
         IsKept(s, players, m + 1), Number(roster[s][m + 1]) \in Cells
  PROVE  IsTeamOf(Append(t, Number(roster[s][m + 1])), s, players, m + 1)
<1> DEFINE new == Append(t, Number(roster[s][m + 1]))
           L == Len(t)
<1>1. /\ t \in Seq(Cells)
      /\ \A i \in 1..m : IsKept(s, players, i) => \E k \in 1..L : t[k] = Number(roster[s][i])
      /\ \A k \in 1..L : \E i \in 1..m : IsKept(s, players, i) /\ t[k] = Number(roster[s][i])
      /\ \A k, l \in 1..L : t[k] = t[l] => k = l
  BY DEF IsTeamOf
<1>2. /\ new \in Seq(Cells) /\ Len(new) = L + 1 /\ L \in Nat
      /\ \A k \in 1..L : new[k] = t[k]
      /\ new[L + 1] = Number(roster[s][m + 1])
  <2>1. t \in Seq(Cells) /\ L \in Nat
    BY <1>1, LenProperties
  <2>2. QED
    BY <2>1, AppendProperties
<1>3. \A j \in 1..m : Number(roster[s][j]) # Number(roster[s][m + 1])
  <2>1. \A j \in 1..(m + 1) - 1 : Number(roster[s][j]) # Number(roster[s][m + 1])
    BY DEF IsKept
  <2>2. (m + 1) - 1 = m
    OBVIOUS
  <2>3. QED
    BY <2>1, <2>2
<1> HIDE DEF new, L
<1>4. \A k \in 1..L : new[k] # new[L + 1]
  <2> SUFFICES ASSUME NEW k \in 1..L PROVE new[k] # new[L + 1]
    OBVIOUS
  <2>1. PICK i \in 1..m : t[k] = Number(roster[s][i])
    BY <1>1
  <2>2. QED
    BY <1>2, <1>3, <2>1
<1>5. ASSUME NEW i \in 1..m + 1, IsKept(s, players, i) PROVE \E k \in 1..L + 1 : new[k] = Number(roster[s][i])
  <2>1. CASE i = m + 1
    <3>1. L + 1 \in 1..L + 1
      BY <1>2
    <3>2. QED
      BY <1>2, <2>1, <3>1
  <2>2. CASE i # m + 1
    <3>1. i \in 1..m
      BY <2>2
    <3>2. PICK k \in 1..L : t[k] = Number(roster[s][i])
      BY <1>1, <1>5, <3>1
    <3>3. k \in 1..L + 1
      BY <1>2
    <3>4. QED
      BY <1>2, <3>2, <3>3
  <2>3. QED
    BY <2>1, <2>2
<1>6. ASSUME NEW k \in 1..L + 1 PROVE \E i \in 1..m + 1 : IsKept(s, players, i) /\ new[k] = Number(roster[s][i])
  <2>1. CASE k = L + 1
    <3>1. m + 1 \in 1..m + 1
      OBVIOUS
    <3>2. QED
      BY <1>2, <2>1, <3>1
  <2>2. CASE k # L + 1
    <3>1. k \in 1..L
      BY <1>2, <2>2
    <3>2. PICK i \in 1..m : IsKept(s, players, i) /\ t[k] = Number(roster[s][i])
      BY <1>1, <3>1
    <3>3. i \in 1..m + 1
      OBVIOUS
    <3>4. QED
      BY <1>2, <3>1, <3>2, <3>3
  <2>3. QED
    BY <2>1, <2>2
<1>7. ASSUME NEW k \in 1..L + 1, NEW l \in 1..L + 1, new[k] = new[l] PROVE k = l
  <2>1. k \in 1..L \/ k = L + 1
    BY <1>2
  <2>2. l \in 1..L \/ l = L + 1
    BY <1>2
  <2>3. CASE k \in 1..L /\ l \in 1..L
    BY <1>1, <1>2, <1>7, <2>3
  <2>4. QED
    BY <1>4, <1>7, <2>1, <2>2, <2>3
<1>8. IsTeamOf(new, s, players, m + 1)
  BY <1>2, <1>5, <1>6, <1>7 DEF IsTeamOf
<1>9. QED
  BY <1>8 DEF new

\* A row that is not kept changes nothing.
LEMMA OtherRowIsNot ==
  ASSUME NEW s, NEW players, NEW m \in Nat, NEW t, IsTeamOf(t, s, players, m), ~IsKept(s, players, m + 1)
  PROVE  IsTeamOf(t, s, players, m + 1)
<1>1. \A i \in 1..m + 1 : IsKept(s, players, i) => i \in 1..m
  <2>1. \A i \in 1..m + 1 : i \in 1..m \/ i = m + 1
    OBVIOUS
  <2>2. QED
    BY <2>1
<1>2. \A i \in 1..m : i \in 1..m + 1
  OBVIOUS
<1>3. QED
  BY <1>1, <1>2 DEF IsTeamOf

\* The team has the numbers of the rows above the first blank one that are of
\* skaters in jams, each once.
LEMMA TeamIsOfThoseListed ==
  ASSUME roster \in Rosters, NEW s \in Sides, NEW players
  PROVE  LET team == ParseTeam(s, players)
         IN  /\ {team[k] : k \in DOMAIN team} = {Number(roster[s][i]) : i \in Listed(s)} \cap players
             /\ Cardinality({team[k] : k \in DOMAIN team}) = Len(team)
<1> DEFINE n == Len(roster[s])
           team == ParseTeam(s, players)
<1>1. roster[s] \in Seq(Cells)
  <2>1. Rosters \subseteq [Sides -> Seq(Cells)]
    BY ParserAssumption
  <2>2. QED
    BY <2>1
<1>2. n \in Nat /\ DOMAIN roster[s] = 1..n
  BY <1>1, LenProperties
<1>3. PICK h : team = h[n] /\ \A i \in 0..n : h[i] = TeamUpTo(h, s, players, i)
  BY <1>2, ParseTeamIs
<1> HIDE DEF n
<1>4. \A i \in Listed(s) : i \in 1..n /\ Number(roster[s][i]) \in Cells
  <2> SUFFICES ASSUME NEW i \in Listed(s) PROVE i \in 1..n /\ Number(roster[s][i]) \in Cells
    OBVIOUS
  <2>1. i \in 1..n /\ \A j \in 1..i : roster[s][j] # Blank
    BY <1>2 DEF Listed
  <2>2. roster[s][i] \in Cells /\ roster[s][i] # Blank
    <3>1. i \in 1..i
      BY <1>2, <2>1
    <3>2. roster[s][i] \in Cells
      BY <1>1, <1>2, <2>1 DEF n
    <3>3. QED
      BY <2>1, <3>1, <3>2
  <2>3. PICK x \in Nat, star \in BOOLEAN : roster[s][i] = <<x, star>>
    BY <2>2 DEF Cells
  <2>4. Number(roster[s][i]) = <<x, FALSE>>
    BY <2>3 DEF Number
  <2>5. <<x, FALSE>> \in Nat \X BOOLEAN
    BY <2>3
  <2>6. Number(roster[s][i]) \in Cells
    BY <2>4, <2>5 DEF Cells
  <2>7. QED
    BY <2>1, <2>6
<1> DEFINE Good == {m \in Nat : m <= n => IsTeamOf(h[m], s, players, m)}
<1>5. 0 \in Good
  <2>1. h[0] = <<>>
    BY <1>2, <1>3 DEF TeamUpTo
  <2>2. <<>> \in Seq(Cells) /\ Len(<<>>) = 0
    OBVIOUS
  <2>3. IsTeamOf(<<>>, s, players, 0)
    BY <2>2 DEF IsTeamOf
  <2>4. QED
    BY <2>1, <2>3
<1>6. ASSUME NEW m \in Nat, m \in Good PROVE m + 1 \in Good
  <2> SUFFICES ASSUME m + 1 <= n PROVE IsTeamOf(h[m + 1], s, players, m + 1)
    OBVIOUS
  <2>1. m <= n /\ m + 1 \in 0..n /\ m + 1 # 0 /\ m + 1 - 1 = m
    BY <1>2
  <2>2. IsTeamOf(h[m], s, players, m)
    BY <1>6, <2>1
  <2>3. h[m + 1] = IF IsKept(s, players, m + 1) THEN Append(h[m], Number(roster[s][m + 1])) ELSE h[m]
    BY <1>3, <2>1 DEF TeamUpTo
  <2>4. CASE IsKept(s, players, m + 1)
    <3>1. Number(roster[s][m + 1]) \in Cells
      BY <1>4, <2>4 DEF IsKept
    <3>2. IsTeamOf(Append(h[m], Number(roster[s][m + 1])), s, players, m + 1)
      BY <2>2, <2>4, <3>1, KeptRowIsAdded
    <3>3. QED
      BY <2>3, <2>4, <3>2
  <2>5. CASE ~IsKept(s, players, m + 1)
    BY <2>2, <2>3, <2>5, OtherRowIsNot
  <2>6. QED
    BY <2>4, <2>5
<1>7. IsTeamOf(team, s, players, n)
  <2> HIDE DEF Good, team
  <2>1. Nat \subseteq Good
    BY <1>5, <1>6, NatSetInduction
  <2>2. n \in Good
    BY <1>2, <2>1
  <2>3. QED
    BY <1>2, <1>3, <2>2 DEF Good
<1> HIDE DEF team, Good
<1> DEFINE T == {team[k] : k \in DOMAIN team}
           L == Len(team)
<1>8. L \in Nat /\ DOMAIN team = 1..L
  BY <1>7, LenProperties DEF IsTeamOf
<1>9. ASSUME NEW x \in T PROVE x \in {Number(roster[s][i]) : i \in Listed(s)} \cap players
  <2>1. PICK k \in 1..L : x = team[k]
    BY <1>8, <1>9
  <2>2. PICK i \in 1..n : IsKept(s, players, i) /\ team[k] = Number(roster[s][i])
    BY <1>7, <2>1 DEF IsTeamOf
  <2>3. i \in Listed(s) /\ Number(roster[s][i]) \in players
    BY <2>2 DEF IsKept
  <2>4. QED
    BY <2>1, <2>2, <2>3
<1>10. ASSUME NEW i \in Listed(s), Number(roster[s][i]) \in players PROVE Number(roster[s][i]) \in T
  <2> DEFINE Like == {j \in 1..i : Number(roster[s][j]) = Number(roster[s][i])}
             first == Min(Like)
  <2>1. i \in 1..n /\ \A j \in 1..i : roster[s][j] # Blank
    BY <1>2, <1>4 DEF Listed
  <2>2. i \in Like /\ Like \subseteq Nat
    BY <1>2, <2>1
  <2>3. first \in Like /\ \A j \in Like : first <= j
    <3> HIDE DEF Like
    <3> QED BY <2>2, MinOf
  <2>4. first \in 1..i /\ Number(roster[s][first]) = Number(roster[s][i])
    BY <2>3
  <2>5. \A j \in 1..first - 1 : Number(roster[s][j]) # Number(roster[s][first])
    <3> SUFFICES ASSUME NEW j \in 1..first - 1, Number(roster[s][j]) = Number(roster[s][first]) PROVE FALSE
      OBVIOUS
    <3>1. first \in 1..i /\ i \in Nat
      BY <1>2, <2>1, <2>4
    <3> HIDE DEF first
    <3>2. j \in 1..i /\ ~(first <= j)
      BY <3>1
    <3>3. j \in Like
      BY <2>4, <3>2
    <3>4. QED
      BY <2>3, <3>2, <3>3
  <2> HIDE DEF first, Like
  <2>6. first \in Listed(s)
    <3>1. first \in DOMAIN roster[s] /\ \A j \in 1..first : j \in 1..i
      BY <1>2, <2>1, <2>4
    <3>2. QED
      BY <2>1, <3>1 DEF Listed
  <2>7. IsKept(s, players, first) /\ first \in 1..n
    BY <1>4, <1>10, <2>4, <2>5, <2>6 DEF IsKept
  <2>8. PICK k \in 1..L : team[k] = Number(roster[s][first])
    BY <1>7, <2>7 DEF IsTeamOf
  <2>9. QED
    BY <1>8, <2>4, <2>8
<1>11. T = {Number(roster[s][i]) : i \in Listed(s)} \cap players
  <2> HIDE DEF T
  <2> QED BY <1>9, <1>10
<1>12. Cardinality(T) = L
  <2>1. team \in [1..L -> T]
    <3>1. team \in Seq(Cells)
      BY <1>7 DEF IsTeamOf
    <3>2. team = [k \in 1..L |-> team[k]]
      BY <1>8, <3>1
    <3>3. QED
      BY <1>8, <3>2
  <2>2. \A k, l \in 1..L : team[k] = team[l] => k = l
    BY <1>7 DEF IsTeamOf
  <2>3. \A x \in T : \E k \in 1..L : team[k] = x
    BY <1>8
  <2> HIDE DEF T, L
  <2>4. team \in Bijection(1..L, T)
    BY <2>1, <2>2, <2>3 DEF Bijection, Injection, Surjection, IsInjective
  <2>5. ExistsBijection(1..L, T)
    BY <2>4 DEF ExistsBijection
  <2>6. QED
    BY <1>8, <2>5, FS_CountingElements
<1>13. QED
  BY <1>11, <1>12 DEF team

-----------------------------------------------------------------------------
(* What the game shows, and what was saved *)

\* Roster and summary of a parsed game are what the parser makes of the workbook.
ShownInv ==
  stage = "parsed" =>
    /\ game.roster = [s \in Sides |-> ParseTeam(s, PlayersInJams(game.periods, s))]
    /\ game.summary = GameSummary(game.periods)

\* What both are made of stays as it is once the workbook is saved.
LEMMA SourcesStay ==
  ASSUME UNCHANGED <<roster, score, lineups, played, cached>>
  PROVE  /\ \A s, players : ParseTeam(s, players)' = ParseTeam(s, players)
         /\ \A periods : GameSummary(periods)' = GameSummary(periods)
<1>1. ASSUME NEW s, NEW players PROVE ParseTeam(s, players)' = ParseTeam(s, players)
  <2>1. Listed(s)' = Listed(s)
    BY DEF Listed
  <2>2. \A i : IsKept(s, players, i)' = IsKept(s, players, i)
    BY <2>1 DEF IsKept
  <2>3. QED
    BY <2>2 DEF ParseTeam
<1>2. ASSUME NEW periods PROVE GameSummary(periods)' = GameSummary(periods)
  <2>1. \A s, cell : Count(periods, s, cell)' = Count(periods, s, cell)
                     /\ ShownPercentage(s, cell)' = ShownPercentage(s, cell)
    BY DEF Count, ShownPercentage
  <2>2. JamsPlayed' = JamsPlayed /\ \A s, cell : JamsOf(s, cell)' = JamsOf(s, cell)
    BY DEF JamsPlayed, JamsOf, Moments, OnTrack
  <2>3. \A s, cell : Evaluated(s, cell)' = Evaluated(s, cell)
    BY <2>2 DEF Evaluated
  <2>4. \A s : Rows(s)' = Rows(s)
    BY DEF Rows, NumberAt
  <2>5. CachedSummary(periods)' = CachedSummary(periods)
    BY <2>1, <2>4 DEF CachedSummary
  <2>6. EvaluatedSummary(periods)' = EvaluatedSummary(periods)
    BY <2>2, <2>3, <2>4 DEF EvaluatedSummary
  <2>7. HasTotals' = HasTotals
    BY DEF HasTotals
  <2>8. QED
    BY <2>5, <2>6, <2>7 DEF GameSummary
<1>3. QED
  BY <1>1, <1>2

\* What is shown stays what the parser makes of the workbook.
LEMMA ShownInvariant == Spec => []ShownInv
<1>1. Init => ShownInv
  BY DEF Init, ShownInv
<1>2. ShownInv /\ [Next]_vars => ShownInv'
  <2> SUFFICES ASSUME ShownInv, [Next]_vars PROVE ShownInv'
    OBVIOUS
  <2>1. CASE stage' # "parsed"
    BY <2>1 DEF ShownInv
  <2>2. CASE Parse
    <3> DEFINE periods == MergeLineups(ParseScores)
    <3>1. /\ UNCHANGED <<roster, score, lineups, played, cached>>
          /\ game'.periods = periods
          /\ game'.roster = [s \in Sides |-> ParseTeam(s, PlayersInJams(periods, s))]
          /\ game'.summary = GameSummary(periods)
      BY <2>2 DEF Parse, book
    <3> HIDE DEF periods
    <3>2. /\ \A s, players : ParseTeam(s, players)' = ParseTeam(s, players)
          /\ \A all : GameSummary(all)' = GameSummary(all)
      BY <3>1, SourcesStay
    <3>3. game'.roster = [s \in Sides |-> ParseTeam(s, PlayersInJams(game.periods, s))]'
      BY <3>1, <3>2
    <3>4. game'.summary = GameSummary(game.periods)'
      BY <3>1, <3>2
    <3>5. QED
      BY <3>3, <3>4 DEF ShownInv
  <2>3. CASE UNCHANGED vars
    <3>1. UNCHANGED <<roster, score, lineups, played, cached>> /\ stage' = stage /\ game' = game
      BY <2>3 DEF vars, book
    <3>2. /\ \A s, players : ParseTeam(s, players)' = ParseTeam(s, players)
          /\ \A all : GameSummary(all)' = GameSummary(all)
      BY <3>1, SourcesStay
    <3>3. [s \in Sides |-> ParseTeam(s, PlayersInJams(game.periods, s))]'
            = [s \in Sides |-> ParseTeam(s, PlayersInJams(game.periods, s))]
      BY <3>1, <3>2
    <3>4. GameSummary(game.periods)' = GameSummary(game.periods)
      BY <3>1, <3>2
    <3>5. QED
      BY <3>1, <3>3, <3>4 DEF ShownInv
  <2>4. \A p, play, numberIs, lineupIs, otherSide : PlayJam(p, play, numberIs, lineupIs, otherSide) => stage' # "parsed"
    BY DEF PlayJam
  <2>5. \A p, s, i : GivePenalty(p, s, i) => stage' # "parsed"
    BY DEF GivePenalty
  <2>6. \A day, form, short, inName : WriteDate(day, form, short, inName) => stage' # "parsed"
    BY DEF WriteDate
  <2>7. \A calculated, staleScores, staleSummary, totals : Save(calculated, staleScores, staleSummary, totals) => stage' # "parsed"
    BY DEF Save
  <2>8. QED
    BY <2>1, <2>2, <2>3, <2>4, <2>5, <2>6, <2>7 DEF Next
<1>3. QED
  BY <1>1, <1>2, PTL DEF Spec

\* What the counts of Game Summary were saved as: nothing, or each as it was
\* before the game or as it is.
CountsInv ==
  stage \in {"saved", "parsed"} =>
    \/ \A s \in Sides : cached.total[s] = <<>>
    \/ /\ \A s \in Sides : \A cell \in RosterCells(s) : cached.jams[s][cell] \in {<<0>>, <<JamsOf(s, cell)>>}
       /\ cached.jamCount \in {<<0>>, <<JamsPlayed>>}

\* The counts saved stay what they were saved as.
LEMMA CountsInvariant == Spec => []CountsInv
<1>1. Init => CountsInv
  BY DEF Init, CountsInv
<1>2. CountsInv /\ [Next]_vars => CountsInv'
  <2> SUFFICES ASSUME CountsInv, [Next]_vars PROVE CountsInv'
    OBVIOUS
  <2>1. ASSUME played' = played, roster' = roster
        PROVE  /\ JamsPlayed' = JamsPlayed
               /\ \A s : RosterCells(s)' = RosterCells(s) /\ \A cell : JamsOf(s, cell)' = JamsOf(s, cell)
    BY <2>1 DEF JamsPlayed, RosterCells, JamsOf, Moments, OnTrack
  <2>2. ASSUME NEW calculated \in BOOLEAN, NEW staleScores \in SUBSET Sides, NEW staleSummary, NEW totals,
               Save(calculated, staleScores, staleSummary, totals)
        PROVE  CountsInv'
    <3>1. /\ played' = played /\ roster' = roster
          /\ \A s \in Sides : ~calculated => cached'.total[s] = <<>>
          /\ calculated => cached'.jamCount \in {<<0>>, <<JamsPlayed>>}
          /\ \A s \in Sides : \A cell \in RosterCells(s) :
               calculated => cached'.jams[s][cell] \in {<<0>>, <<JamsOf(s, cell)>>}
      <4>1. played' = played /\ roster' = roster
        BY <2>2 DEF Save, book
      <4>2. \A s \in Sides : ~calculated => cached'.total[s] = <<>>
        BY <2>2 DEF Save
      <4>3. calculated => cached'.jamCount \in {<<0>>, <<JamsPlayed>>}
        BY <2>2 DEF Save
      <4>4. cached'.jams = [s \in Sides |-> [cell \in RosterCells(s) |->
                               IF ~calculated THEN <<>>
                               ELSE IF staleSummary = "counts" THEN <<0>> ELSE <<JamsOf(s, cell)>>]]
        BY <2>2 DEF Save
      <4>5. \A s \in Sides : \A cell \in RosterCells(s) :
              calculated => cached'.jams[s][cell] \in {<<0>>, <<JamsOf(s, cell)>>}
        BY <4>4
      <4>6. QED
        BY <4>1, <4>2, <4>3, <4>5
    <3>2. QED
      BY <2>1, <3>1 DEF CountsInv
  <2>3. CASE Parse
    <3>1. played' = played /\ roster' = roster /\ cached' = cached /\ stage = "saved"
      BY <2>3 DEF Parse, book
    <3>2. QED
      BY <2>1, <3>1 DEF CountsInv
  <2>4. CASE UNCHANGED vars
    <3>1. played' = played /\ roster' = roster /\ cached' = cached /\ stage' = stage
      BY <2>4 DEF vars, book
    <3>2. QED
      BY <2>1, <3>1 DEF CountsInv
  <2>5. CASE stage' = "open"
    BY <2>5 DEF CountsInv
  <2>6. \A p, play, numberIs, lineupIs, otherSide : PlayJam(p, play, numberIs, lineupIs, otherSide) => stage' = "open"
    BY DEF PlayJam
  <2>7. \A p, s, i : GivePenalty(p, s, i) => stage' = "open"
    BY DEF GivePenalty
  <2>8. \A day, form, short, inName : WriteDate(day, form, short, inName) => stage' = "open"
    BY DEF WriteDate
  <2>9. QED
    BY <2>2, <2>3, <2>4, <2>5, <2>6, <2>7, <2>8 DEF Next
<1>3. QED
  BY <1>1, <1>2, PTL DEF Spec

-----------------------------------------------------------------------------
(* Counts of jams *)

\* There are as many jams as were played in both periods.
LEMMA MomentsCount ==
  ASSUME BookInv
  PROVE  JamsPlayed \in Nat /\ Cardinality(Moments) = JamsPlayed
<1> DEFINE a == Len(played[1])
           b == Len(played[2])
           one == {1} \X (1..a)
           two == {2} \X (1..b)
<1>1. a \in Nat /\ b \in Nat
  <2>1. played[1] \in Seq(JamPlays) /\ played[2] \in Seq(JamPlays)
    BY DEF BookInv
  <2>2. QED
    BY <2>1, LenProperties
<1>2. JamsPlayed = a + b
  BY DEF JamsPlayed
<1>3. Moments = one \cup two
  <2>1. \A x \in Moments : \E p \in 1..2 : \E k \in 1..Len(played[p]) : x = <<p, k>>
    BY MomentsAre
  <2>2. \A p \in 1..2 : \A k \in 1..Len(played[p]) : <<p, k>> \in Moments
    BY MomentsAre
  <2>3. ASSUME NEW x \in Moments PROVE x \in one \cup two
    <3>1. PICK p \in 1..2 : \E k \in 1..Len(played[p]) : x = <<p, k>>
      BY <2>1
    <3>2. p = 1 \/ p = 2
      OBVIOUS
    <3>3. QED
      BY <3>1, <3>2
  <2>4. ASSUME NEW x \in one PROVE x \in Moments
    <3>1. PICK k \in 1..a : x = <<1, k>>
      OBVIOUS
    <3>2. 1 \in 1..2
      OBVIOUS
    <3>3. QED
      BY <2>2, <3>1, <3>2
  <2>5. ASSUME NEW x \in two PROVE x \in Moments
    <3>1. PICK k \in 1..b : x = <<2, k>>
      OBVIOUS
    <3>2. 2 \in 1..2
      OBVIOUS
    <3>3. QED
      BY <2>2, <3>1, <3>2
  <2> HIDE DEF one, two
  <2>6. QED
    BY <2>3, <2>4, <2>5
<1> HIDE DEF a, b
<1>4. \A n \in Nat : IsFiniteSet(1..n) /\ Cardinality(1..n) = n
  <2> SUFFICES ASSUME NEW n \in Nat PROVE IsFiniteSet(1..n) /\ Cardinality(1..n) = n
    OBVIOUS
  <2>1. 1 \in Int /\ n \in Int
    OBVIOUS
  <2>2. IsFiniteSet(1..n) /\ Cardinality(1..n) = IF 1 > n THEN 0 ELSE n - 1 + 1
    BY <2>1, FS_Interval
  <2>3. QED
    BY <2>2
<1>5. \A p, n : n \in Nat => IsFiniteSet({p} \X (1..n)) /\ Cardinality({p} \X (1..n)) = n
  <2> SUFFICES ASSUME NEW p, NEW n \in Nat
               PROVE  IsFiniteSet({p} \X (1..n)) /\ Cardinality({p} \X (1..n)) = n
    OBVIOUS
  <2>1. IsFiniteSet({p}) /\ Cardinality({p}) = 1
    BY FS_Singleton
  <2>2. IsFiniteSet({p} \X (1..n)) /\ Cardinality({p} \X (1..n)) = Cardinality({p}) * Cardinality(1..n)
    BY <1>4, <2>1, FS_Product
  <2>3. 1 * n = n
    OBVIOUS
  <2>4. QED
    BY <1>4, <2>1, <2>2, <2>3
<1>6. IsFiniteSet(one) /\ Cardinality(one) = a /\ IsFiniteSet(two) /\ Cardinality(two) = b
  BY <1>1, <1>5
<1>7. one \cap two = {}
  OBVIOUS
<1> HIDE DEF one, two
<1>8. Cardinality(one \cup two) = Cardinality(one) + Cardinality(two) - Cardinality(one \cap two)
  BY <1>6, FS_Union
<1>9. Cardinality(one \cap two) = 0
  BY <1>7, FS_EmptySet
<1>10. QED
  BY <1>1, <1>2, <1>3, <1>6, <1>8, <1>9

\* A skater has one place of five at most in a line-up.
LEMMA PlacedOnce ==
  ASSUME NEW play \in JamPlays, NEW s \in Sides
  PROVE  /\ \A entry \in Placed(play[s]) : entry = <<entry[1], entry[2]>> /\ entry[1] \in 1..5
         /\ \A i, j, cell : <<i, cell>> \in Placed(play[s]) /\ <<j, cell>> \in Placed(play[s]) => i = j
<1> DEFINE line == <<play[s].jammer>> \o play[s].others
           others == play[s].others
           n == Len(others)
           D == {i \in DOMAIN line : line[i] # Blank /\ ~line[i][2]}
<1>1. Placed(play[s]) = {<<i, line[i]>> : i \in D}
  BY DEF Placed
<1>2. /\ n \in Nat /\ DOMAIN others = 1..n /\ DOMAIN line = 1..n + 1 /\ line[1] = play[s].jammer
      /\ \A j \in 1..n : line[j + 1] = others[j]
  BY LineIs
<1>3. /\ n <= 4
      /\ \A k \in 1..n : others[k] # play[s].jammer
      /\ \A k, l \in 1..n : others[k] = others[l] => k = l \/ others[k] = Blank
  <2>1. play[s] \in Plays
    BY PlayTypes
  <2>2. QED
    BY <1>2, <2>1, ParserAssumption
<1> HIDE DEF line, others, n
<1>4. \A i \in D : i \in 1..n + 1 /\ line[i] # Blank
  BY <1>2
<1>5. ASSUME NEW i \in D, NEW j \in D, line[i] = line[j] PROVE i = j
  <2>1. i \in 1..n + 1 /\ j \in 1..n + 1 /\ line[i] # Blank
    BY <1>4, <1>5
  <2>2. \A k \in 1..n + 1 : k = 1 \/ (k - 1 \in 1..n /\ line[k] = others[k - 1])
    <3> SUFFICES ASSUME NEW k \in 1..n + 1, k # 1 PROVE k - 1 \in 1..n /\ line[k] = others[k - 1]
      OBVIOUS
    <3>1. k - 1 \in 1..n /\ k - 1 + 1 = k
      BY <1>2
    <3>2. QED
      BY <1>2, <3>1
  <2>3. CASE i = 1 /\ j = 1
    BY <2>3
  <2>4. CASE i = 1 /\ j # 1
    BY <1>2, <1>3, <1>5, <2>1, <2>2, <2>4
  <2>5. CASE i # 1 /\ j = 1
    BY <1>2, <1>3, <1>5, <2>1, <2>2, <2>5
  <2>6. CASE i # 1 /\ j # 1
    <3>1. /\ i - 1 \in 1..n /\ line[i] = others[i - 1] /\ j - 1 \in 1..n /\ line[j] = others[j - 1]
      BY <2>1, <2>2, <2>6
    <3>2. i - 1 = j - 1
      BY <1>3, <1>5, <2>1, <3>1
    <3>3. QED
      BY <1>2, <2>1, <3>2
  <2>7. QED
    BY <2>3, <2>4, <2>5, <2>6
<1>6. \A i \in D : i \in 1..5
  BY <1>2, <1>3, <1>4
<1> HIDE DEF D
<1>7. \A entry \in Placed(play[s]) : \E i \in D : entry = <<i, line[i]>>
  BY <1>1
<1>8. ASSUME NEW entry \in Placed(play[s]) PROVE entry = <<entry[1], entry[2]>> /\ entry[1] \in 1..5
  <2>1. PICK i \in D : entry = <<i, line[i]>>
    BY <1>7
  <2>2. QED
    BY <1>6, <2>1
<1>9. ASSUME NEW i, NEW j, NEW cell, <<i, cell>> \in Placed(play[s]), <<j, cell>> \in Placed(play[s]) PROVE i = j
  <2>1. PICK k \in D : <<i, cell>> = <<k, line[k]>>
    BY <1>7, <1>9
  <2>2. PICK l \in D : <<j, cell>> = <<l, line[l]>>
    BY <1>7, <1>9
  <2>3. i = k /\ j = l /\ line[k] = line[l]
    BY <2>1, <2>2
  <2>4. QED
    BY <1>5, <2>3
<1>10. QED
  BY <1>8, <1>9

\* A period has the jams that were read of its sheet.
LEMMA ReadPeriodHasJams ==
  ASSUME NEW periods, NEW pi \in DOMAIN periods, NEW p, NEW jams, periods[pi] = [number |-> p, jams |-> jams]
  PROVE  DOMAIN MergeLineups(periods)[pi].jams = DOMAIN jams
<1>1. MergeLineups(periods)[pi] =
        [number |-> p,
         jams |-> [k \in DOMAIN jams |-> WithLineups(jams[k], lineups[pi], LineupRows(lineups[pi], Len(jams))[k])]]
  BY MergedPeriod
<1>2. QED
  BY <1>1

\* The jams that were read of a side are those played, each with its own line-up.
InPlace(periods, s) ==
  /\ JamIndex(periods) = Moments
  /\ \A x \in Moments : /\ AsPlayed(SideIn(periods, x, s), played[x[1]][x[2]][s])
                        /\ SideIn(periods, x, s).lineup = Placed(played[x[1]][x[2]][s])
                        /\ NumbersOf(SideIn(periods, x, s).lineup) = OnTrack(s, x)

\* With numbers on Score, and jams in the first period if in any, it is so.
LEMMA JamsAreInPlace ==
  ASSUME BookInv, TotalsUnread, NumbersOnScore, played[1] = <<>> => played[2] = <<>>,
         NEW periods, periods = MergeLineups(ParseScores), NEW s \in Sides
  PROVE  InPlace(periods, s)
<1>1. DOMAIN periods = DOMAIN ParseScores
  BY DEF MergeLineups
<1>2. ASSUME NEW pi \in DOMAIN periods
      PROVE  /\ pi \in 1..2 /\ ReadBack(periods[pi], pi, pi)
             /\ DOMAIN periods[pi].jams = 1..Len(played[pi])
  <2>1. PICK p \in 1..2 : /\ ParseScores[pi] = [number |-> p, jams |-> ReadJams(score[p])]
                          /\ played[p] # <<>>
                          /\ pi = p \/ (pi = 1 /\ p = 2 /\ played[1] = <<>>)
    BY <1>1, PeriodsAreRead
  <2>2. pi = p
    BY <2>1
  <2>3. ReadBack(periods[pi], pi, pi)
    BY <1>1, <2>1, <2>2, PeriodIsReadBack
  <2>4. PICK start : IsSheet(start, played[p], score[p], lineups[p])
    BY SheetOf
  <2>5. Numbered(score[p])
    BY NumbersAreOnSheets
  <2>6. DOMAIN ReadJams(score[p]) = 1..Len(played[p])
    BY <2>4, <2>5, NumberedJamsAreRead
  <2>7. pi \in DOMAIN ParseScores
    BY <1>1
  <2>8. DOMAIN MergeLineups(ParseScores)[pi].jams = DOMAIN ReadJams(score[p])
    BY <2>1, <2>7, ReadPeriodHasJams
  <2>9. DOMAIN periods[pi].jams = 1..Len(played[p])
    BY <2>6, <2>8
  <2>10. QED
    BY <2>2, <2>3, <2>9
<1>3. \A p \in 1..2 : DOMAIN played[p] = 1..Len(played[p]) /\ (played[p] # <<>> => p \in DOMAIN periods)
  <2> SUFFICES ASSUME NEW p \in 1..2
               PROVE  DOMAIN played[p] = 1..Len(played[p]) /\ (played[p] # <<>> => p \in DOMAIN periods)
    OBVIOUS
  <2>1. DOMAIN played[p] = 1..Len(played[p])
    <3>1. PICK start : IsSheet(start, played[p], score[p], lineups[p])
      BY SheetOf
    <3>2. QED
      BY <3>1, SheetTypes
  <2>2. ASSUME played[p] # <<>> PROVE p \in DOMAIN periods
    <3>1. p \in {q \in 1..2 : played[q] # <<>>}
      BY <2>2
    <3>2. p \in {ParseScores[qi].number : qi \in DOMAIN ParseScores}
      BY <3>1, PeriodsAreRead
    <3>3. PICK pi \in DOMAIN ParseScores : ParseScores[pi].number = p
      BY <3>2
    <3>4. PICK q \in 1..2 : /\ ParseScores[pi] = [number |-> q, jams |-> ReadJams(score[q])]
                            /\ played[q] # <<>>
                            /\ pi = q \/ (pi = 1 /\ q = 2 /\ played[1] = <<>>)
      BY <3>3, PeriodsAreRead
    <3>5. q = p /\ pi = q
      BY <3>3, <3>4
    <3>6. QED
      BY <1>1, <3>3, <3>5
  <2>3. QED
    BY <2>1, <2>2
<1>4. JamIndex(periods) = Moments
  <2>1. \A x : x \in JamIndex(periods) <=>
          \E pi \in DOMAIN periods : \E k \in DOMAIN periods[pi].jams : x = <<pi, k>>
    BY JamIndexIs
  <2>2. ASSUME NEW x \in JamIndex(periods) PROVE x \in Moments
    <3>1. PICK pi \in DOMAIN periods : \E k \in DOMAIN periods[pi].jams : x = <<pi, k>>
      BY <2>1, <2>2
    <3>2. PICK k \in DOMAIN periods[pi].jams : x = <<pi, k>>
      BY <3>1
    <3>3. pi \in 1..2 /\ k \in 1..Len(played[pi])
      BY <1>2, <3>2
    <3>4. QED
      BY <3>2, <3>3, MomentsAre
  <2>3. ASSUME NEW x \in Moments PROVE x \in JamIndex(periods)
    <3>1. PICK p \in 1..2 : \E k \in 1..Len(played[p]) : x = <<p, k>>
      BY <2>3, MomentsAre
    <3>2. PICK k \in 1..Len(played[p]) : x = <<p, k>>
      BY <3>1
    <3>3. played[p] # <<>>
      <4>1. Len(<<>>) = 0
        OBVIOUS
      <4>2. k \in 1..Len(played[p]) => Len(played[p]) # 0
        OBVIOUS
      <4>3. QED
        BY <3>2, <4>1, <4>2
    <3>4. p \in DOMAIN periods /\ k \in DOMAIN periods[p].jams
      BY <1>2, <1>3, <3>2, <3>3
    <3>5. QED
      BY <2>1, <3>2, <3>4
  <2>4. QED
    BY <2>2, <2>3
<1>5. ASSUME NEW x \in Moments
      PROVE  /\ AsPlayed(SideIn(periods, x, s), played[x[1]][x[2]][s])
             /\ SideIn(periods, x, s).lineup = Placed(played[x[1]][x[2]][s])
             /\ NumbersOf(SideIn(periods, x, s).lineup) = OnTrack(s, x)
  <2>1. PICK p \in DOMAIN periods : \E k \in DOMAIN periods[p].jams : x = <<p, k>>
    BY <1>4, <1>5, JamIndexIs
  <2>2. PICK k \in DOMAIN periods[p].jams : x = <<p, k>>
    BY <2>1
  <2>3. p \in 1..2 /\ k \in DOMAIN played[p] /\ ReadBack(periods[p], p, p)
    BY <1>2, <1>3, <2>2
  <2>4. /\ AsPlayed(periods[p].jams[k].side[s], played[p][k][s])
        /\ NumbersOf(periods[p].jams[k].side[s].lineup) = OnTrack(s, <<p, k>>)
        /\ periods[p].jams[k].side[s].lineup = Placed(played[p][k][s])
    BY <2>3 DEF ReadBack
  <2>5. SideIn(periods, x, s) = periods[p].jams[k].side[s] /\ x[1] = p /\ x[2] = k
    BY <2>2 DEF SideIn
  <2>6. QED
    BY <2>2, <2>4, <2>5
<1>6. QED
  BY <1>4, <1>5 DEF InPlace

\* Skaters on the track have numbers without a star; they are counted in the jams
\* in which they were.
LEMMA OnTrackIs ==
  ASSUME BookInv, NEW s \in Sides
  PROVE  /\ \A x \in Moments : /\ played[x[1]][x[2]] \in JamPlays
                               /\ \A cell \in OnTrack(s, x) : cell # Blank /\ ~cell[2]
         /\ \A cell : /\ JamsOf(s, cell) \in Nat
                      /\ JamsOf(s, cell) # 0 <=> cell \in Skated(s)
<1>1. ASSUME NEW x \in Moments PROVE played[x[1]][x[2]] \in JamPlays
  <2>1. PICK p \in 1..2 : \E k \in 1..Len(played[p]) : x = <<p, k>>
    BY <1>1, MomentsAre
  <2>2. PICK k \in 1..Len(played[p]) : x = <<p, k>>
    BY <2>1
  <2>3. played[p] \in Seq(JamPlays)
    BY DEF BookInv
  <2>4. played[p][k] \in JamPlays
    BY <2>2, <2>3, ElementOfSeq
  <2>5. QED
    BY <2>2, <2>4
<1>2. ASSUME NEW x \in Moments, NEW cell \in OnTrack(s, x) PROVE cell # Blank /\ ~cell[2]
  <2> DEFINE play == played[x[1]][x[2]][s]
  <2>1. \/ cell = play.jammer
        \/ cell # Blank /\ ~cell[2]
    BY <1>2 DEF OnTrack
  <2>2. play.jammer \in Skaters /\ Blank \notin Skaters
    BY <1>1, PlayTypes
  <2>3. \A c \in Skaters : ~c[2]
    BY DEF Skaters
  <2>4. QED
    BY <2>1, <2>2, <2>3
<1>3. ASSUME NEW cell
      PROVE  JamsOf(s, cell) \in Nat /\ (JamsOf(s, cell) # 0 <=> cell \in Skated(s))
  <2> DEFINE B == {x \in Moments : cell \in OnTrack(s, x)}
  <2>1. IsFiniteSet(Moments) /\ B \subseteq Moments
    BY MomentsAre
  <2>2. IsFiniteSet(B)
    <3> HIDE DEF B
    <3> QED BY <2>1, FS_Subset
  <2>3. JamsOf(s, cell) = Cardinality(B)
    BY DEF JamsOf
  <2>4. Cardinality(B) \in Nat /\ (Cardinality(B) = 0 <=> B = {})
    <3> HIDE DEF B
    <3> QED BY <2>2, FS_CardinalityType, FS_EmptySet
  <2>5. B # {} <=> cell \in Skated(s)
    BY DEF Skated
  <2>6. QED
    BY <2>3, <2>4, <2>5
<1>4. QED
  BY <1>1, <1>2, <1>3

\* Those who are in a jam that was read are those who were on the track.
LEMMA PlayersSkated ==
  ASSUME BookInv, NEW s \in Sides, NEW periods, InPlace(periods, s)
  PROVE  PlayersInJams(periods, s) = Skated(s)
<1> DEFINE In(x) == {SideIn(periods, x, s).jammer, SideIn(periods, x, s).to} \cup NumbersOf(SideIn(periods, x, s).lineup)
<1>1. PlayersInJams(periods, s) = (UNION {In(x) : x \in Moments}) \ {Blank}
  BY DEF InPlace, PlayersInJams
<1>2. ASSUME NEW x \in Moments PROVE In(x) \ {Blank} = OnTrack(s, x)
  <2> DEFINE side == SideIn(periods, x, s)
             play == played[x[1]][x[2]][s]
             others == play.others
  <2>1. AsPlayed(side, play) /\ NumbersOf(side.lineup) = OnTrack(s, x)
    BY <1>2 DEF InPlace
  <2>2. OnTrack(s, x) = {play.jammer} \cup {cell \in {others[k] : k \in DOMAIN others} : cell # Blank /\ ~cell[2]}
    BY DEF OnTrack
  <2>3. /\ play \in Plays /\ play.to \in Skaters \cup {Blank}
        /\ \A cell \in OnTrack(s, x) : cell # Blank
    BY <1>2, OnTrackIs, PlayTypes
  <2>4. ASSUME play.to # Blank PROVE play.to \in OnTrack(s, x)
    <3>1. PICK k \in DOMAIN others : others[k] = play.to
      BY <2>3, <2>4, ParserAssumption
    <3>2. \A c \in Skaters : ~c[2]
      BY DEF Skaters
    <3>3. ~play.to[2]
      BY <2>3, <2>4, <3>2
    <3>4. QED
      BY <2>2, <2>4, <3>1, <3>3
  <2>5. side.jammer = play.jammer /\ side.to \in {play.to, Blank, play.jammer}
    BY <2>1 DEF AsPlayed
  <2>6. play.jammer \in OnTrack(s, x)
    BY <2>2
  <2>7. In(x) = {side.jammer, side.to} \cup OnTrack(s, x)
    BY <2>1
  <2> HIDE DEF side, play, In, others
  <2>8. QED
    BY <2>3, <2>4, <2>5, <2>6, <2>7
<1>3. Skated(s) = UNION {OnTrack(s, x) : x \in Moments}
  BY DEF Skated
<1> HIDE DEF In
<1>4. ASSUME NEW cell \in PlayersInJams(periods, s) PROVE cell \in Skated(s)
  <2>1. PICK x \in Moments : cell \in In(x) /\ cell # Blank
    BY <1>1, <1>4
  <2>2. cell \in OnTrack(s, x)
    BY <1>2, <2>1
  <2>3. QED
    BY <1>3, <2>2
<1>5. ASSUME NEW cell \in Skated(s) PROVE cell \in PlayersInJams(periods, s)
  <2>1. PICK x \in Moments : cell \in OnTrack(s, x)
    BY <1>3, <1>5
  <2>2. cell \in In(x) /\ cell # Blank
    BY <1>2, <2>1
  <2>3. QED
    BY <1>1, <2>2
<1>6. QED
  BY <1>4, <1>5

\* A skater's places in the line-ups that were read are as many as the skater's jams.
LEMMA JamCountIs ==
  ASSUME BookInv, NEW s \in Sides, NEW periods, InPlace(periods, s), NEW cell
  PROVE  JamCount(periods, s, cell) = JamsOf(s, cell)
<1> DEFINE A == {x \in Moments \X (1..5) : <<x[2], cell>> \in SideIn(periods, x[1], s).lineup}
           B == {x \in Moments : cell \in OnTrack(s, x)}
           f == [x \in A |-> x[1]]
<1>1. JamCount(periods, s, cell) = Cardinality(A) /\ JamsOf(s, cell) = Cardinality(B)
  BY DEF InPlace, JamCount, JamsOf
<1>2. IsFiniteSet(A)
  <2>1. IsFiniteSet(Moments)
    BY MomentsAre
  <2>2. IsFiniteSet(1..5)
    <3>1. \A n \in Int : IsFiniteSet(1..n)
      BY FS_Interval
    <3>2. 5 \in Int
      OBVIOUS
    <3>3. QED
      BY <3>1, <3>2, Zenon
  <2>3. IsFiniteSet(Moments \X (1..5))
    BY <2>1, <2>2, FS_Product
  <2>4. A \subseteq Moments \X (1..5)
    OBVIOUS
  <2> HIDE DEF A
  <2>5. QED
    BY <2>3, <2>4, FS_Subset
<1> DEFINE lineup(x) == SideIn(periods, x, s).lineup
<1>3. ASSUME NEW x \in Moments
      PROVE  /\ \A entry \in lineup(x) : entry = <<entry[1], entry[2]>> /\ entry[1] \in 1..5
             /\ \A i, j : <<i, cell>> \in lineup(x) /\ <<j, cell>> \in lineup(x) => i = j
             /\ cell \in OnTrack(s, x) <=> \E entry \in lineup(x) : entry[2] = cell
  <2>1. lineup(x) = Placed(played[x[1]][x[2]][s]) /\ NumbersOf(lineup(x)) = OnTrack(s, x)
    BY <1>3 DEF InPlace
  <2>2. played[x[1]][x[2]] \in JamPlays
    BY <1>3, OnTrackIs
  <2> DEFINE play == played[x[1]][x[2]]
  <2>3. lineup(x) = Placed(play[s]) /\ play \in JamPlays
    BY <2>1, <2>2
  <2>4. cell \in NumbersOf(lineup(x)) <=> \E entry \in lineup(x) : entry[2] = cell
    BY DEF NumbersOf
  <2> HIDE DEF play, lineup
  <2>5. /\ \A entry \in lineup(x) : entry = <<entry[1], entry[2]>> /\ entry[1] \in 1..5
        /\ \A i, j : <<i, cell>> \in lineup(x) /\ <<j, cell>> \in lineup(x) => i = j
    BY <2>3, PlacedOnce
  <2>6. QED
    BY <2>1, <2>4, <2>5
<1>4. \A x \in A : x = <<x[1], x[2]>> /\ x[1] \in Moments /\ x[2] \in 1..5 /\ <<x[2], cell>> \in lineup(x[1])
  OBVIOUS
<1>5. \A y \in Moments, j \in 1..5 : <<j, cell>> \in lineup(y) => <<y, j>> \in A
  OBVIOUS
<1> HIDE DEF A, lineup
<1>6. f \in [A -> B]
  <2> SUFFICES ASSUME NEW x \in A PROVE x[1] \in B
    OBVIOUS
  <2>1. x[1] \in Moments /\ <<x[2], cell>> \in lineup(x[1]) /\ <<x[2], cell>>[2] = cell
    BY <1>4
  <2>2. cell \in OnTrack(s, x[1])
    BY <1>3, <2>1
  <2>3. QED
    BY <2>1, <2>2
<1>7. ASSUME NEW x \in A, NEW y \in A, f[x] = f[y] PROVE x = y
  <2>1. x[1] = y[1]
    BY <1>7
  <2>2. /\ x = <<x[1], x[2]>> /\ y = <<y[1], y[2]>> /\ x[1] \in Moments
        /\ <<x[2], cell>> \in lineup(x[1]) /\ <<y[2], cell>> \in lineup(x[1])
    BY <1>4, <2>1
  <2>3. x[2] = y[2]
    BY <1>3, <2>2
  <2>4. QED
    BY <2>1, <2>2, <2>3
<1>8. ASSUME NEW y \in B PROVE \E x \in A : f[x] = y
  <2>1. y \in Moments /\ cell \in OnTrack(s, y)
    OBVIOUS
  <2>2. PICK entry \in lineup(y) : entry[2] = cell
    BY <1>3, <2>1
  <2>3. entry = <<entry[1], cell>> /\ entry[1] \in 1..5
    BY <1>3, <2>1, <2>2
  <2>4. <<y, entry[1]>> \in A
    BY <1>5, <2>1, <2>2, <2>3
  <2>5. QED
    BY <2>4
<1> HIDE DEF B
<1>9. f \in Bijection(A, B)
  <2> HIDE DEF f
  <2> QED BY <1>6, <1>7, <1>8 DEF Bijection, Injection, Surjection, IsInjective
<1>10. ExistsBijection(A, B)
  BY <1>9 DEF ExistsBijection
<1>11. Cardinality(B) = Cardinality(A)
  BY <1>2, <1>10, FS_Bijection
<1>12. QED
  BY <1>1, <1>11

\* There are as many jams as were read.
LEMMA TotalJamsIs ==
  ASSUME BookInv, NEW s, NEW periods, InPlace(periods, s)
  PROVE  TotalJams(periods) = JamsPlayed
BY MomentsCount DEF InPlace, TotalJams

-----------------------------------------------------------------------------
(* The summary *)

\* Rows of the summary.
RowsOf(total, shown, all, cells) == {SummaryRow(cell, total[cell], shown[cell], all) : cell \in cells}

\* Rows of the summary for all skaters of the roster, of which those are shown who
\* were on the track.
LEMMA ShownAreThoseWhoSkated ==
  ASSUME BookInv, NEW s \in Sides, NEW periods, InPlace(periods, s), NEW total, NEW shown, NEW all,
         \A cell \in RosterCells(s) \cap Skated(s) : total[cell] # << 0 >>
  PROVE  ShownIn(RowsOf(total, shown, all, Rows(s)), periods, s) =
           RowsOf(total, shown, all, RosterCells(s) \cap Skated(s))
<1> DEFINE row(cell) == SummaryRow(cell, total[cell], shown[cell], all)
           rows == {row(cell) : cell \in Rows(s)}
<1>1. Rows(s) = RosterCells(s)
  BY DEF Rows, RosterCells, NumberAt
<1>2. PlayersInJams(periods, s) = Skated(s)
  BY PlayersSkated
<1>3. \A cell \in Skated(s) : ~cell[2]
  BY OnTrackIs DEF Skated
<1>4. \A cell : row(cell).number = cell /\ row(cell).total = total[cell]
  BY DEF SummaryRow
<1>5. ShownIn(rows, periods, s) =
        {r \in rows : r.total # <<0>> /\ ~r.number[2] /\ r.number \in Skated(s)}
  BY <1>2 DEF ShownIn
<1> HIDE DEF row
<1>6. ASSUME NEW r \in ShownIn(rows, periods, s) PROVE r \in {row(cell) : cell \in RosterCells(s) \cap Skated(s)}
  <2>1. PICK cell \in RosterCells(s) : r = row(cell)
    BY <1>1, <1>5, <1>6
  <2>2. cell \in Skated(s)
    BY <1>4, <1>5, <1>6, <2>1
  <2>3. QED
    BY <2>1, <2>2
<1>7. ASSUME NEW cell \in RosterCells(s) \cap Skated(s) PROVE row(cell) \in ShownIn(rows, periods, s)
  <2>1. row(cell) \in rows
    BY <1>1
  <2>2. row(cell).total # <<0>> /\ ~row(cell).number[2] /\ row(cell).number \in Skated(s)
    BY <1>3, <1>4
  <2> HIDE DEF rows
  <2>3. QED
    BY <1>5, <2>1, <2>2
<1>8. ShownIn(rows, periods, s) = {row(cell) : cell \in RosterCells(s) \cap Skated(s)}
  BY <1>6, <1>7
<1>9. QED
  BY <1>8 DEF row, RowsOf

\* A share that is not shown is that of all jams.
LEMMA PercentageIs ==
  ASSUME NEW t \in Nat, t # 0, NEW all \in Nat, all # 0, NEW shown,
         shown \in {<<0, 1>>, <<t, all>>}
  PROVE  Percentage(shown, <<t>>, all) = <<t, all>>
<1>1. <<t>> \notin {<<>>, <<0>>} /\ <<t>>[1] = t
  OBVIOUS
<1>2. CASE shown = <<0, 1>>
  BY <1>1, <1>2 DEF Percentage
<1>3. CASE shown = <<t, all>>
  <2>1. shown # <<>> /\ shown[1] # 0
    BY <1>3
  <2>2. QED
    BY <1>3, <2>1 DEF Percentage
<1>4. QED
  BY <1>2, <1>3

\* The formulas count no less than a skater's jams.
LEMMA EvaluatedAtLeast ==
  ASSUME BookInv, NEW s \in Sides, NEW cell, JamsPlayed # 0
  PROVE  Evaluated(s, cell) \in Nat /\ Evaluated(s, cell) >= JamsOf(s, cell)
<1> DEFINE again(p) == {j \in 2..SheetRows \cap DOMAIN score[p] :
                          /\ score[p][j].label[s] = "SP"
                          /\ score[p][j].jammer[s] = cell /\ score[p][j - 1].jammer[s] = cell}
           repeats == UNION {{<<p, i>> : i \in again(p)} : p \in 1..2}
<1>1. Evaluated(s, cell) = JamsOf(s, cell) + Cardinality(repeats)
  BY DEF Evaluated
<1>2. IsFiniteSet(repeats)
  <2> DEFINE all == (1..2) \X (2..SheetRows)
  <2>1. IsFiniteSet(1..2) /\ IsFiniteSet(2..SheetRows)
    <3>1. \A a, b \in Int : IsFiniteSet(a..b)
      BY FS_Interval
    <3>2. 1 \in Int /\ 2 \in Int /\ SheetRows \in Int
      BY ParserAssumption
    <3>3. QED
      BY <3>1, <3>2, Zenon
  <2>2. IsFiniteSet(all)
    BY <2>1, FS_Product
  <2>3. \A p : again(p) \subseteq 2..SheetRows
    OBVIOUS
  <2> HIDE DEF again
  <2>4. repeats \subseteq all
    BY <2>3
  <2> HIDE DEF repeats, all
  <2>5. QED
    BY <2>2, <2>4, FS_Subset
<1> HIDE DEF repeats
<1>3. Cardinality(repeats) \in Nat
  BY <1>2, FS_CardinalityType
<1>4. JamsOf(s, cell) \in Nat
  BY OnTrackIs
<1>5. QED
  BY <1>1, <1>3, <1>4

\* What the summary says of a side.
IsStats(rows, s) ==
  /\ {row.number : row \in rows} = RosterCells(s) \cap Skated(s)
  /\ \A row \in rows :
       /\ HasTotals => row.total = <<JamsOf(s, row.number)>>
       /\ row.total[1] >= JamsOf(s, row.number)
       /\ row.percentage = <<row.total[1], JamsPlayed>>

\* Rows that have totals and percentages that are right are right.
LEMMA RowsAreStats ==
  ASSUME NEW s \in Sides, NEW total, NEW shown, NEW all,
         \A cell \in RosterCells(s) \cap Skated(s) :
           /\ HasTotals => total[cell] = <<JamsOf(s, cell)>>
           /\ total[cell][1] >= JamsOf(s, cell)
           /\ Percentage(shown[cell], total[cell], all) = <<total[cell][1], JamsPlayed>>
  PROVE  IsStats(RowsOf(total, shown, all, RosterCells(s) \cap Skated(s)), s)
<1> DEFINE row(cell) == SummaryRow(cell, total[cell], shown[cell], all)
           cells == RosterCells(s) \cap Skated(s)
           rows == {row(cell) : cell \in cells}
<1>1. \A cell : /\ row(cell).number = cell /\ row(cell).total = total[cell]
                /\ row(cell).percentage = Percentage(shown[cell], total[cell], all)
  BY DEF SummaryRow
<1> HIDE DEF row
<1>2. {r.number : r \in rows} = cells
  <2> HIDE DEF cells
  <2>1. ASSUME NEW cell \in cells PROVE cell \in {r.number : r \in rows}
    <3>1. row(cell) \in rows /\ row(cell).number = cell
      BY <1>1
    <3> HIDE DEF rows
    <3>2. QED
      BY <3>1
  <2>2. ASSUME NEW r \in rows PROVE r.number \in cells
    BY <1>1
  <2> HIDE DEF rows
  <2>3. QED
    BY <2>1, <2>2
<1>3. ASSUME NEW r \in rows
      PROVE  /\ HasTotals => r.total = <<JamsOf(s, r.number)>>
             /\ r.total[1] >= JamsOf(s, r.number)
             /\ r.percentage = <<r.total[1], JamsPlayed>>
  <2>1. PICK cell \in cells : r = row(cell)
    OBVIOUS
  <2>2. r.number = cell /\ r.total = total[cell] /\ r.percentage = Percentage(shown[cell], total[cell], all)
    BY <1>1, <2>1
  <2>3. QED
    BY <2>1, <2>2
<1> HIDE DEF rows, cells
<1>4. IsStats(rows, s)
  BY <1>2, <1>3 DEF IsStats, cells
<1>5. QED
  BY <1>4 DEF rows, row, cells, RowsOf

\* The summary as it was saved, with the counts of the line-ups where there is none.
LEMMA CachedSummaryIs ==
  ASSUME BookInv, CountsInv, stage = "parsed", HasTotals, NEW s \in Sides, NEW periods, InPlace(periods, s)
  PROVE  IsStats(CachedSummary(periods)[s], s)
<1> DEFINE cells == RosterCells(s) \cap Skated(s)
           total == [cell \in Rows(s) |-> Count(periods, s, cell)]
           shown == [cell \in Rows(s) |-> ShownPercentage(s, cell)]
           all == TotalJams(periods)
<1>1. /\ \A cell \in RosterCells(s) : cached.jams[s][cell] \in {<<0>>, <<JamsOf(s, cell)>>}
      /\ cached.jamCount \in {<<0>>, <<JamsPlayed>>}
  <2>1. cached.total[s] # <<>>
    BY DEF HasTotals
  <2>2. QED
    BY <2>1 DEF CountsInv
<1>2. all = JamsPlayed /\ JamsPlayed \in Nat /\ (Skated(s) # {} => JamsPlayed # 0)
  <2>1. all = JamsPlayed /\ JamsPlayed \in Nat /\ Cardinality(Moments) = JamsPlayed
    BY TotalJamsIs, MomentsCount
  <2>2. Skated(s) # {} => Moments # {}
    BY DEF Skated
  <2>3. IsFiniteSet(Moments)
    BY MomentsAre
  <2>4. Cardinality(Moments) = 0 => Moments = {}
    BY <2>3, FS_EmptySet
  <2>5. QED
    BY <2>1, <2>2, <2>4
<1>3. Rows(s) = RosterCells(s)
  BY DEF Rows, RosterCells, NumberAt
<1>4. ASSUME NEW cell \in cells
      PROVE  /\ total[cell] = <<JamsOf(s, cell)>> /\ JamsOf(s, cell) \in Nat /\ JamsOf(s, cell) # 0
             /\ Percentage(shown[cell], total[cell], all) = <<JamsOf(s, cell), JamsPlayed>>
  <2> DEFINE c == JamsOf(s, cell)
  <2>1. c \in Nat /\ c # 0 /\ JamsPlayed # 0 /\ cell \in Rows(s)
    BY <1>2, <1>3, OnTrackIs
  <2>2. cached.jams[s][cell] \in {<<0>>, <<c>>}
    BY <1>1
  <2>3. JamCount(periods, s, cell) = c
    BY JamCountIs
  <2> HIDE DEF c
  <2>4. <<0>> # <<>> /\ <<c>> # <<>> /\ <<c>> # <<0>> /\ <<c>>[1] = c /\ c > 0
    BY <2>1
  <2>5. Count(periods, s, cell) = <<c>>
    BY <2>2, <2>3, <2>4 DEF Count
  <2>6. ShownPercentage(s, cell) \in {<<0, 1>>, <<c, JamsPlayed>>}
    <3> DEFINE n == JamsPlayed
    <3>1. cached.jamCount \in {<<0>>, <<n>>} /\ n # 0 /\ n \in Nat
      BY <1>1, <1>2, <2>1
    <3> HIDE DEF n
    <3>2. <<n>> # <<>> /\ <<n>> # <<0>> /\ <<n>>[1] = n
      BY <3>1
    <3>3. ShownPercentage(s, cell) \in {<<0, 1>>, <<c, n>>}
      BY <2>2, <2>4, <3>1, <3>2 DEF ShownPercentage
    <3>4. QED
      BY <3>3 DEF n
  <2>7. Percentage(ShownPercentage(s, cell), <<c>>, all) = <<c, all>>
    <3> DEFINE given == ShownPercentage(s, cell)
    <3>1. given \in {<<0, 1>>, <<c, all>>} /\ all \in Nat /\ all # 0
      BY <1>2, <2>1, <2>6
    <3> HIDE DEF given, all
    <3>2. QED
      BY <2>1, <3>1, PercentageIs DEF given
  <2>8. total[cell] = <<c>> /\ shown[cell] = ShownPercentage(s, cell)
    BY <2>1, <2>5
  <2> HIDE DEF total, shown
  <2>9. QED
    BY <1>2, <2>1, <2>7, <2>8 DEF c
<1>5. CachedSummary(periods)[s] =
        ShownIn(RowsOf(total, shown, all, Rows(s)), periods, s)
  <2>1. CachedSummary(periods)[s] =
          ShownIn({SummaryRow(cell, Count(periods, s, cell), ShownPercentage(s, cell), all) : cell \in Rows(s)}, periods, s)
    BY DEF CachedSummary
  <2>2. {SummaryRow(cell, Count(periods, s, cell), ShownPercentage(s, cell), all) : cell \in Rows(s)}
          = RowsOf(total, shown, all, Rows(s))
    BY DEF RowsOf
  <2>3. QED
    BY <2>1, <2>2
<1> HIDE DEF total, shown, all
<1>6. \A cell \in cells : total[cell] # <<0>>
  <2> SUFFICES ASSUME NEW cell \in cells PROVE total[cell] # <<0>>
    OBVIOUS
  <2>1. total[cell] = <<JamsOf(s, cell)>> /\ JamsOf(s, cell) # 0
    BY <1>4
  <2>2. \A v : v # 0 => <<v>> # <<0>>
    OBVIOUS
  <2>3. QED
    BY <2>1, <2>2
<1>7. CachedSummary(periods)[s] = RowsOf(total, shown, all, cells)
  BY <1>5, <1>6, ShownAreThoseWhoSkated
<1>8. \A cell \in cells : /\ HasTotals => total[cell] = <<JamsOf(s, cell)>>
                          /\ total[cell][1] >= JamsOf(s, cell)
                          /\ Percentage(shown[cell], total[cell], all) = <<total[cell][1], JamsPlayed>>
  <2> SUFFICES ASSUME NEW cell \in cells
               PROVE  /\ total[cell] = <<JamsOf(s, cell)>>
                      /\ total[cell][1] >= JamsOf(s, cell)
                      /\ Percentage(shown[cell], total[cell], all) = <<total[cell][1], JamsPlayed>>
    OBVIOUS
  <2>1. /\ total[cell] = <<JamsOf(s, cell)>> /\ JamsOf(s, cell) \in Nat
        /\ Percentage(shown[cell], total[cell], all) = <<JamsOf(s, cell), JamsPlayed>>
    BY <1>4
  <2>2. total[cell][1] = JamsOf(s, cell)
    BY <2>1
  <2>3. QED
    BY <2>1, <2>2
<1>9. QED
  BY <1>7, <1>8, RowsAreStats

\* The summary as it is evaluated anew.
LEMMA EvaluatedSummaryIs ==
  ASSUME BookInv, ~HasTotals, NEW s \in Sides, NEW periods, InPlace(periods, s), JamsPlayed # 0
  PROVE  IsStats(EvaluatedSummary(periods)[s], s)
<1> DEFINE cells == RosterCells(s) \cap Skated(s)
           total == [cell \in Rows(s) |-> <<Evaluated(s, cell)>>]
           shown == [cell \in Rows(s) |-> <<Evaluated(s, cell), JamsPlayed>>]
           all == TotalJams(periods)
<1>1. all = JamsPlayed /\ JamsPlayed \in Nat
  BY TotalJamsIs, MomentsCount
<1>2. Rows(s) = RosterCells(s)
  BY DEF Rows, RosterCells, NumberAt
<1>3. ASSUME NEW cell \in cells
      PROVE  /\ total[cell] = <<Evaluated(s, cell)>> /\ Evaluated(s, cell) \in Nat /\ Evaluated(s, cell) # 0
             /\ Evaluated(s, cell) >= JamsOf(s, cell)
             /\ Percentage(shown[cell], total[cell], all) = <<Evaluated(s, cell), JamsPlayed>>
  <2> DEFINE e == Evaluated(s, cell)
  <2>1. e \in Nat /\ e >= JamsOf(s, cell)
    BY EvaluatedAtLeast
  <2>2. JamsOf(s, cell) \in Nat /\ JamsOf(s, cell) # 0
    BY OnTrackIs
  <2>3. e # 0
    BY <2>1, <2>2
  <2>4. total[cell] = <<e>> /\ shown[cell] = <<e, JamsPlayed>>
    BY <1>2
  <2>5. Percentage(<<e, JamsPlayed>>, <<e>>, all) = <<e, all>>
    <3> DEFINE given == <<e, JamsPlayed>>
    <3>1. given \in {<<0, 1>>, <<e, all>>} /\ all \in Nat /\ all # 0
      BY <1>1
    <3> HIDE DEF given, all, e
    <3>2. QED
      BY <2>1, <2>3, <3>1, PercentageIs DEF given
  <2> HIDE DEF total, shown, all
  <2>6. QED
    BY <1>1, <2>1, <2>3, <2>4, <2>5
<1>4. EvaluatedSummary(periods)[s] =
        ShownIn(RowsOf(total, shown, all, Rows(s)), periods, s)
  <2>1. EvaluatedSummary(periods)[s] =
          ShownIn({SummaryRow(cell, <<Evaluated(s, cell)>>, <<Evaluated(s, cell), JamsPlayed>>, all) : cell \in Rows(s)},
                  periods, s)
    BY DEF EvaluatedSummary
  <2>2. {SummaryRow(cell, <<Evaluated(s, cell)>>, <<Evaluated(s, cell), JamsPlayed>>, all) : cell \in Rows(s)}
          = RowsOf(total, shown, all, Rows(s))
    BY DEF RowsOf
  <2>3. QED
    BY <2>1, <2>2
<1> HIDE DEF total, shown, all
<1>5. \A cell \in cells : total[cell] # <<0>>
  <2> SUFFICES ASSUME NEW cell \in cells PROVE total[cell] # <<0>>
    OBVIOUS
  <2>1. total[cell] = <<Evaluated(s, cell)>> /\ Evaluated(s, cell) # 0
    BY <1>3
  <2>2. \A v : v # 0 => <<v>> # <<0>>
    OBVIOUS
  <2>3. QED
    BY <2>1, <2>2
<1>6. EvaluatedSummary(periods)[s] = RowsOf(total, shown, all, cells)
  BY <1>4, <1>5, ShownAreThoseWhoSkated
<1>7. \A cell \in cells : /\ HasTotals => total[cell] = <<JamsOf(s, cell)>>
                          /\ total[cell][1] >= JamsOf(s, cell)
                          /\ Percentage(shown[cell], total[cell], all) = <<total[cell][1], JamsPlayed>>
  <2> SUFFICES ASSUME NEW cell \in cells
               PROVE  /\ total[cell][1] >= JamsOf(s, cell)
                      /\ Percentage(shown[cell], total[cell], all) = <<total[cell][1], JamsPlayed>>
    OBVIOUS
  <2>1. /\ total[cell] = <<Evaluated(s, cell)>> /\ Evaluated(s, cell) >= JamsOf(s, cell)
        /\ Percentage(shown[cell], total[cell], all) = <<Evaluated(s, cell), JamsPlayed>>
    BY <1>3
  <2>2. total[cell][1] = Evaluated(s, cell)
    BY <2>1
  <2>3. QED
    BY <2>1, <2>2
<1>8. QED
  BY <1>6, <1>7, RowsAreStats

\* For every roster and line-up, whichever counts the workbook was saved without:
\* roster and summary show, each number once, those of the roster who skated, with
\* their jams, in full and as a share.
THEOREM StatsAreRight == Spec => []StatsAreOfThoseWhoPlayed
<1>1. /\ roster \in Rosters /\ BookInv /\ ParsedInv /\ ShownInv /\ CountsInv /\ JamsAreReadBack
      => StatsAreOfThoseWhoPlayed
  <2> SUFFICES ASSUME roster \in Rosters, BookInv, ParsedInv, ShownInv, CountsInv, JamsAreReadBack,
                      stage = "parsed", NumbersOnScore, TotalsUnread, played[1] = <<>> => played[2] = <<>>
               PROVE  StatsAreOfThoseWhoPlayed
    BY DEF StatsAreOfThoseWhoPlayed
  <2> DEFINE periods == game.periods
  <2>1. /\ periods = MergeLineups(ParseScores)
        /\ game.roster = [s \in Sides |-> ParseTeam(s, PlayersInJams(periods, s))]
        /\ game.summary = GameSummary(periods)
    BY DEF ParsedInv, ShownInv
  <2>2. periods = <<>> <=> JamsPlayed = 0
    <3>1. {periods[pi].number : pi \in DOMAIN periods} = {p \in 1..2 : played[p] # <<>>}
      BY DEF JamsAreReadBack
    <3>2. Len(played[1]) \in Nat /\ Len(played[2]) \in Nat
          /\ (Len(played[1]) = 0 <=> played[1] = <<>>) /\ (Len(played[2]) = 0 <=> played[2] = <<>>)
      <4>1. played[1] \in Seq(JamPlays) /\ played[2] \in Seq(JamPlays)
        BY DEF BookInv
      <4>2. \A plays \in Seq(JamPlays) : Len(plays) \in Nat
        BY LenProperties
      <4>3. \A plays \in Seq(JamPlays) : plays = <<>> <=> Len(plays) = 0
        BY EmptySeq
      <4>4. QED
        BY <4>1, <4>2, <4>3
    <3>3. JamsPlayed = 0 <=> played[1] = <<>> /\ played[2] = <<>>
      <4>1. \A a, b \in Nat : a + b = 0 <=> a = 0 /\ b = 0
        OBVIOUS
      <4>2. JamsPlayed = Len(played[1]) + Len(played[2])
        BY DEF JamsPlayed
      <4>3. Len(played[1]) + Len(played[2]) = 0 <=> Len(played[1]) = 0 /\ Len(played[2]) = 0
        BY <3>2, <4>1, Zenon
      <4>4. QED
        BY <3>2, <4>2, <4>3, Zenon
    <3>4. ASSUME periods = <<>> PROVE JamsPlayed = 0
      <4>1. DOMAIN periods = {}
        BY <3>4
      <4> HIDE DEF periods
      <4>2. played[1] = <<>> /\ played[2] = <<>>
        BY <3>1, <4>1
      <4>3. QED
        BY <3>3, <4>2
    <3>5. ASSUME JamsPlayed = 0 PROVE periods = <<>>
      <4>1. ReadJams(score[1]) = <<>> /\ ReadJams(score[2]) = <<>>
        <5> SUFFICES ASSUME NEW p \in 1..2 PROVE ReadJams(score[p]) = <<>>
          OBVIOUS
        <5>1. PICK start : IsSheet(start, played[p], score[p], lineups[p])
          BY SheetOf
        <5>2. Numbered(score[p]) /\ played[p] = <<>>
          BY <3>3, <3>5, NumbersAreOnSheets
        <5>3. QED
          BY <5>1, <5>2, NumberedJamsAreRead
      <4>2. ParseScores = <<>>
        BY <4>1, PeriodsAre
      <4>3. MergeLineups(<<>>) = <<>>
        BY DEF MergeLineups
      <4>4. QED
        BY <2>1, <4>2, <4>3
    <3>6. QED
      BY <3>4, <3>5
  <2>3. game.summary = IF periods = <<>> THEN <<>>
                       ELSE IF HasTotals THEN <<CachedSummary(periods)>> ELSE <<EvaluatedSummary(periods)>>
    BY <2>1 DEF GameSummary
  <2>4. (game.summary = <<>>) <=> (JamsPlayed = 0)
    <3>1. \A v : <<v>> # <<>>
      OBVIOUS
    <3>2. QED
      BY <2>2, <2>3, <3>1
  <2> HIDE DEF periods
  <2>5. \A s \in Sides : InPlace(periods, s)
    BY <2>1, JamsAreInPlace
  <2>6. ASSUME NEW s \in Sides
        PROVE  /\ {game.roster[s][k] : k \in DOMAIN game.roster[s]} =
                    {<<roster[s][i][1], FALSE>> : i \in Listed(s)} \cap Skated(s)
               /\ Cardinality({game.roster[s][k] : k \in DOMAIN game.roster[s]}) = Len(game.roster[s])
    <3> DEFINE team == ParseTeam(s, PlayersInJams(periods, s))
    <3>1. game.roster[s] = team
      BY <2>1
    <3>2. PlayersInJams(periods, s) = Skated(s)
      BY <2>5, PlayersSkated
    <3>3. /\ {team[k] : k \in DOMAIN team} = {Number(roster[s][i]) : i \in Listed(s)} \cap PlayersInJams(periods, s)
          /\ Cardinality({team[k] : k \in DOMAIN team}) = Len(team)
      BY TeamIsOfThoseListed
    <3> HIDE DEF team
    <3>4. {Number(roster[s][i]) : i \in Listed(s)} = {<<roster[s][i][1], FALSE>> : i \in Listed(s)}
      BY DEF Number
    <3>5. QED
      BY <3>1, <3>2, <3>3, <3>4
  <2>7. ASSUME NEW s \in Sides, NEW k \in DOMAIN game.summary
        PROVE  IsStats(game.summary[k][s], s)
    <3>1. /\ \A v : DOMAIN <<v>> = {1} /\ <<v>>[1] = v
          /\ DOMAIN <<>> = {}
      OBVIOUS
    <3>2. periods # <<>>
      BY <2>3, <2>7, <3>1
    <3>3. JamsPlayed # 0
      BY <2>2, <3>2 DEF periods
    <3>4. game.summary[k] = IF HasTotals THEN CachedSummary(periods) ELSE EvaluatedSummary(periods)
      BY <2>3, <2>7, <3>1, <3>2
    <3>5. HasTotals => IsStats(CachedSummary(periods)[s], s)
      BY <2>5, CachedSummaryIs
    <3>6. ~HasTotals => IsStats(EvaluatedSummary(periods)[s], s)
      BY <2>5, <3>3, EvaluatedSummaryIs
    <3>7. QED
      BY <3>4, <3>5, <3>6
  <2>8. QED
    BY <2>4, <2>6, <2>7 DEF StatsAreOfThoseWhoPlayed, IsStats
<1>2. QED
  BY <1>1, RosterInvariant, BookInvariant, ParsedInvariant, ShownInvariant, CountsInvariant, PlayedJamsAreReadBack, PTL
=============================================================================
