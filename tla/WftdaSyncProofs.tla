-------------------------- MODULE WftdaSyncProofs ---------------------------
(***************************************************************************)
(* Theorems about WftdaSync for every set of games and dates, size of      *)
(* pages, era, lookback and interval, and any number of edits and faults:  *)
(* the types, and that a scan of a feed that stands still is complete.     *)
(***************************************************************************)
EXTENDS WftdaSync, FiniteSetTheorems, FunctionTheorems, WellFoundedInduction, TLAPS

-----------------------------------------------------------------------------
(* Minimum and maximum *)

\* Min of a set of naturals is its least element.
LEMMA MinOf ==
  ASSUME NEW T, T \subseteq Nat, T # {}
  PROVE  Min(T) \in T /\ \A y \in T : Min(T) <= y
<1>1. \E x \in T : \A y \in T : <<y, x>> \notin OpToRel(<, Nat)
  BY WFMin, NatLessThanWellFounded
<1>2. \A x, y \in Nat : y < x => <<y, x>> \in OpToRel(<, Nat)
  BY DEF OpToRel
<1>3. PICK x \in T : \A y \in T : <<y, x>> \notin OpToRel(<, Nat)
  BY <1>1, Zenon
<1>4. \A y \in T : ~(y < x)
  BY <1>2, <1>3, Zenon
<1>5. \A y \in T : x <= y
  BY <1>4
<1>6. QED
  BY <1>5 DEF Min

\* Max of a finite set of integers is its greatest element.
LEMMA MaxOf ==
  ASSUME NEW T, T \subseteq Int, IsFiniteSet(T), T # {}
  PROVE  Max(T) \in T /\ \A y \in T : Max(T) >= y
<1> DEFINE Greater(x) == {y \in T : y > x}
           Sets == {Greater(x) : x \in T}
<1>0. Sets \subseteq SUBSET T /\ Sets # {}
  OBVIOUS
<1>1. Sets \subseteq FiniteSubsetsOf(T)
  <2>1. FiniteSubsetsOf(T) = SUBSET T
    BY FS_FiniteSubsetsOfFinite
  <2>2. QED
    BY <1>0, <2>1, Zenon
<1>2. \E U \in Sets : \A V \in Sets : <<V, U>> \notin StrictSubsetOrdering(T)
  <2>1. IsWellFoundedOn(StrictSubsetOrdering(T), FiniteSubsetsOf(T))
    BY FS_StrictSubsetOrderingWellFounded
  <2>2. QED
    BY <1>0, <1>1, <2>1, WFMin, Zenon
<1>3. PICK m \in T : \A V \in Sets : <<V, Greater(m)>> \notin StrictSubsetOrdering(T)
  BY <1>2
<1>4. \A y \in T : y <= m
  <2> SUFFICES ASSUME NEW y \in T, y > m PROVE FALSE
    BY <1>3
  <2>0. y \in Int /\ m \in Int
    OBVIOUS
  <2>1. Greater(y) \subseteq Greater(m) /\ y \in Greater(m) /\ y \notin Greater(y)
    <3>1. \A z \in T : z > y => z > m
      BY <2>0
    <3>2. ~(y > y)
      BY <2>0
    <3>3. QED
      BY <3>1, <3>2, Zenon
  <2>2. Greater(y) # Greater(m)
    BY <2>1
  <2>3. Greater(y) \in Sets /\ Greater(y) \in SUBSET T /\ Greater(m) \in SUBSET T
    OBVIOUS
  <2>4. QED
    BY <1>3, <2>1, <2>2, <2>3 DEF StrictSubsetOrdering
<1>5. QED
  BY <1>3, <1>4 DEF Max

-----------------------------------------------------------------------------
(* Types *)

\* The interval of dates that scans go back to is an integer.
LEMMA StopType ==
  ASSUME TypeOK, Known # {}
  PROVE  Max({Era, Max({games[g] : g \in Known}) - Lookback}) \in Int
<1> DEFINE Newest == Max({games[g] : g \in Known})
<1>1. \A g \in Known : games[g] \in Dates
  BY DEF Known, TypeOK, InScope
<1> DEFINE Times == {games[g] : g \in Known}
<1>0. Dates \subseteq Int
  BY WftdaSyncAssumption
<1>2. Times \in SUBSET Dates /\ Times \subseteq Int /\ Times # {}
  BY <1>0, <1>1, Zenon
<1>3. IsFiniteSet(Times)
  BY <1>2, FS_Subset, WftdaSyncAssumption
<1>4. Newest \in Int
  BY <1>2, <1>3, MaxOf
<1> HIDE DEF Newest
<1>5. Newest - Lookback \in Int /\ Era \in Int
  BY <1>4, WftdaSyncAssumption
<1>6. IsFiniteSet({Era, Newest - Lookback})
  <2>1. IsFiniteSet({Era} \cup {Newest - Lookback})
    BY FS_AddElement, FS_Singleton
  <2>2. QED
    BY <2>1, {Era} \cup {Newest - Lookback} = {Era, Newest - Lookback}
<1>7. Max({Era, Newest - Lookback}) \in {Era, Newest - Lookback}
  BY <1>5, <1>6, MaxOf
<1>8. QED
  BY <1>5, <1>7 DEF Newest

\* A scan begins with a page, an age and nothing read.
LEMMA BeginType ==
  ASSUME TypeOK, BeginScan
  PROVE  age' \in 0..FullInterval /\ got' \in [Games -> InScope \cup {0}]
<1>1. age + 1 \in Nat /\ FullInterval \in Nat
  BY WftdaSyncAssumption DEF TypeOK
<1>2. Min({age + 1, FullInterval}) \in {age + 1, FullInterval} /\ Min({age + 1, FullInterval}) <= FullInterval
  BY <1>1, MinOf, {age + 1, FullInterval} \subseteq Nat
<1>3. QED
  BY <1>1, <1>2 DEF BeginScan, Nothing

\* Edits are counted up to their bound.
LEMMA EditType ==
  ASSUME TypeOK, Edit PROVE edits' \in 0..MaxEdits /\ still' \in BOOLEAN
<1>1. edits' \in 0..MaxEdits
  BY WftdaSyncAssumption DEF TypeOK, Edit
<1>2. still' \in BOOLEAN
  BY DEF Edit
<1>3. QED
  BY <1>1, <1>2

\* Every step keeps the types.
LEMMA NextTypeOK == TypeOK /\ [Next]_vars => TypeOK'
<1> SUFFICES ASSUME TypeOK, [Next]_vars PROVE TypeOK'
  OBVIOUS
<1> USE DEF feedVars, scanVars
<1>a. Era \in Nat /\ MaxEdits \in Nat /\ MaxFaults \in Nat /\ FullInterval \in Nat
  BY WftdaSyncAssumption
<1>b. Nothing \in [Games -> InScope \cup {0}]
  BY DEF Nothing
<1>1. CASE UNCHANGED vars
  BY <1>1 DEF vars, TypeOK
<1>2. ASSUME NEW g \in Games, NEW date \in Dates, Publish(g, date) PROVE TypeOK'
  <2>1. edits' \in 0..MaxEdits /\ still' \in BOOLEAN
    BY <1>2, EditType DEF Publish
  <2>2. feed' \in [Games -> Dates \cup {0}] /\ scored' \in SUBSET Games
    BY <1>2 DEF Publish, TypeOK
  <2>3. QED
    BY <1>2, <2>1, <2>2 DEF Publish, Edit, TypeOK
<1>3. ASSUME NEW g \in Games, Withdraw(g) PROVE TypeOK'
  <2>1. edits' \in 0..MaxEdits /\ still' \in BOOLEAN
    BY <1>3, EditType DEF Withdraw
  <2>2. feed' \in [Games -> Dates \cup {0}]
    BY <1>3 DEF Withdraw, TypeOK
  <2>3. QED
    BY <1>3, <2>1, <2>2 DEF Withdraw, Edit, TypeOK
<1>4. CASE StartSync
  <2>1. stop' \in Int
    BY <1>4, <1>a, StopType DEF StartSync
  <2>2. full' \in BOOLEAN
    BY <1>4 DEF StartSync
  <2>3. QED
    BY <1>4, <2>1, <2>2, BeginType DEF StartSync, BeginScan, TypeOK
<1>5. CASE ScopeFails
  BY <1>5, <1>a, BeginType DEF ScopeFails, BeginScan, TypeOK
<1>6. CASE ReadPage
  <2>1. got' \in [Games -> InScope \cup {0}]
    BY <1>6 DEF ReadPage, Kept, InScope, TypeOK
  <2>2. page' \in Nat \ {0} /\ stage' \in {"sleep", "scan", "store", "mark"}
    BY <1>6 DEF ReadPage, TypeOK
  <2>3. QED
    BY <1>6, <2>1, <2>2 DEF ReadPage, TypeOK
<1>7. CASE Store
  BY <1>7, <1>b DEF Store, TypeOK
<1>8. CASE Mark
  BY <1>8, <1>a DEF Mark, TypeOK
<1>9. CASE Fails
  <2>1. faults' \in 0..MaxFaults
    BY <1>9, <1>a DEF Fails, TypeOK
  <2>2. still' \in BOOLEAN
    BY <1>9 DEF Fails
  <2>3. QED
    BY <1>9, <2>1, <2>2, <1>b DEF Fails, TypeOK
<1>10. QED
  BY <1>1, <1>2, <1>3, <1>4, <1>5, <1>6, <1>7, <1>8, <1>9 DEF Next, Loop

\* The initial states have the types.
LEMMA InitTypeOK == Init => TypeOK
<1> SUFFICES ASSUME Init PROVE TypeOK
  OBVIOUS
<1>1. full \in BOOLEAN /\ still \in BOOLEAN
  BY DEF Init
<1>2. QED
  BY <1>1, WftdaSyncAssumption DEF Init, TypeOK, Nothing

\* Every variable keeps its type; in particular no game from before the era is
\* ever stored, whatever the pages hold.
THEOREM TypeCorrect == Spec => []TypeOK
BY InitTypeOK, NextTypeOK, PTL DEF Spec

-----------------------------------------------------------------------------
(* Ranks and pages *)

\* The games above one are finitely many.
LEMMA ListedIsFinite ==
  /\ IsFiniteSet(Listed)
  /\ \A g \in Listed : IsFiniteSet({h \in Listed : Above(h, g)})
<1>1. Listed \in SUBSET Games
  BY DEF Listed
<1>2. IsFiniteSet(Listed)
  BY <1>1, FS_Subset, WftdaSyncAssumption
<1>3. ASSUME NEW g \in Listed PROVE IsFiniteSet({h \in Listed : Above(h, g)})
  <2>1. {h \in Listed : Above(h, g)} \in SUBSET Listed
    OBVIOUS
  <2>2. QED
    BY <1>2, <2>1, FS_Subset
<1>4. QED
  BY <1>2, <1>3

\* Ranks and the number of games are numbers.
LEMMA RankType == Cardinality(Listed) \in Nat /\ \A g \in Listed : Rank(g) \in Nat
<1>1. Cardinality(Listed) \in Nat
  BY ListedIsFinite, FS_CardinalityType
<1>2. ASSUME NEW g \in Listed PROVE Rank(g) \in Nat
  <2>1. IsFiniteSet({h \in Listed : Above(h, g)})
    BY ListedIsFinite
  <2>2. QED
    BY <2>1, FS_CardinalityType DEF Rank
<1>3. QED
  BY <1>1, <1>2

\* The feed is a strict order of what it lists, and games further up rank lower.
LEMMA RankMonotone ==
  ASSUME TypeOK, NEW g \in Listed, NEW h \in Listed, Above(g, h)
  PROVE  Rank(g) < Rank(h)
<1> DEFINE A == {x \in Listed : Above(x, g)}
           B == {x \in Listed : Above(x, h)}
<1>1. \A x \in Listed : x \in Nat /\ feed[x] \in Nat
  BY WftdaSyncAssumption DEF Listed, TypeOK
<1>2. A \in SUBSET B
  BY <1>1 DEF Above
<1>3. g \in B /\ g \notin A
  BY <1>1 DEF Above
<1>4. Rank(g) <= Rank(h) /\ Rank(g) # Rank(h)
  <2>1. IsFiniteSet(B)
    BY ListedIsFinite
  <2>2. Cardinality(A) <= Cardinality(B) /\ Cardinality(A) # Cardinality(B)
    BY <2>1, <1>2, <1>3, FS_Subset
  <2>3. QED
    BY <2>2 DEF Rank
<1>5. QED
  BY <1>4, RankType

\* The rank of a listed game is less than the number of listed games.
LEMMA RankBelowAll ==
  ASSUME TypeOK, NEW g \in Listed
  PROVE  Rank(g) < Cardinality(Listed)
<1> DEFINE A == {x \in Listed : Above(x, g)}
<1>1. g \in Nat /\ feed[g] \in Nat
  BY WftdaSyncAssumption DEF Listed, TypeOK
<1>2. A \in SUBSET Listed /\ g \notin A
  BY <1>1 DEF Above
<1>3. Cardinality(A) <= Cardinality(Listed) /\ Cardinality(A) # Cardinality(Listed)
  BY <1>2, ListedIsFinite, FS_Subset
<1>4. Rank(g) <= Cardinality(Listed) /\ Rank(g) # Cardinality(Listed)
  BY <1>3 DEF Rank
<1>5. QED
  BY <1>4, RankType

\* Ranks leave no gap: behind an empty page there is no game.
LEMMA EmptyPageIsLast ==
  ASSUME TypeOK, NEW n \in Nat \ {0}, Page(n) = {}, NEW g \in Listed
  PROVE  Rank(g) < (n - 1) * PageSize
<1> DEFINE k == (n - 1) * PageSize
           Behind == {h \in Listed : Rank(h) >= k}
<1>k. k \in Nat /\ n * PageSize = k + PageSize /\ PageSize \in Nat \ {0}
  BY WftdaSyncAssumption
<1> HIDE DEF k
<1> SUFFICES ASSUME Rank(g) >= k PROVE FALSE
  BY <1>k, RankType DEF k
<1> DEFINE R == {Rank(h) : h \in Behind}
<1>1. R \subseteq Nat /\ R # {}
  BY RankType
<1>0. Min(R) \in R /\ \A y \in R : Min(R) <= y
  BY <1>1, MinOf, Zenon
<1>2. PICK m \in Behind : \A h \in Behind : Rank(m) <= Rank(h)
  BY <1>0, Zenon
<1>3. Rank(m) > k
  BY <1>k, <1>2, RankType DEF Page, k
<1> DEFINE A == {h \in Listed : Above(h, m)}
<1>4. \A h \in A : Rank(h) \in 0..(k - 1)
  BY <1>2, <1>k, RankMonotone, RankType
<1>5. \A x, y \in A : Rank(x) = Rank(y) => x = y
  <2> SUFFICES ASSUME NEW x \in A, NEW y \in A, x # y PROVE Rank(x) # Rank(y)
    OBVIOUS
  <2>0. x \in Nat /\ y \in Nat /\ feed[x] \in Nat /\ feed[y] \in Nat
    BY WftdaSyncAssumption DEF Listed, TypeOK
  <2>1. Above(x, y) \/ Above(y, x)
    BY <2>0 DEF Above
  <2>2. QED
    BY <2>1, RankMonotone, RankType
<1> DEFINE F == [h \in A |-> Rank(h)]
<1>6. F \in [A -> 0..(k - 1)] /\ \A x, y \in A : F[x] = F[y] => x = y
  BY <1>4, <1>5
<1> HIDE DEF F
<1>7. F \in Injection(A, 0..(k - 1))
  BY <1>6, Fun_IsInj
<1>8. Cardinality(A) <= Cardinality(0..(k - 1)) /\ Cardinality(0..(k - 1)) = k
  BY <1>7, <1>k, FS_Injection, FS_Interval
<1>9. QED
  BY <1>3, <1>8, <1>k, RankType DEF Rank

\* Behind the last page there is no game.
LEMMA LastPageIsLast ==
  ASSUME TypeOK, page >= LastPage, NEW g \in Listed
  PROVE  Rank(g) < page * PageSize
<1> DEFINE n == Cardinality(Listed)
           q == (n + PageSize - 1) \div PageSize
<1>1. n \in Nat /\ PageSize \in Nat \ {0} /\ page \in Nat
  BY RankType, WftdaSyncAssumption DEF TypeOK
<1> HIDE DEF n
<1>2. q \in Nat /\ n <= q * PageSize
  BY <1>1
<1> HIDE DEF q
<1>3. IsFiniteSet({page, q})
  <2>1. IsFiniteSet({page} \cup {q})
    BY FS_AddElement, FS_Singleton
  <2>2. QED
    BY <2>1, {page} \cup {q} = {page, q}
<1>a. {page, q} \subseteq Int /\ {page, q} # {}
  BY <1>1, <1>2
<1>b. \A y \in {page, q} : Max({page, q}) >= y
  BY <1>3, <1>a, MaxOf, Zenon
<1>c. Max({page, q}) >= q
  BY <1>b
<1>d. Max({page, q}) = LastPage
  BY DEF LastPage, n, q
<1>e. Max({page, q}) \in Int
  BY <1>3, <1>a, MaxOf
<1>4. page >= q
  BY <1>1, <1>2, <1>c, <1>d, <1>e
<1>5. q * PageSize <= page * PageSize
  BY <1>1, <1>2, <1>4
<1>6. QED
  BY <1>1, <1>2, <1>5, RankBelowAll, RankType DEF n

-----------------------------------------------------------------------------
(* A scan of a feed that stands still *)

\* What such a scan has read: every due game of the pages before the next one;
\* once it has stopped, every due game down to its cutoff; once stored, in the
\* table.
ScanInv ==
  still =>
    /\ stage = "scan" =>
         \A g \in Due : Rank(g) < (page - 1) * PageSize => got[g] = feed[g]
    /\ stage = "store" => \A g \in Due : feed[g] >= stop => got[g] = feed[g]
    /\ stage \in {"mark", "sleep"} =>
         \A g \in Due : feed[g] >= stop => games[g] = feed[g]

\* Ranks are those of the feed.
LEMMA RanksStay ==
  ASSUME UNCHANGED feedVars
  PROVE  Due' = Due /\ feed' = feed /\ \A g \in Games : Rank(g)' = Rank(g)
<1>1. Listed' = Listed
  BY DEF feedVars, Listed
<1>2. Due' = Due /\ feed' = feed
  BY <1>1 DEF feedVars, Due
<1>3. \A g \in Games : Rank(g)' = Rank(g)
  BY <1>1 DEF feedVars, Rank, Above
<1>4. QED
  BY <1>2, <1>3

\* Due games are listed, with a date.
LEMMA DueType ==
  ASSUME TypeOK, NEW g \in Due
  PROVE  g \in Games /\ g \in Listed /\ g \in scored /\ feed[g] >= Era /\ feed[g] \in Nat \ {0}
BY WftdaSyncAssumption DEF Due, Listed, TypeOK

\* The oldest date of a page is that of one of its games.
LEMMA OldestOf ==
  ASSUME TypeOK, NEW n \in Nat, Page(n) # {}
  PROVE  \E h \in Page(n) : feed[h] = Oldest(Page(n))
<1> DEFINE T == {feed[g] : g \in Page(n)}
<1>1. \A g \in Page(n) : feed[g] \in Nat
  BY WftdaSyncAssumption DEF Page, Listed, TypeOK
<1>2. T \subseteq Nat /\ T # {}
  BY <1>1, Zenon
<1>3. Min(T) \in T
  BY <1>2, MinOf, Zenon
<1>4. QED
  BY <1>3, Zenon DEF Oldest

\* Reading a page keeps what the scan has read complete.
LEMMA ReadPageScanInv == TypeOK /\ ScanInv /\ ReadPage => ScanInv'
<1> SUFFICES ASSUME TypeOK, ScanInv, ReadPage, still PROVE ScanInv'
  BY DEF ReadPage, ScanInv
<1> DEFINE rows == Page(page)
<1>1. \A g \in Due : Rank(g) < (page - 1) * PageSize => got[g] = feed[g]
  BY DEF ReadPage, ScanInv
<1>2. Due' = Due /\ feed' = feed /\ stop' = stop /\ still' = still
      /\ \A g \in Due : Rank(g)' = Rank(g)
  <2>1. UNCHANGED feedVars /\ UNCHANGED stop /\ UNCHANGED still
    BY DEF ReadPage
  <2>2. QED
    BY <2>1, RanksStay, DueType
<1>3. page \in Nat \ {0} /\ PageSize \in Nat \ {0}
      /\ (page - 1) * PageSize \in Nat /\ page * PageSize \in Nat
  BY WftdaSyncAssumption DEF TypeOK
<1>4. ASSUME rows # {}, NEW g \in Due, Rank(g) < page * PageSize
      PROVE  got'[g] = feed[g]
  <2>1. g \in Games /\ g \in Listed /\ g \in scored /\ feed[g] >= Era /\ Rank(g) \in Nat
    BY DueType, RankType
  <2>2. got'[g] = IF g \in Kept(rows) THEN feed[g] ELSE got[g]
    BY <1>4, <2>1 DEF ReadPage
  <2>3. CASE Rank(g) < (page - 1) * PageSize
    BY <1>1, <2>2, <2>3
  <2>4. CASE Rank(g) >= (page - 1) * PageSize
    <3>1. g \in rows
      BY <1>4, <2>1, <2>4 DEF Page
    <3>2. QED
      BY <2>1, <2>2, <3>1 DEF Kept
  <2>5. QED
    BY <1>3, <2>1, <2>3, <2>4
<1>5. CASE rows = {}
  <2>1. stage' = "store" /\ got' = got
    BY <1>5 DEF ReadPage
  <2>2. \A g \in Due : got[g] = feed[g]
    BY <1>1, <1>3, <1>5, EmptyPageIsLast, DueType
  <2>3. QED
    BY <1>2, <2>1, <2>2 DEF ScanInv
<1>6. CASE rows # {} /\ (ReachesCutoff(rows) \/ page >= LastPage)
  <2>1. stage' = "store"
    BY <1>6 DEF ReadPage
  <2>2. ASSUME NEW g \in Due, feed[g] >= stop PROVE Rank(g) < page * PageSize
    <3>1. CASE ReachesCutoff(rows)
      <4>1. PICK h \in rows : feed[h] = Oldest(rows)
        BY <1>3, <1>6, OldestOf
      <4>2. h \in Listed /\ Rank(h) < page * PageSize /\ feed[h] \in Nat /\ feed[g] \in Nat
            /\ stop \in Int
        BY DueType, WftdaSyncAssumption DEF Page, Listed, TypeOK
      <4>3. Above(g, h)
        BY <2>2, <3>1, <4>1, <4>2 DEF ReachesCutoff, Above
      <4>4. Rank(g) < Rank(h) /\ Rank(g) \in Nat /\ Rank(h) \in Nat
        BY <4>2, <4>3, DueType, RankMonotone, RankType
      <4>5. QED
        BY <1>3, <4>2, <4>4
    <3>2. CASE page >= LastPage
      BY <3>2, DueType, LastPageIsLast
    <3>3. QED
      BY <1>6, <3>1, <3>2
  <2>3. \A g \in Due : feed[g] >= stop => got'[g] = feed[g]
    BY <1>4, <1>6, <2>2
  <2>4. QED
    BY <1>2, <2>1, <2>3 DEF ScanInv
<1>7. CASE rows # {} /\ ~(ReachesCutoff(rows) \/ page >= LastPage)
  <2>1. stage' = "scan" /\ page' = page + 1
    BY <1>7 DEF ReadPage
  <2>2. \A g \in Due : Rank(g) < page * PageSize => got'[g] = feed[g]
    BY <1>4, <1>7
  <2>3. page' - 1 = page
    BY <1>3, <2>1
  <2>4. QED
    BY <1>2, <2>1, <2>2, <2>3 DEF ScanInv
<1>8. QED
  BY <1>5, <1>6, <1>7

\* Every step keeps it.
LEMMA NextScanInv == TypeOK /\ ScanInv /\ [Next]_vars => ScanInv'
<1> SUFFICES ASSUME TypeOK, ScanInv, [Next]_vars PROVE ScanInv'
  OBVIOUS
<1>1. CASE UNCHANGED vars
  <2>1. UNCHANGED feedVars /\ UNCHANGED scanVars /\ UNCHANGED <<stage, games, still>>
    BY <1>1 DEF vars
  <2>2. Due' = Due /\ feed' = feed /\ \A g \in Due : Rank(g)' = Rank(g)
    BY <2>1, RanksStay, DueType
  <2>3. QED
    BY <2>1, <2>2 DEF ScanInv, scanVars
<1>2. ASSUME NEW g \in Games, NEW date \in Dates, Publish(g, date) PROVE ScanInv'
  BY <1>2 DEF Publish, Edit, ScanInv
<1>3. ASSUME NEW g \in Games, Withdraw(g) PROVE ScanInv'
  BY <1>3 DEF Withdraw, Edit, ScanInv
<1>4. ASSUME BeginScan PROVE ScanInv'
  <2>1. stage' = "scan" /\ page' = 1 /\ UNCHANGED feedVars
    BY <1>4 DEF BeginScan
  <2>2. Due' = Due /\ \A g \in Due : Rank(g)' = Rank(g) /\ Rank(g) \in Nat
    BY <2>1, RanksStay, DueType, RankType
  <2>3. (page' - 1) * PageSize = 0
    BY <2>1, WftdaSyncAssumption
  <2>4. \A g \in Due : ~(Rank(g)' < (page' - 1) * PageSize)
    BY <2>2, <2>3
  <2>5. QED
    BY <2>1, <2>2, <2>4 DEF ScanInv
<1>5. CASE ReadPage
  BY <1>5, ReadPageScanInv
<1>6. CASE Store
  <2>1. UNCHANGED feedVars /\ stop' = stop /\ still' = still
        /\ stage' \in {"mark", "sleep"} /\ stage = "store"
    BY <1>6 DEF Store
  <2>2. Due' = Due /\ feed' = feed
    BY <2>1, RanksStay
  <2>3. ASSUME still, NEW g \in Due, feed[g] >= stop PROVE games'[g] = feed[g]
    <3>1. got[g] = feed[g] /\ feed[g] # 0 /\ g \in Games
      BY <2>1, <2>3, DueType DEF ScanInv
    <3>2. QED
      BY <1>6, <3>1 DEF Store
  <2>4. QED
    BY <2>1, <2>2, <2>3 DEF ScanInv
<1>7. CASE Mark
  <2>1. UNCHANGED feedVars /\ stop' = stop /\ still' = still /\ games' = games
        /\ stage' = "sleep" /\ stage = "mark"
    BY <1>7 DEF Mark, scanVars
  <2>2. Due' = Due /\ feed' = feed
    BY <2>1, RanksStay
  <2>3. QED
    BY <2>1, <2>2 DEF ScanInv
<1>8. CASE Fails
  BY <1>8 DEF Fails, ScanInv
<1>9. QED
  BY <1>1, <1>2, <1>3, <1>4, <1>5, <1>6, <1>7, <1>8 DEF Next, Loop, StartSync, ScopeFails

\* A scan during which the feed stood still has stored every game down to its
\* cutoff, for feeds of any length and pages of any size: sync_games stops
\* neither before the cutoff nor before the end of the feed, and the order of
\* the feed puts every game that is due on a page the scan has read.
THEOREM StillScansAreComplete == Spec => []StillScanIsComplete
<1>1. Init => TypeOK /\ ScanInv
  <2>1. Init => ScanInv
    BY DEF Init, ScanInv
  <2>2. Init => TypeOK
    BY InitTypeOK
  <2>3. QED
    BY <2>1, <2>2
<1>2. TypeOK /\ ScanInv /\ [Next]_vars => (TypeOK /\ ScanInv)'
  BY NextTypeOK, NextScanInv
<1>3. ScanInv => StillScanIsComplete
  BY DEF ScanInv, StillScanIsComplete
<1>4. QED
  BY <1>1, <1>2, <1>3, PTL DEF Spec
=============================================================================
