-------------------------- MODULE HttpCacheProofs --------------------------
(***************************************************************************)
(* Theorems about HttpCache for every number of pages, requests, loops and *)
(* writes, every size of bodies and every limit.                           *)
(***************************************************************************)
EXTENDS HttpCache, TLAPS, FiniteSetTheorems, WellFoundedInduction

\* A request past its miss knows its page, and past its render what it saw.
RequestsOK ==
  \A r \in Requests : /\ at[r] # "idle" => page[r] \in Pages
                      /\ at[r] = "rendered" => saw[r] \in States

TypeInv == TypeOK /\ RequestsOK

\* Storing a page keeps the types of the cache.
LEMMA SetType ==
  ASSUME TypeInv, NEW p \in Pages, NEW version \in States, Set(p, version)
  PROVE  entries' \in [Pages -> States \cup {0}] /\ used' \in 0..MaxBytes
<1>1. BodySize[p][version] \in Nat
  BY HttpCacheAssumption
<1>2. entries[p] # 0 => BodySize[p][entries[p]] \in Nat
  BY HttpCacheAssumption DEF TypeInv, TypeOK
<1>3. UsedAfter(p, BodySize[p][version]) \in Nat
  BY <1>1, <1>2 DEF UsedAfter, SizeOf, TypeInv, TypeOK
<1>4. QED
  BY <1>3, HttpCacheAssumption DEF Set, TypeInv, TypeOK

\* Every step of a request or a loop keeps the types and what requests hold.
LEMMA NextTypeInv == TypeInv /\ [Next]_vars => TypeInv'
<1> SUFFICES ASSUME TypeInv, [Next]_vars PROVE TypeInv'
  OBVIOUS
<1> USE DEF TypeInv, TypeOK, RequestsOK, requestVars
<1>1. CASE UNCHANGED vars
  BY <1>1 DEF vars
<1>2. ASSUME NEW r \in Requests, NEW p \in Pages, Miss(r, p) \/ HitFails(r, p) PROVE TypeInv'
  BY <1>2 DEF Miss, HitFails, Ask
<1>3. ASSUME NEW r \in Requests, Render(r) \/ Abandon(r) PROVE TypeInv'
  BY <1>3 DEF Render, Abandon, Done
<1>4. ASSUME NEW r \in Requests, Respond(r) PROVE TypeInv'
  <2>1. entries' \in [Pages -> States \cup {0}] /\ used' \in 0..MaxBytes
    BY <1>4, SetType DEF Respond
  <2>2. QED
    BY <1>4, <2>1 DEF Respond, Done
<1>5. ASSUME NEW l \in Loops, Write(l) PROVE TypeInv'
  <2>1. db' \in States
    BY <1>5, HttpCacheAssumption DEF Write, States
  <2>2. QED
    BY <1>5, <2>1 DEF Write
<1>6. ASSUME NEW l \in Loops, Clear(l) PROVE TypeInv'
  BY <1>6, HttpCacheAssumption DEF Clear
<1>7. QED
  BY <1>1, <1>2, <1>3, <1>4, <1>5, <1>6 DEF Next

\* An empty cache with no request in flight satisfies the type invariant.
LEMMA InitTypeInv == Init => TypeInv
BY HttpCacheAssumption DEF Init, TypeInv, TypeOK, RequestsOK, States

\* Every variable keeps its type; in particular the bytes counted as cached stay
\* between zero and the limit, whatever the sizes and the order of requests.
THEOREM TypeCorrect == Spec => []TypeOK
<1>1. TypeInv => TypeOK
  BY DEF TypeInv
<1>2. QED
  BY <1>1, InitTypeInv, NextTypeInv, PTL DEF Spec

-----------------------------------------------------------------------------
(* Quiet clears *)

\* After a quiet clear every request that has rendered did so since, from the
\* state the database is still in.
RendersAreCurrent ==
  quiet => \A r \in Requests : at[r] = "rendered" => saw[r] = db

FreshInv == TypeInv /\ QuietClearIsFresh /\ RendersAreCurrent

\* Every step keeps what a quiet clear has established until the next write.
LEMMA NextFreshInv == FreshInv /\ [Next]_vars => FreshInv'
<1> SUFFICES ASSUME FreshInv, [Next]_vars PROVE (QuietClearIsFresh /\ RendersAreCurrent)'
  BY NextTypeInv DEF FreshInv
<1> USE DEF FreshInv, TypeInv, TypeOK, RequestsOK, QuietClearIsFresh, RendersAreCurrent,
            Current, requestVars
<1>1. CASE UNCHANGED vars
  BY <1>1 DEF vars
<1>2. ASSUME NEW r \in Requests, NEW p \in Pages, Miss(r, p) \/ HitFails(r, p)
      PROVE  (QuietClearIsFresh /\ RendersAreCurrent)'
  BY <1>2 DEF Miss, HitFails, Ask
<1>3. ASSUME NEW r \in Requests, Render(r) \/ Abandon(r)
      PROVE  (QuietClearIsFresh /\ RendersAreCurrent)'
  BY <1>3 DEF Render, Abandon, Done
<1>4. ASSUME NEW r \in Requests, Respond(r)
      PROVE  (QuietClearIsFresh /\ RendersAreCurrent)'
  \* If the clear was quiet, what is stored now was rendered since.
  BY <1>4 DEF Respond, Set, Done
<1>5. ASSUME NEW l \in Loops, Write(l) PROVE (QuietClearIsFresh /\ RendersAreCurrent)'
  BY <1>5 DEF Write
<1>6. ASSUME NEW l \in Loops, Clear(l) PROVE (QuietClearIsFresh /\ RendersAreCurrent)'
  BY <1>6, HttpCacheAssumption DEF Clear
<1>7. QED
  BY <1>1, <1>2, <1>3, <1>4, <1>5, <1>6 DEF Next

\* With no request in flight at a clear, every page served until the next
\* ingest write is rendered from the present state of the database.
THEOREM QuietClearsAreFresh == Spec => []QuietClearIsFresh
<1>1. Init => FreshInv
  BY InitTypeInv DEF Init, FreshInv, QuietClearIsFresh, RendersAreCurrent, Current
<1>2. FreshInv => QuietClearIsFresh
  BY DEF FreshInv
<1>3. QED
  BY <1>1, <1>2, NextFreshInv, PTL DEF Spec

-----------------------------------------------------------------------------
(* Induction on finite sets *)

\* What holds of a subset of S if it holds of all smaller ones holds of all.
LEMMA SubsetInduction ==
  ASSUME NEW S, IsFiniteSet(S), NEW Good,
         \A T \in SUBSET S : (\A U \in SUBSET T : U # T => U \in Good) => T \in Good
  PROVE  \A T \in SUBSET S : T \in Good
<1> DEFINE Bad == {T \in SUBSET S : T \notin Good}
<1> SUFFICES ASSUME Bad # {} PROVE FALSE
  OBVIOUS
<1>1. Bad \subseteq FiniteSubsetsOf(S)
  <2>1. FiniteSubsetsOf(S) = SUBSET S
    BY FS_FiniteSubsetsOfFinite
  <2>2. Bad \subseteq SUBSET S
    OBVIOUS
  <2>3. QED
    BY <2>1, <2>2, Zenon
<1>2. \E T \in Bad : \A U \in Bad : <<U, T>> \notin StrictSubsetOrdering(S)
  <2>1. IsWellFoundedOn(StrictSubsetOrdering(S), FiniteSubsetsOf(S))
    BY FS_StrictSubsetOrderingWellFounded
  <2>2. Bad # {}
    OBVIOUS
  <2> HIDE DEF Bad
  <2>3. QED
    BY <1>1, <2>1, <2>2, WFMin
<1>3. PICK T \in Bad : \A U \in Bad : <<U, T>> \notin StrictSubsetOrdering(S)
  BY <1>2
<1>4. ASSUME NEW U \in SUBSET T, U # T PROVE U \in Good
  <2>1. U \in SUBSET S /\ T \in SUBSET S
    OBVIOUS
  <2>2. U \in Bad => <<U, T>> \in StrictSubsetOrdering(S)
    BY <1>4, <2>1 DEF StrictSubsetOrdering
  <2>3. QED
    BY <1>3, <2>1, <2>2
<1>5. QED
  BY <1>4

-----------------------------------------------------------------------------
(* Sums *)

\* The member of s the fold takes out first.
Pick(s) == CHOOSE x \in s : TRUE

\* h is a table of the sums of F over the subsets of S.
IsTable(h, F, S) == h = [s \in SUBSET S |-> IF s = {} THEN 0 ELSE F[Pick(s)] + h[s \ {Pick(s)}]]

\* The sum over the set S of the values of the function F.
SumOf(F, S) == MapThenSumSet(LAMBDA x : F[x], S)

\* A set that is not empty has the member picked from it.
LEMMA PickIsIn == ASSUME NEW s, s # {} PROVE Pick(s) \in s
  BY DEF Pick

\* A table satisfies its equation.
LEMMA TableOf ==
  ASSUME NEW F, NEW S, NEW h, IsTable(h, F, S), NEW s \in SUBSET S
  PROVE  h[s] = IF s = {} THEN 0 ELSE F[Pick(s)] + h[s \ {Pick(s)}]
<1> DEFINE body(t) == IF t = {} THEN 0 ELSE F[Pick(t)] + h[t \ {Pick(t)}]
<1>1. h = [t \in SUBSET S |-> body(t)]
  BY DEF IsTable
<1> HIDE DEF body
<1>2. h[s] = body(s)
  BY <1>1
<1> QED BY <1>2 DEF body

\* Two tables agree on the sets that are in both.
LEMMA TablesAgree ==
  ASSUME NEW F, NEW S, NEW T, IsFiniteSet(S), T \subseteq S,
         NEW g, IsTable(g, F, S), NEW h, IsTable(h, F, T)
  PROVE  \A s \in SUBSET T : g[s] = h[s]
<1>0. \A s \in SUBSET S : g[s] = IF s = {} THEN 0 ELSE F[Pick(s)] + g[s \ {Pick(s)}]
  BY TableOf DEF IsTable
<1> DEFINE Good == {s \in SUBSET T : g[s] = h[s]}
<1>1. ASSUME NEW s \in SUBSET T, \A u \in SUBSET s : u # s => u \in Good PROVE s \in Good
  <2>1. s \in SUBSET S
    OBVIOUS
  <2>2. s # {} => s \ {Pick(s)} \in Good
    BY <1>1, PickIsIn
  <2>3. g[s] = IF s = {} THEN 0 ELSE F[Pick(s)] + g[s \ {Pick(s)}]
    BY <1>0, <2>1
  <2>4. h[s] = IF s = {} THEN 0 ELSE F[Pick(s)] + h[s \ {Pick(s)}]
    BY TableOf
  <2>5. QED
    BY <2>2, <2>3, <2>4
<1>2. IsFiniteSet(T)
  BY FS_Subset
<1>3. \A s \in SUBSET T : s \in Good
  <2> HIDE DEF Good
  <2> QED BY <1>1, <1>2, SubsetInduction
<1>4. QED
  BY <1>3

\* A finite set has a table.
LEMMA TableExists ==
  ASSUME NEW F, NEW S, IsFiniteSet(S) PROVE \E h : IsTable(h, F, S)
<1> DEFINE Good == {T \in SUBSET S : \E h : IsTable(h, F, T)}
<1>1. ASSUME NEW T \in SUBSET S, \A U \in SUBSET T : U # T => U \in Good PROVE T \in Good
  <2> DEFINE Table(U) == CHOOSE h : IsTable(h, F, U)
             Total(U) == Table(U)[U]
             new == [s \in SUBSET T |-> IF s = {} THEN 0 ELSE F[Pick(s)] + Total(s \ {Pick(s)})]
  <2>1. \A U \in SUBSET T : U # T => IsTable(Table(U), F, U)
    <3>1. \A U \in SUBSET T : U # T => \E h : IsTable(h, F, U)
      BY <1>1
    <3>2. QED
      BY <3>1, Zenon
  <2>2. ASSUME NEW U \in SUBSET T, U # T PROVE Total(U) = new[U]
    <3>1. IsTable(Table(U), F, U) /\ IsFiniteSet(U)
      BY <2>1, <2>2, FS_Subset
    <3>2. Total(U) = IF U = {} THEN 0 ELSE F[Pick(U)] + Table(U)[U \ {Pick(U)}]
      <4> HIDE DEF Table
      <4> QED BY <3>1, TableOf
    <3>3. ASSUME U # {} PROVE Table(U)[U \ {Pick(U)}] = Total(U \ {Pick(U)})
      <4> DEFINE V == U \ {Pick(U)}
      <4>1. V \in SUBSET T /\ V # T /\ V \subseteq U
        BY <3>3, PickIsIn
      <4>2. IsTable(Table(V), F, V)
        BY <2>1, <4>1
      <4> HIDE DEF Table, V
      <4>3. \A s \in SUBSET V : Table(U)[s] = Table(V)[s]
        BY <3>1, <4>1, <4>2, TablesAgree
      <4>4. Table(U)[V] = Table(V)[V]
        BY <4>3
      <4>5. QED
        BY <4>4 DEF V
    <3> HIDE DEF Table, Total
    <3>4. QED
      BY <3>2, <3>3
  <2>3. ASSUME NEW s \in SUBSET T, s # {} PROVE Total(s \ {Pick(s)}) = new[s \ {Pick(s)}]
    <3>1. s \ {Pick(s)} \in SUBSET T /\ s \ {Pick(s)} # T
      BY <2>3, PickIsIn
    <3> HIDE DEF new, Total
    <3>2. QED
      BY <2>2, <3>1
  <2>4. IsTable(new, F, T)
    <3> HIDE DEF Total
    <3> QED BY <2>3 DEF IsTable
  <2>5. QED
    BY <2>4
<1>2. \A T \in SUBSET S : T \in Good
  <2> HIDE DEF Good
  <2> QED BY <1>1, SubsetInduction
<1>3. S \in Good
  BY <1>2
<1>4. QED
  BY <1>3

\* The sum over a finite set is that of its table, and of that of any larger set.
LEMMA SumOfTable ==
  ASSUME NEW F, NEW S, IsFiniteSet(S), NEW T, T \subseteq S, NEW h, IsTable(h, F, S)
  PROVE  SumOf(F, T) = h[T]
<1> DEFINE table == CHOOSE g : IsTable(g, F, T)
<1>1. SumOf(F, T) = table[T]
  BY DEF SumOf, MapThenSumSet, MapThenFoldSet, IsTable, Pick
<1>2. IsTable(table, F, T)
  <2>1. \E g : IsTable(g, F, T)
    BY TableExists, FS_Subset
  <2>2. QED
    BY <2>1, Zenon
<1> HIDE DEF table
<1>3. h[T] = table[T]
  BY <1>2, TablesAgree
<1>4. QED
  BY <1>1, <1>3

\* The sum over no summands is zero.
LEMMA SumOfEmpty == ASSUME NEW F PROVE SumOf(F, {}) = 0
<1>1. IsFiniteSet({})
  BY FS_EmptySet
<1>2. PICK h : IsTable(h, F, {})
  BY <1>1, TableExists
<1>3. h[{}] = 0
  BY <1>2, TableOf
<1>4. QED
  BY <1>1, <1>2, <1>3, SumOfTable

\* A sum of naturals is one, and any summand can be taken out of it.
LEMMA SumTakesOut ==
  ASSUME NEW F, NEW S, IsFiniteSet(S), \A x \in S : F[x] \in Nat
  PROVE  \A T \in SUBSET S : /\ SumOf(F, T) \in Nat
                             /\ \A x \in T : SumOf(F, T) = F[x] + SumOf(F, T \ {x})
<1>1. PICK h : IsTable(h, F, S)
  BY TableExists
<1>2. \A T \in SUBSET S : SumOf(F, T) = h[T]
  BY <1>1, SumOfTable
<1> DEFINE Good == {T \in SUBSET S : h[T] \in Nat /\ \A x \in T : h[T] = F[x] + h[T \ {x}]}
<1>3. ASSUME NEW T \in SUBSET S, \A U \in SUBSET T : U # T => U \in Good PROVE T \in Good
  <2>1. h[T] = IF T = {} THEN 0 ELSE F[Pick(T)] + h[T \ {Pick(T)}]
    BY <1>1, TableOf
  <2>2. CASE T = {}
    BY <2>1, <2>2
  <2>3. CASE T # {}
    <3> DEFINE p == Pick(T)
    <3>1. p \in T
      BY <2>3, PickIsIn
    <3> HIDE DEF p
    <3>2. T \ {p} \in Good /\ h[T] = F[p] + h[T \ {p}]
      BY <1>3, <2>1, <2>3, <3>1 DEF p
    <3>3. F[p] \in Nat /\ h[T \ {p}] \in Nat
      BY <3>1, <3>2
    <3>4. ASSUME NEW x \in T PROVE h[T] = F[x] + h[T \ {x}]
      <4>1. CASE x = p
        BY <3>2, <4>1
      <4>2. CASE x # p
        <5>1. T \ {x} \in Good /\ p \in T \ {x} /\ x \in T \ {p}
          BY <1>3, <3>1, <4>2
        <5>2. (T \ {x}) \ {p} = (T \ {p}) \ {x}
          OBVIOUS
        <5>3. (T \ {x}) \ {p} \in Good
          BY <1>3, <3>1
        <5>4. h[T \ {p}] = F[x] + h[(T \ {p}) \ {x}] /\ h[T \ {x}] = F[p] + h[(T \ {x}) \ {p}]
          BY <3>2, <5>1
        <5>5. F[x] \in Nat /\ F[p] \in Nat /\ h[(T \ {x}) \ {p}] \in Nat
          BY <3>1, <5>3
        <5>6. h[T] = F[p] + (F[x] + h[(T \ {x}) \ {p}])
          BY <3>2, <5>2, <5>4
        <5>7. h[T] = F[x] + (F[p] + h[(T \ {x}) \ {p}])
          <6> DEFINE rest == h[(T \ {x}) \ {p}]
          <6> HIDE DEF rest
          <6>1. F[x] \in Nat /\ F[p] \in Nat /\ rest \in Nat
            BY <5>5 DEF rest
          <6>2. h[T] = F[p] + (F[x] + rest)
            BY <5>6 DEF rest
          <6>3. F[p] + (F[x] + rest) = F[x] + (F[p] + rest)
            BY <6>1
          <6>4. QED
            BY <6>2, <6>3 DEF rest
        <5>8. QED
          BY <5>4, <5>7
      <4>3. QED
        BY <4>1, <4>2
    <3>5. h[T] \in Nat
      BY <3>2, <3>3
    <3>6. QED
      BY <3>4, <3>5
  <2>4. QED
    BY <2>2, <2>3
<1>4. \A T \in SUBSET S : T \in Good
  <2> HIDE DEF Good
  <2> QED BY <1>3, SubsetInduction
<1>5. QED
  BY <1>2, <1>4

\* Equal summands have equal sums.
LEMMA SumsAreEqual ==
  ASSUME NEW F, NEW G, NEW S, IsFiniteSet(S), \A x \in S : F[x] = G[x]
  PROVE  SumOf(F, S) = SumOf(G, S)
<1>1. PICK h : IsTable(h, F, S)
  BY TableExists
<1>2. \A s \in SUBSET S : s # {} => F[Pick(s)] = G[Pick(s)]
  BY PickIsIn
<1>3. IsTable(h, G, S)
  <2>1. h = [s \in SUBSET S |-> IF s = {} THEN 0 ELSE F[Pick(s)] + h[s \ {Pick(s)}]]
    BY <1>1 DEF IsTable
  <2>2. QED
    BY <1>2, <2>1 DEF IsTable
<1>4. QED
  BY <1>1, <1>3, SumOfTable

-----------------------------------------------------------------------------
(* The count of the cached bytes *)

\* The size of every page's entry; that of a page not cached is not used.
Sizes == [p \in Pages |-> SizeOf(p)]

ExactInv == TypeInv /\ IsFiniteSet(Cached) /\ UsedIsExact

\* The sum of the property is that of the sizes.
LEMMA UsedAsSum ==
  IsFiniteSet(Cached) => MapThenSumSet(SizeOf, Cached) = SumOf(Sizes, Cached)
<1> SUFFICES ASSUME IsFiniteSet(Cached)
             PROVE  MapThenSumSet(SizeOf, Cached) = SumOf(Sizes, Cached)
  OBVIOUS
<1> DEFINE IsSizeTable(h) ==
             h = [s \in SUBSET Cached |->
                    IF s = {} THEN 0 ELSE SizeOf(Pick(s)) + h[s \ {Pick(s)}]]
           table == CHOOSE h : IsSizeTable(h)
<1>1. \A s \in SUBSET Cached : s # {} => Sizes[Pick(s)] = SizeOf(Pick(s))
  <2>1. \A s \in SUBSET Cached : s # {} => Pick(s) \in Pages
    BY PickIsIn DEF Cached
  <2>2. QED
    BY <2>1 DEF Sizes
<1>2. \A h : IsSizeTable(h) <=> IsTable(h, Sizes, Cached)
  BY <1>1 DEF IsTable
<1>3. MapThenSumSet(SizeOf, Cached) = table[Cached]
  BY DEF MapThenSumSet, MapThenFoldSet, Pick
<1> HIDE DEF IsSizeTable
<1>4. IsTable(table, Sizes, Cached)
  <2>1. \E h : IsSizeTable(h)
    BY <1>2, TableExists
  <2>2. IsSizeTable(table)
    BY <2>1, Zenon
  <2>3. QED
    BY <1>2, <2>2
<1> HIDE DEF table
<1>5. QED
  BY <1>3, <1>4, SumOfTable

\* What leaves the cache and the count alone keeps the count exact.
LEMMA UnchangedIsExact ==
  ASSUME ExactInv, UNCHANGED <<entries, used>>
  PROVE  IsFiniteSet(Cached') /\ UsedIsExact'
<1>1. Cached' = Cached /\ Sizes' = Sizes
  BY DEF Cached, Sizes, SizeOf
<1>2. used = SumOf(Sizes, Cached)
  BY UsedAsSum DEF ExactInv, UsedIsExact
<1>3. (IsFiniteSet(Cached) => MapThenSumSet(SizeOf, Cached) = SumOf(Sizes, Cached))'
  BY UsedAsSum, PTL
<1>4. used' = (MapThenSumSet(SizeOf, Cached))'
  BY <1>1, <1>2, <1>3 DEF ExactInv
<1>5. QED
  BY <1>1, <1>4 DEF ExactInv, UsedIsExact

\* Storing a page adds its size and takes off that of the entry it replaces.
LEMMA SetIsExact ==
  ASSUME ExactInv, TypeInv', NEW p \in Pages, NEW version \in States, Set(p, version)
  PROVE  IsFiniteSet(Cached') /\ UsedIsExact'
<1> DEFINE size == BodySize[p][version]
           others == Cached \ {p}
<1>1. CASE UNCHANGED <<entries, used>>
  BY <1>1, UnchangedIsExact
<1>2. CASE /\ entries' = [entries EXCEPT ![p] = version]
           /\ used' = UsedAfter(p, size)
  <2>0. size \in Nat
    BY HttpCacheAssumption
  <2>1. Cached' = others \cup {p}
    <3>1. entries \in [Pages -> States \cup {0}] /\ version # 0
      BY DEF ExactInv, TypeInv, TypeOK, States
    <3>2. QED
      BY <1>2, <3>1 DEF Cached
  <2>2. IsFiniteSet(others) /\ IsFiniteSet(Cached')
    BY <2>1, FS_Subset, FS_AddElement DEF ExactInv
  <2>3. \A q \in Cached' : Sizes'[q] \in Nat
    BY HttpCacheAssumption DEF TypeInv, TypeOK, Sizes, SizeOf, Cached
  <2>4. \A q \in Cached : Sizes[q] \in Nat
    BY HttpCacheAssumption DEF ExactInv, TypeInv, TypeOK, Sizes, SizeOf, Cached
  <2>5. Sizes'[p] = size /\ \A q \in others : Sizes'[q] = Sizes[q]
    BY <1>2 DEF ExactInv, TypeInv, TypeOK, Sizes, SizeOf, Cached
  <2>6. SumOf(Sizes', Cached') = size + SumOf(Sizes, others)
    <3>1. SumOf(Sizes', Cached') = Sizes'[p] + SumOf(Sizes', Cached' \ {p})
      BY <2>1, <2>2, <2>3, SumTakesOut
    <3>2. Cached' \ {p} = others
      BY <2>1
    <3>3. SumOf(Sizes', others) = SumOf(Sizes, others)
      BY <2>2, <2>5, SumsAreEqual
    <3>4. QED
      BY <2>5, <3>1, <3>2, <3>3
  <2>7. used = SumOf(Sizes, Cached)
    BY UsedAsSum DEF ExactInv, UsedIsExact
  <2>8. SumOf(Sizes, others) \in Nat
    BY <2>2, <2>4, SumTakesOut DEF ExactInv
  <2>9. used' = SumOf(Sizes, others) + size
    <3>1. CASE entries[p] = 0
      <4>1. others = Cached
        BY <3>1 DEF Cached
      <4>2. QED
        BY <1>2, <2>0, <2>7, <2>8, <3>1, <4>1 DEF UsedAfter
    <3>2. CASE entries[p] # 0
      <4>1. p \in Cached /\ SizeOf(p) = Sizes[p]
        BY <3>2 DEF Cached, Sizes
      <4>2. used = SizeOf(p) + SumOf(Sizes, others)
        BY <2>4, <2>7, <4>1, SumTakesOut DEF ExactInv
      <4>3. SizeOf(p) \in Nat
        BY <2>4, <4>1
      <4>4. QED
        BY <1>2, <2>8, <3>2, <4>2, <4>3 DEF UsedAfter
    <3>3. QED
      BY <3>1, <3>2
  <2>10. (MapThenSumSet(SizeOf, Cached))' = SumOf(Sizes', Cached')
    <3>1. (IsFiniteSet(Cached) => MapThenSumSet(SizeOf, Cached) = SumOf(Sizes, Cached))'
      BY UsedAsSum, PTL
    <3>2. QED
      BY <2>2, <3>1
  <2>11. used' = (MapThenSumSet(SizeOf, Cached))'
    BY <2>0, <2>6, <2>8, <2>9, <2>10
  <2>12. QED
    BY <2>2, <2>11 DEF UsedIsExact
<1>3. QED
  BY <1>1, <1>2 DEF Set

\* Every step keeps the count exact: only Respond and Clear touch the cache.
LEMMA NextExactInv == ExactInv /\ [Next]_vars => ExactInv'
<1> SUFFICES ASSUME ExactInv, [Next]_vars PROVE ExactInv'
  OBVIOUS
<1>1. TypeInv'
  BY NextTypeInv DEF ExactInv
<1>2. ASSUME UNCHANGED <<entries, used>> PROVE IsFiniteSet(Cached') /\ UsedIsExact'
  BY <1>2, UnchangedIsExact
<1>3. ASSUME NEW r \in Requests, Respond(r) PROVE IsFiniteSet(Cached') /\ UsedIsExact'
  <2>1. page[r] \in Pages /\ saw[r] \in States
    BY <1>3 DEF Respond, ExactInv, TypeInv, RequestsOK
  <2>2. QED
    BY <1>1, <1>2, <1>3, <2>1, SetIsExact DEF Respond
<1>4. ASSUME NEW l \in Loops, Clear(l) PROVE IsFiniteSet(Cached') /\ UsedIsExact'
  <2>1. Cached' = {} /\ used' = 0
    BY <1>4 DEF Clear, Cached
  <2>2. (IsFiniteSet(Cached) => MapThenSumSet(SizeOf, Cached) = SumOf(Sizes, Cached))'
    BY UsedAsSum, PTL
  <2>3. QED
    BY <2>1, <2>2, FS_EmptySet, SumOfEmpty DEF UsedIsExact
<1>5. IsFiniteSet(Cached') /\ UsedIsExact'
  <2>1. CASE UNCHANGED vars
    BY <1>2, <2>1 DEF vars
  <2>2. ASSUME NEW r \in Requests, (\E p \in Pages : Miss(r, p) \/ HitFails(r, p)) \/ Render(r) \/ Abandon(r)
        PROVE  UNCHANGED <<entries, used>>
    BY <2>2 DEF Miss, HitFails, Ask, Render, Abandon
  <2>3. ASSUME NEW l \in Loops, Write(l) PROVE UNCHANGED <<entries, used>>
    BY <2>3 DEF Write
  <2>4. QED
    BY <1>2, <1>3, <1>4, <2>1, <2>2, <2>3 DEF Next
<1>6. QED
  BY <1>1, <1>5 DEF ExactInv

\* However many pages there are and however requests for the same page race with
\* each other and with the clears, used_bytes is the sum of the sizes of what is
\* cached; in particular the saturating subtraction never saturates.
THEOREM UsedBytesAreExact == Spec => []UsedIsExact
<1>1. Init => ExactInv
  <2> SUFFICES ASSUME Init PROVE ExactInv
    OBVIOUS
  <2>1. Cached = {} /\ used = 0
    BY DEF Init, Cached
  <2>2. QED
    BY <2>1, InitTypeInv, UsedAsSum, FS_EmptySet, SumOfEmpty DEF ExactInv, UsedIsExact
<1>2. ExactInv => UsedIsExact
  BY DEF ExactInv
<1>3. QED
  BY <1>1, <1>2, NextExactInv, PTL DEF Spec
=============================================================================
