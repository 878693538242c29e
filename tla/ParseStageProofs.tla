-------------------------- MODULE ParseStageProofs --------------------------
(***************************************************************************)
(* Theorems about ParseStage for every set of files, size of batches,      *)
(* history of uploads and number of faults: the types, that the byte cache *)
(* never brings back an older revision unless it raced an upload, and that *)
(* an undisturbed drain leaves only rows that cannot be parsed.            *)
(***************************************************************************)
EXTENDS ParseStage, FiniteSetTheorems, WellFoundedInduction, TLAPS

\* Times are in the past; listed files and cached bytes have a revision.
TimesOK ==
  \A f \in Files :
    /\ rev[f] <= uploads /\ mtime[f] <= rev[f] /\ bytes[f] <= uploads
    /\ f \in onDrive => rev[f] # 0
    /\ cache[f].rev = 0 => cache[f].time = 0
    /\ phase[f] = "fetched" => bytes[f] # 0

\* Files are in hand only during a batch; what is cleaned up has no row.
StagesOK ==
  /\ stage # "batch" => phase = AllOut
  /\ stage = "clean" => \A f \in doomed : status[f] = "absent"

TypeInv == TypeOK /\ TimesOK /\ StagesOK

\* A batch has a size.
LEMMA BatchSize == TypeOK => Cardinality(Batch) \in Nat
<1> SUFFICES ASSUME TypeOK PROVE Cardinality(Batch) \in Nat
  OBVIOUS
<1>1. Batch \in SUBSET Files
  BY DEF Batch, NeedsParse, TypeOK
<1>2. IsFiniteSet(Batch)
  BY <1>1, FS_Subset, ParseStageAssumption
<1>3. QED
  BY <1>2, FS_CardinalityType

\* Faults are counted up to their bound.
LEMMA FaultType ==
  ASSUME TypeOK, Fault PROVE faults' \in 0..MaxFaults /\ quiet' \in BOOLEAN
<1>1. faults' \in 0..MaxFaults
  BY ParseStageAssumption DEF TypeOK, Fault
<1>2. quiet' \in BOOLEAN
  BY DEF Fault
<1>3. QED
  BY <1>1, <1>2

\* Nothing is in hand, cached or stored at first.
LEMMA InitTypeInv == Init => TypeInv
<1> SUFFICES ASSUME Init PROVE TypeInv
  OBVIOUS
<1>1. TypeOK
  BY ParseStageAssumption DEF Init, TypeOK, AllOut, NoBytes, NoCache
<1>2. TimesOK /\ StagesOK
  BY DEF Init, TimesOK, StagesOK, AllOut, NoBytes, NoCache
<1>3. QED
  BY <1>1, <1>2 DEF TypeInv

\* Every step keeps the types, the times and the stages.
LEMMA NextTypeInv == TypeInv /\ [Next]_vars => TypeInv'
<1> SUFFICES ASSUME TypeInv, [Next]_vars PROVE TypeInv'
  OBVIOUS
<1> USE DEF TypeInv, driveVars, rowVars, batchVars
<1>a. AllOut \in [Files -> {"queued", "fetched", "ready", "out"}] /\ NoBytes \in [Files -> 0..MaxUploads]
  BY ParseStageAssumption DEF AllOut, NoBytes
<1>b. MaxUploads \in Nat /\ MaxFaults \in Nat
  BY ParseStageAssumption
<1>1. CASE UNCHANGED vars
  BY <1>1 DEF vars, TypeOK, TimesOK, StagesOK, AllOut
<1>2. ASSUME NEW f \in Files, Upload(f) PROVE TypeInv'
  <2>1. TypeOK'
    <3>1. cache' \in [Files -> [rev : 0..uploads', time : 0..uploads']]
      BY <1>2, <1>b DEF Upload, TypeOK
    <3>2. uploads' \in 0..MaxUploads /\ rev' \in [Files -> 0..MaxUploads] /\ onDrive' \in SUBSET Files
      BY <1>2, <1>b DEF Upload, TypeOK
    <3>3. raced' \in SUBSET Files /\ quiet' \in BOOLEAN
      BY <1>2 DEF Upload, TypeOK
    <3>4. QED
      BY <1>2, <3>1, <3>2, <3>3 DEF Upload, TypeOK
  <2>2. TimesOK'
    BY <1>2, <1>b DEF Upload, TypeOK, TimesOK
  <2>3. StagesOK'
    BY <1>2, <1>b DEF Upload, TypeOK, StagesOK, AllOut
  <2>4. QED
    BY <2>1, <2>2, <2>3
<1>3. ASSUME NEW f \in Files, Move(f) PROVE TypeInv'
  BY <1>3, <1>b DEF Move, TypeOK, TimesOK, StagesOK, AllOut
<1>4. CASE Index
  BY <1>4, <1>b DEF Index, TypeOK, TimesOK, StagesOK, AllOut
<1>5. ASSUME NEW f \in Files, RemoveCached(f) PROVE TypeInv'
  BY <1>5, <1>b DEF RemoveCached, NoCache, TypeOK, TimesOK, StagesOK, AllOut
<1>6. CASE StartDrain
  BY <1>6, <1>b DEF StartDrain, TypeOK, TimesOK, StagesOK, AllOut
<1>7. CASE Select
  <2>1. TypeOK'
    BY <1>7, <1>b, BatchSize DEF Select, TypeOK, TimesOK
  <2>2. TimesOK'
    BY <1>7, <1>b, BatchSize DEF Select, TypeOK, TimesOK
  <2>3. StagesOK'
    BY <1>7, <1>b, BatchSize DEF Select, TypeOK, StagesOK, AllOut
  <2>4. QED
    BY <2>1, <2>2, <2>3
<1>8. CASE SelectFails
  <2>1. faults' \in 0..MaxFaults /\ quiet' \in BOOLEAN
    BY <1>8, FaultType DEF SelectFails
  <2>2. TypeOK'
    BY <1>8, <2>1 DEF SelectFails, TypeOK
  <2>3. TimesOK' /\ StagesOK'
    BY <1>8, <1>b DEF SelectFails, TypeOK, TimesOK, StagesOK
  <2>4. QED
    BY <2>2, <2>3
<1>9. ASSUME NEW f \in Files, phase[f] # "out" PROVE stage = "batch"
  BY <1>9 DEF StagesOK, AllOut
<1>10. ASSUME NEW f \in Files, ReadCached(f) PROVE TypeInv'
  <2>1. TypeOK'
    BY <1>10, <1>9, <1>b DEF ReadCached, TypeOK, TimesOK
  <2>2. TimesOK'
    BY <1>10, <1>9, <1>b DEF ReadCached, TypeOK, TimesOK
  <2>3. StagesOK'
    BY <1>10, <1>9, <1>b DEF ReadCached, TypeOK, StagesOK, AllOut
  <2>4. QED
    BY <2>1, <2>2, <2>3
<1>11. ASSUME NEW f \in Files, Download(f) PROVE TypeInv'
  <2>1. TypeOK'
    <3>1. CASE f \in onDrive
      BY <1>11, <3>1 DEF Download, Fetch, TypeOK
    <3>2. CASE f \notin onDrive
      BY <1>11, <3>2, <1>b DEF Download, Fetch, SetFailed, TypeOK
    <3>3. QED
      BY <3>1, <3>2
  <2>2. TimesOK'
    BY <1>11, <1>9, <1>b DEF Download, Fetch, SetFailed, TypeOK, TimesOK
  <2>3. StagesOK'
    BY <1>11, <1>9, <1>b DEF Download, Fetch, SetFailed, TypeOK, StagesOK, AllOut
  <2>4. QED
    BY <2>1, <2>2, <2>3
<1>12. ASSUME NEW f \in Files, WriteThrough(f) PROVE TypeInv'
  <2>1. TypeOK'
    BY <1>12, <1>9, <1>b DEF WriteThrough, TypeOK, TimesOK
  <2>2. TimesOK'
    BY <1>12, <1>9, <1>b DEF WriteThrough, TypeOK, TimesOK
  <2>3. StagesOK'
    BY <1>12, <1>9, <1>b DEF WriteThrough, TypeOK, StagesOK, AllOut
  <2>4. QED
    BY <2>1, <2>2, <2>3
<1>13. ASSUME NEW f \in Files, Store(f) PROVE TypeInv'
  <2>1. TypeOK'
    <3>1. CASE kind[bytes[f]] = "bad"
      <4>1. SetFailed(f) /\ UNCHANGED <<uploads, rev, onDrive, kind, cache, stage, doomed, faults, quiet, raced>>
        BY <1>13, <3>1 DEF Store
      <4>2. QED
        BY <4>1, <1>b DEF SetFailed, TypeOK
    <3>2. CASE kind[bytes[f]] # "bad"
      <4>1. status' \in [Files -> {"absent", "pending", "parsed", "failed", "skipped"}]
        BY <1>13, <3>2 DEF Store, TypeOK
      <4>2. stored' \in [Files -> 0..MaxUploads] /\ bytes' \in [Files -> 0..MaxUploads]
        BY <1>13, <3>2, <1>b DEF Store, TypeOK
      <4>3. QED
        BY <1>13, <3>2, <4>1, <4>2 DEF Store, TypeOK
    <3>3. QED
      BY <3>1, <3>2
  <2>2. TimesOK'
    BY <1>13, <1>9, <1>b DEF Store, SetFailed, TypeOK, TimesOK
  <2>3. StagesOK'
    BY <1>13, <1>9, <1>b DEF Store, SetFailed, TypeOK, StagesOK, AllOut
  <2>4. QED
    BY <2>1, <2>2, <2>3
<1>14. CASE EndBatch
  BY <1>14, <1>b DEF EndBatch, TypeOK, TimesOK, StagesOK, AllOut
<1>15. ASSUME NEW f \in Files, Fails(f) PROVE TypeInv'
  <2>1. TypeOK'
    <3>1. faults' \in 0..MaxFaults /\ quiet' \in BOOLEAN
      BY <1>15, FaultType DEF Fails
    <3>2. CASE SetFailed(f)
      BY <1>15, <3>1, <3>2, <1>b DEF Fails, SetFailed, TypeOK
    <3>3. CASE ~SetFailed(f)
      <4>1. phase' = [phase EXCEPT ![f] = "out"] /\ bytes' = [bytes EXCEPT ![f] = 0]
        BY <1>15, <3>3 DEF Fails
      <4>2. UNCHANGED <<uploads, rev, onDrive, kind, status, mtime, outdated, stored, cache,
                        stage, doomed, selected, succeeded, raced>>
        BY <1>15, <3>3 DEF Fails
      <4>3. QED
        BY <4>1, <4>2, <3>1, <1>b DEF TypeOK
    <3>4. QED
      BY <3>2, <3>3
  <2>2. TimesOK'
    BY <1>15, <1>9, <1>b DEF Fails, Fault, SetFailed, TypeOK, TimesOK
  <2>3. StagesOK'
    BY <1>15, <1>9, <1>b DEF Fails, Fault, SetFailed, TypeOK, StagesOK, AllOut
  <2>4. QED
    BY <2>1, <2>2, <2>3
<1>16. ASSUME NEW f \in Files, WriteThroughFails(f) PROVE TypeInv'
  <2>1. TypeOK'
    <3>1. faults' \in 0..MaxFaults /\ quiet' \in BOOLEAN
      BY <1>16, FaultType DEF WriteThroughFails
    <3>2. QED
      BY <1>16, <3>1 DEF WriteThroughFails, TypeOK
  <2>2. TimesOK'
    BY <1>16, <1>9, <1>b DEF WriteThroughFails, Fault, TypeOK, TimesOK
  <2>3. StagesOK'
    BY <1>16, <1>9, <1>b DEF WriteThroughFails, Fault, TypeOK, StagesOK, AllOut
  <2>4. QED
    BY <2>1, <2>2, <2>3
<1>17. CASE Restart
  BY <1>17, <1>a, <1>b DEF Restart, TypeOK, TimesOK, StagesOK, AllOut, NoBytes
<1>18. ASSUME NEW f \in Files, ReadCachedFails(f) PROVE TypeInv'
  <2>1. TypeOK'
    <3>1. faults' \in 0..MaxFaults /\ quiet' \in BOOLEAN
      BY <1>18, FaultType DEF ReadCachedFails
    <3>2. CASE f \in onDrive
      BY <1>18, <3>1, <3>2 DEF ReadCachedFails, Fetch, TypeOK
    <3>3. CASE f \notin onDrive
      <4>1. SetFailed(f) /\ UNCHANGED <<uploads, rev, onDrive, kind, cache, stage, doomed, raced>>
        BY <1>18, <3>3 DEF ReadCachedFails, Fetch
      <4>2. QED
        BY <3>1, <4>1, <1>b DEF SetFailed, TypeOK
    <3>4. QED
      BY <3>2, <3>3
  <2>2. TimesOK'
    BY <1>18, <1>9, <1>b DEF ReadCachedFails, Fault, Fetch, SetFailed, TypeOK, TimesOK
  <2>3. StagesOK'
    BY <1>18, <1>9, <1>b DEF ReadCachedFails, Fault, Fetch, SetFailed, TypeOK, StagesOK, AllOut
  <2>4. QED
    BY <2>1, <2>2, <2>3
<1>19. QED
  BY <1>1, <1>2, <1>3, <1>4, <1>5, <1>6, <1>7, <1>8, <1>10, <1>11, <1>12, <1>13, <1>14,
     <1>15, <1>16, <1>17, <1>18 DEF Next, Loop

\* Every variable keeps its type; in particular no cache entry is stamped with a
\* time to come, and rows, batches and cache entries are of files.
THEOREM TypeCorrect == Spec => []TypeOK
<1>1. Spec => []TypeInv
  BY InitTypeInv, NextTypeInv, PTL DEF Spec
<1>2. TypeInv => TypeOK
  BY DEF TypeInv
<1>3. QED
  BY <1>1, <1>2, PTL

-----------------------------------------------------------------------------
(* The byte cache *)

\* f was uploaded between a download and its cache entry, which hides the race.
Covered(f) == f \in raced /\ cache[f].rev # 0 /\ cache[f].time >= rev[f]

\* Entries written since the last upload hold it; so do the bytes in hand and the
\* rows that are stored under its time, unless they are covered.
RevisionsOK ==
  \A f \in Files :
    /\ f \notin raced /\ cache[f].time >= rev[f] => cache[f].rev = rev[f]
    /\ phase[f] = "fetched" => bytes[f] = rev[f] \/ (f \in raced /\ mtime[f] < rev[f])
    /\ phase[f] = "ready" /\ mtime[f] = rev[f] => bytes[f] = rev[f] \/ Covered(f)
    /\ status[f] = "parsed" /\ mtime[f] = rev[f] => stored[f] = rev[f] \/ Covered(f)

\* Every step keeps the revisions in order.
LEMMA NextRevisionsOK == TypeInv /\ RevisionsOK /\ [Next]_vars => RevisionsOK'
<1> SUFFICES ASSUME TypeInv, RevisionsOK, [Next]_vars PROVE RevisionsOK'
  OBVIOUS
<1> USE DEF TypeInv, driveVars, rowVars, batchVars
<1>a. stage # "batch" => \A f \in Files : phase[f] = "out"
  BY DEF StagesOK, AllOut
<1>b. MaxUploads \in Nat /\ MaxFaults \in Nat
  BY ParseStageAssumption
<1>1. CASE UNCHANGED vars
  BY <1>1 DEF vars, RevisionsOK, Covered
<1>2. ASSUME NEW f \in Files, Upload(f) PROVE RevisionsOK'
  BY <1>2, <1>b DEF Upload, TypeOK, TimesOK, RevisionsOK, Covered
<1>3. ASSUME NEW f \in Files, Move(f) PROVE RevisionsOK'
  BY <1>3 DEF Move, RevisionsOK, Covered
<1>4. CASE Index
  BY <1>4, <1>a DEF Index, TypeOK, TimesOK, RevisionsOK, Covered
<1>5. ASSUME NEW f \in Files, RemoveCached(f) PROVE RevisionsOK'
  BY <1>5, <1>a DEF RemoveCached, NoCache, TypeOK, TimesOK, StagesOK, RevisionsOK, Covered
<1>6. CASE StartDrain \/ EndBatch \/ SelectFails
  BY <1>6 DEF StartDrain, EndBatch, SelectFails, RevisionsOK, Covered
<1>7. CASE Select
  BY <1>7 DEF Select, RevisionsOK, Covered
<1>8. ASSUME NEW f \in Files, ReadCached(f) PROVE RevisionsOK'
  BY <1>8 DEF ReadCached, Fresh, TypeOK, TimesOK, RevisionsOK, Covered
<1>9. ASSUME NEW f \in Files, Download(f) PROVE RevisionsOK'
  BY <1>9 DEF Download, Fetch, SetFailed, Fresh, TypeOK, TimesOK, RevisionsOK, Covered
<1>10. ASSUME NEW f \in Files, WriteThrough(f) PROVE RevisionsOK'
  BY <1>10 DEF WriteThrough, TypeOK, TimesOK, RevisionsOK, Covered
<1>11. ASSUME NEW f \in Files, Store(f) PROVE RevisionsOK'
  BY <1>11 DEF Store, SetFailed, TypeOK, TimesOK, RevisionsOK, Covered
<1>12. ASSUME NEW f \in Files, Fails(f) PROVE RevisionsOK'
  BY <1>12 DEF Fails, SetFailed, TypeOK, TimesOK, RevisionsOK, Covered
<1>13. ASSUME NEW f \in Files, WriteThroughFails(f) PROVE RevisionsOK'
  BY <1>13 DEF WriteThroughFails, TypeOK, TimesOK, RevisionsOK, Covered
<1>14. CASE Restart
  BY <1>14 DEF Restart, AllOut, TypeOK, RevisionsOK, Covered
<1>15. ASSUME NEW f \in Files, ReadCachedFails(f) PROVE RevisionsOK'
  BY <1>15 DEF ReadCachedFails, Fetch, SetFailed, TypeOK, TimesOK, RevisionsOK, Covered
<1>16. QED
  BY <1>1, <1>2, <1>3, <1>4, <1>5, <1>6, <1>7, <1>8, <1>9, <1>10, <1>11, <1>12, <1>13,
     <1>14, <1>15 DEF Next, Loop

\* A row parsed under the modified time Drive has holds that revision, unless an
\* upload came between the download of the file and the write of its cache
\* entry: for every mix of hits and misses, crashes, orphans and releases.
THEOREM CacheServesRevisions == Spec => []CacheServesTheRevision
<1>1. Init => TypeInv /\ RevisionsOK
  BY InitTypeInv DEF Init, RevisionsOK, NoCache, NoBytes, AllOut
<1>2. TypeInv /\ RevisionsOK /\ [Next]_vars => (TypeInv /\ RevisionsOK)'
  BY NextTypeInv, NextRevisionsOK
<1>3. RevisionsOK => CacheServesTheRevision
  BY DEF RevisionsOK, CacheServesTheRevision, Covered
<1>4. QED
  BY <1>1, <1>2, <1>3, PTL DEF Spec

-----------------------------------------------------------------------------
(* Batches *)

\* R is a strict order of S in which any two elements are related.
Orders(R, S) ==
  /\ \A f \in S : <<f, f>> \notin R
  /\ \A f, g, h \in S : <<f, g>> \in R /\ <<g, h>> \in R => <<f, h>> \in R
  /\ \A f, g \in S : f # g => <<f, g>> \in R \/ <<g, f>> \in R

\* A finite set has a first element in such an order.
LEMMA FirstInOrder ==
  ASSUME NEW S, NEW R, IsFiniteSet(S), S # {}, Orders(R, S)
  PROVE  \E first \in S : \A g \in S \ {first} : <<first, g>> \in R
<1> DEFINE Before(f) == {g \in S : <<g, f>> \in R}
           Sets == {Before(f) : f \in S}
<1>1. Sets \subseteq FiniteSubsetsOf(S)
  <2>1. FiniteSubsetsOf(S) = SUBSET S
    BY FS_FiniteSubsetsOfFinite
  <2>2. Sets \subseteq SUBSET S
    OBVIOUS
  <2>3. QED
    BY <2>1, <2>2, Zenon
<1>2. \E U \in Sets : \A V \in Sets : <<V, U>> \notin StrictSubsetOrdering(S)
  <2>1. IsWellFoundedOn(StrictSubsetOrdering(S), FiniteSubsetsOf(S))
    BY FS_StrictSubsetOrderingWellFounded
  <2>2. Sets # {}
    OBVIOUS
  <2>3. QED
    BY <1>1, <2>1, <2>2, WFMin, Zenon
<1>3. PICK first \in S : \A V \in Sets : <<V, Before(first)>> \notin StrictSubsetOrdering(S)
  BY <1>2
<1>4. \A g \in S : <<g, first>> \notin R
  <2> SUFFICES ASSUME NEW g \in S, <<g, first>> \in R PROVE FALSE
    OBVIOUS
  <2>1. \A h \in S : <<h, g>> \in R => <<h, first>> \in R
    BY DEF Orders
  <2>2. g \in Before(first) /\ g \notin Before(g) /\ Before(g) \subseteq Before(first)
    BY <2>1 DEF Orders
  <2>3. Before(g) # Before(first)
    BY <2>2
  <2>4. Before(g) \in Sets /\ Before(g) \in SUBSET S /\ Before(first) \in SUBSET S
    OBVIOUS
  <2>5. QED
    BY <1>3, <2>2, <2>3, <2>4 DEF StrictSubsetOrdering
<1>5. QED
  BY <1>4 DEF Orders

\* Rows are selected in a strict order; so they are the other way round.
Order == {pair \in Files \X Files : Precedes(pair[1], pair[2])}
Reverse == {pair \in Files \X Files : Precedes(pair[2], pair[1])}

LEMMA RowsAreOrdered ==
  ASSUME TypeOK, NEW S \in SUBSET Files PROVE Orders(Order, S) /\ Orders(Reverse, S)
<1>1. \A f \in Files : f \in Nat /\ mtime[f] \in Nat
  BY ParseStageAssumption DEF TypeOK
<1>2. \A f, g, h \in Files : Precedes(f, g) /\ Precedes(g, h) => Precedes(f, h)
  BY <1>1 DEF Precedes
<1>3. \A f, g \in Files : ~Precedes(f, f) /\ (f # g => Precedes(f, g) \/ Precedes(g, f))
  BY <1>1 DEF Precedes
<1>4. \A f, g \in S : /\ <<f, g>> \in Order <=> Precedes(f, g)
                      /\ <<f, g>> \in Reverse <=> Precedes(g, f)
  BY DEF Order, Reverse
<1>5. Orders(Order, S)
  BY <1>2, <1>3, <1>4 DEF Orders
<1>6. Orders(Reverse, S)
  BY <1>2, <1>3, <1>4 DEF Orders
<1>7. QED
  BY <1>5, <1>6

Ahead(f) == {g \in NeedsParse : Precedes(g, f)}

\* A batch is no larger than the limit, and if it is smaller it is all there is.
LEMMA BatchIsFull ==
  ASSUME TypeOK
  PROVE  /\ Cardinality(Batch) <= BatchLimit
         /\ Cardinality(Batch) < BatchLimit => Batch = NeedsParse
<1>1. NeedsParse \in SUBSET Files /\ Batch \in SUBSET NeedsParse /\ Batch \in SUBSET Files
  BY DEF NeedsParse, Batch, TypeOK
<1>2. \A S \in SUBSET Files : IsFiniteSet(S) /\ Cardinality(S) \in Nat
  BY ParseStageAssumption, FS_Subset, FS_CardinalityType
<1>3. \A f \in Files : Ahead(f) \in SUBSET Files
  BY <1>1 DEF Ahead
<1>4. \A f \in NeedsParse : f \in Batch <=> Cardinality(Ahead(f)) < BatchLimit
  BY DEF Batch, Ahead
<1>5. BatchLimit \in Nat /\ BatchLimit > 0
  BY ParseStageAssumption
<1>6. Cardinality(Batch) <= BatchLimit
  <2>1. CASE Batch = {}
    BY <2>1, <1>5, FS_EmptySet
  <2>2. CASE Batch # {}
    <3>1. PICK last \in Batch : \A g \in Batch \ {last} : <<last, g>> \in Reverse
      BY <1>1, <1>2, <2>2, FirstInOrder, RowsAreOrdered
    <3>2. Batch \ {last} \subseteq Ahead(last)
      BY <1>1, <3>1 DEF Reverse, Ahead
    <3>3. Cardinality(Batch \ {last}) <= Cardinality(Ahead(last))
      BY <1>1, <1>2, <1>3, <3>2, FS_Subset
    <3>4. Cardinality(Batch \ {last}) = Cardinality(Batch) - 1
      BY <1>1, <1>2, FS_RemoveElement
    <3>5. Cardinality(Ahead(last)) < BatchLimit /\ Cardinality(Ahead(last)) \in Nat /\ Cardinality(Batch) \in Nat
      BY <1>1, <1>2, <1>3, <1>4
    <3>6. QED
      BY <1>5, <3>3, <3>4, <3>5
  <2>3. QED
    BY <2>1, <2>2
<1>7. ASSUME Cardinality(Batch) < BatchLimit, NeedsParse \ Batch # {} PROVE FALSE
  <2>1. NeedsParse \ Batch \in SUBSET Files
    BY <1>1
  <2>2. PICK first \in NeedsParse \ Batch : \A g \in (NeedsParse \ Batch) \ {first} : <<first, g>> \in Order
    BY <1>2, <1>7, <2>1, FirstInOrder, RowsAreOrdered
  <2>3. Ahead(first) \subseteq Batch
    <3>1. ASSUME NEW g \in NeedsParse, Precedes(g, first), g \notin Batch PROVE FALSE
      <4>1. g \in Files /\ first \in Files
        BY <1>1
      <4>2. g = first \/ Precedes(first, g)
        BY <2>2, <3>1 DEF Order
      <4>3. g \in Nat /\ first \in Nat /\ mtime[g] \in Nat /\ mtime[first] \in Nat
        BY <4>1, ParseStageAssumption DEF TypeOK
      <4>4. QED
        BY <3>1, <4>2, <4>3 DEF Precedes
    <3>2. QED
      BY <3>1 DEF Ahead
  <2>4. Cardinality(Ahead(first)) <= Cardinality(Batch)
    BY <1>1, <1>2, <2>3, FS_Subset
  <2>5. Cardinality(Ahead(first)) \in Nat /\ Cardinality(Batch) \in Nat /\ ~(Cardinality(Ahead(first)) < BatchLimit)
    BY <1>1, <1>2, <1>3, <1>4, <2>2
  <2>6. QED
    BY <1>5, <1>7, <2>4, <2>5
<1>8. QED
  BY <1>1, <1>6, <1>7

-----------------------------------------------------------------------------
(* Drains *)

InHand == {f \in Files : phase[f] # "out"}

\* A batch that nothing disturbs: bytes in hand are those WouldFail looks at; a
\* row that has left the batch without success would fail again.
BatchInv ==
  /\ \A f \in InHand :
       /\ f \in NeedsParse
       /\ phase[f] = "fetched" => f \in onDrive /\ ~Fresh(f) /\ bytes[f] = rev[f]
       /\ phase[f] = "ready" => (kind[bytes[f]] = "bad" <=> WouldFail(f))
  /\ selected \in Nat /\ selected <= BatchLimit
  /\ selected < BatchLimit => NeedsParse \subseteq InHand \cup Failing
  /\ succeeded = 0 => \E S \in SUBSET (InHand \cup Failing) : Cardinality(S) = selected

DrainInv ==
  quiet => /\ stage = "batch" => BatchInv
           /\ stage = "index" /\ Cardinality(Failing) < BatchLimit => NeedsParse = Failing

\* An undisturbed batch that is the last one leaves the failing rows.
LEMMA LastBatch ==
  ASSUME TypeInv, BatchInv, phase = AllOut, ~DrainGoesOn, Cardinality(Failing) < BatchLimit
  PROVE  NeedsParse = Failing
<1>1. InHand = {}
  BY DEF InHand, AllOut
<1>2. Failing \in SUBSET Files /\ Failing \subseteq NeedsParse
  BY DEF Failing, NeedsParse, TypeInv, TypeOK
<1>3. CASE selected < BatchLimit
  BY <1>1, <1>2, <1>3 DEF BatchInv
<1>4. CASE ~(selected < BatchLimit)
  <2>1. selected = BatchLimit /\ succeeded = 0
    BY <1>4, ParseStageAssumption DEF BatchInv, DrainGoesOn
  <2>2. PICK S \in SUBSET Failing : Cardinality(S) = BatchLimit
    BY <1>1, <2>1 DEF BatchInv
  <2>3. IsFiniteSet(Failing) /\ IsFiniteSet(S)
    BY <1>2, ParseStageAssumption, FS_Subset
  <2>4. Cardinality(S) <= Cardinality(Failing) /\ Cardinality(Failing) \in Nat
    BY <2>3, FS_Subset, FS_CardinalityType
  <2>5. QED
    BY <2>2, <2>4, ParseStageAssumption
<1>5. QED
  BY <1>3, <1>4

\* A batch that is selected is undisturbed so far.
LEMMA SelectedBatch == TypeInv /\ Select => BatchInv'
<1> SUFFICES ASSUME TypeInv, Select PROVE BatchInv'
  OBVIOUS
<1> USE DEF TypeInv, TypeOK, Select, driveVars, rowVars
<1>1. Batch \subseteq NeedsParse /\ NeedsParse' = NeedsParse /\ NeedsParse \subseteq Files
  BY DEF Batch, NeedsParse
<1>2. InHand' = Batch
  BY <1>1 DEF InHand
<1>3. \A f \in Files : phase'[f] \in {"queued", "out"}
  OBVIOUS
<1>4. Cardinality(Batch) \in Nat /\ selected' = Cardinality(Batch)
  BY BatchSize
<1>5. Cardinality(Batch) <= BatchLimit /\ (Cardinality(Batch) < BatchLimit => Batch = NeedsParse)
  BY BatchIsFull
<1>6. InHand' \subseteq Files
  BY <1>1, <1>2
<1>7. \A f \in InHand' : f \in NeedsParse' /\ phase'[f] # "fetched" /\ phase'[f] # "ready"
  BY <1>1, <1>2, <1>3, <1>6
<1>8. Batch \in SUBSET (InHand' \cup Failing') /\ Cardinality(Batch) = selected'
  BY <1>2, <1>4
<1>9. QED
  BY <1>1, <1>2, <1>4, <1>5, <1>7, <1>8 DEF BatchInv

\* What is in hand or failing, of a row that stays in the batch or fails.
LEMMA BatchGoesOn ==
  ASSUME TypeInv, BatchInv, NEW f \in InHand,
         NeedsParse' = NeedsParse, \A g \in Files : WouldFail(g)' <=> WouldFail(g),
         InHand' = InHand \/ (InHand' = InHand \ {f} /\ WouldFail(f)),
         selected' = selected, succeeded' = succeeded
  PROVE  /\ selected' \in Nat /\ selected' <= BatchLimit
         /\ selected' < BatchLimit => NeedsParse' \subseteq InHand' \cup Failing'
         /\ succeeded' = 0 => \E S \in SUBSET (InHand' \cup Failing') : Cardinality(S) = selected'
<1>1. NeedsParse \subseteq Files
  BY DEF NeedsParse, TypeInv, TypeOK
<1>2. Failing' = Failing
  BY <1>1 DEF Failing
<1>3. f \in NeedsParse
  BY DEF BatchInv
<1>4. InHand' \cup Failing' = InHand \cup Failing
  BY <1>2, <1>3 DEF Failing
<1>5. QED
  BY <1>4 DEF BatchInv

\* Every step of a file keeps a batch undisturbed.
LEMMA FileKeepsBatch ==
  ASSUME TypeInv, BatchInv, NEW f \in Files,
         ReadCached(f) \/ Download(f) \/ WriteThrough(f) \/ Store(f)
  PROVE  BatchInv'
<1> USE DEF TypeInv, TypeOK, driveVars, rowVars
<1>1. f \in InHand
  BY DEF InHand, ReadCached, Download, WriteThrough, Store
<1>b. ASSUME NEW g \in InHand
      PROVE  /\ g \in NeedsParse /\ g \in Files
             /\ phase[g] = "fetched" => g \in onDrive /\ ~Fresh(g) /\ bytes[g] = rev[g]
             /\ phase[g] = "ready" => (kind[bytes[g]] = "bad" <=> WouldFail(g))
  BY DEF BatchInv, InHand
<1>2. CASE ReadCached(f)
  <2>1. NeedsParse' = NeedsParse /\ InHand' = InHand
    BY <1>2, <1>1 DEF ReadCached, NeedsParse, InHand
  <2>2. \A g \in Files : (WouldFail(g)' <=> WouldFail(g)) /\ (Fresh(g)' <=> Fresh(g))
    BY <1>2 DEF ReadCached, WouldFail, Fresh
  <2>3. phase'[f] = "ready" /\ (kind'[bytes'[f]] = "bad" <=> WouldFail(f))
    BY <1>2 DEF ReadCached, WouldFail
  <2>4. \A g \in Files \ {f} : phase'[g] = phase[g] /\ bytes'[g] = bytes[g]
    BY <1>2 DEF ReadCached
  <2>5. UNCHANGED <<kind, rev, onDrive, selected, succeeded>>
    BY <1>2 DEF ReadCached
  <2>6. \A g \in InHand' :
          /\ g \in NeedsParse'
          /\ phase'[g] = "fetched" => g \in onDrive' /\ ~Fresh(g)' /\ bytes'[g] = rev'[g]
          /\ phase'[g] = "ready" => (kind'[bytes'[g]] = "bad" <=> WouldFail(g)')
    BY <1>b, <2>1, <2>2, <2>3, <2>4, <2>5
  <2>7. QED
    BY <1>1, <2>1, <2>2, <2>5, <2>6, BatchGoesOn DEF BatchInv
<1>3. CASE Download(f)
  <2>1. \A g \in Files : (WouldFail(g)' <=> WouldFail(g)) /\ (Fresh(g)' <=> Fresh(g))
    BY <1>3 DEF Download, Fetch, SetFailed, WouldFail, Fresh
  <2>2. UNCHANGED <<kind, rev, onDrive, selected, succeeded>>
    BY <1>3 DEF Download, Fetch, SetFailed
  <2>3. \A g \in Files \ {f} : phase'[g] = phase[g] /\ bytes'[g] = bytes[g]
    BY <1>3 DEF Download, Fetch, SetFailed
  <2>4. CASE f \in onDrive
    <3>1. NeedsParse' = NeedsParse /\ InHand' = InHand
      BY <1>3, <1>1, <2>4 DEF Download, Fetch, NeedsParse, InHand
    <3>2. phase'[f] = "fetched" /\ ~Fresh(f) /\ bytes'[f] = rev[f]
      BY <1>3, <2>4 DEF Download, Fetch
    <3>3. QED
      BY <1>1, <1>b, <2>1, <2>2, <2>3, <2>4, <3>1, <3>2, BatchGoesOn DEF BatchInv
  <2>5. CASE f \notin onDrive
    <3>1. InHand' = InHand \ {f} /\ WouldFail(f)
      BY <1>3, <2>5 DEF Download, Fetch, SetFailed, InHand, WouldFail
    <3>2. NeedsParse' = NeedsParse
      BY <1>1, <1>3, <1>b, <2>5 DEF Download, Fetch, SetFailed, NeedsParse
    <3>3. QED
      BY <1>1, <1>b, <2>1, <2>2, <2>3, <3>1, <3>2, BatchGoesOn DEF BatchInv
  <2>6. QED
    BY <2>4, <2>5
<1>4. CASE WriteThrough(f)
  <2>1. NeedsParse' = NeedsParse /\ InHand' = InHand
    BY <1>4, <1>1 DEF WriteThrough, NeedsParse, InHand
  <2>2. f \in onDrive /\ ~Fresh(f) /\ bytes[f] = rev[f] /\ rev[f] # 0 /\ mtime[f] <= uploads
    BY <1>1, <1>4, <1>b, ParseStageAssumption DEF WriteThrough, TimesOK
  <2>3. cache'[f] = [rev |-> rev[f], time |-> uploads] /\ mtime' = mtime
    BY <1>4, <2>2 DEF WriteThrough
  <2>4. Fresh(f)'
    BY <2>2, <2>3 DEF Fresh
  <2>5. WouldFail(f)' <=> kind[rev[f]] = "bad"
    BY <1>4, <2>3, <2>4 DEF WouldFail, WriteThrough
  <2>6. WouldFail(f) <=> kind[rev[f]] = "bad"
    BY <2>2 DEF WouldFail
  <2>7. \A g \in Files \ {f} : /\ WouldFail(g)' <=> WouldFail(g)
                               /\ Fresh(g)' <=> Fresh(g)
                               /\ phase'[g] = phase[g]
    BY <1>4 DEF WriteThrough, WouldFail, Fresh
  <2>8. phase'[f] = "ready" /\ UNCHANGED <<kind, rev, onDrive, bytes, selected, succeeded>>
    BY <1>4 DEF WriteThrough
  <2>9. \A g \in Files : WouldFail(g)' <=> WouldFail(g)
    BY <2>5, <2>6, <2>7
  <2>10. QED
    BY <1>1, <1>b, <2>1, <2>2, <2>5, <2>7, <2>8, <2>9, BatchGoesOn DEF BatchInv
<1>5. CASE Store(f)
  <2>1. \A g \in Files : (WouldFail(g)' <=> WouldFail(g)) /\ (Fresh(g)' <=> Fresh(g))
    BY <1>5 DEF Store, SetFailed, WouldFail, Fresh
  <2>2. UNCHANGED <<kind, rev, onDrive, selected>>
    BY <1>5 DEF Store, SetFailed
  <2>3. \A g \in Files \ {f} : phase'[g] = phase[g] /\ bytes'[g] = bytes[g]
    BY <1>5 DEF Store, SetFailed
  <2>4. InHand' = InHand \ {f}
    BY <1>5 DEF Store, SetFailed, InHand
  <2>5. CASE kind[bytes[f]] = "bad"
    <3>1. NeedsParse' = NeedsParse /\ succeeded' = succeeded
      BY <1>1, <1>5, <1>b, <2>5 DEF Store, SetFailed, NeedsParse
    <3>2. WouldFail(f)
      BY <1>1, <1>5, <1>b, <2>5 DEF Store
    <3>3. QED
      BY <1>1, <1>b, <2>1, <2>2, <2>3, <2>4, <3>1, <3>2, BatchGoesOn DEF BatchInv
  <2>6. CASE kind[bytes[f]] # "bad"
    <3>1. NeedsParse' = NeedsParse \ {f} /\ succeeded' # 0
      BY <1>5, <2>6 DEF Store, NeedsParse
    <3>2. NeedsParse \subseteq Files
      BY DEF NeedsParse
    <3>3. Failing' = Failing \ {f}
      BY <2>1, <3>1, <3>2 DEF Failing
    <3>4. selected' < BatchLimit => NeedsParse' \subseteq InHand' \cup Failing'
      BY <2>2, <2>4, <3>1, <3>3 DEF BatchInv
    <3>5. QED
      BY <1>b, <2>1, <2>2, <2>3, <2>4, <3>1, <3>4 DEF BatchInv
  <2>7. QED
    BY <2>5, <2>6
<1>6. QED
  BY <1>2, <1>3, <1>4, <1>5

\* Every step keeps DrainInv.
LEMMA NextDrainInv == TypeInv /\ DrainInv /\ [Next]_vars => DrainInv'
<1> SUFFICES ASSUME TypeInv, DrainInv, [Next]_vars, quiet'
             PROVE  /\ stage' = "batch" => BatchInv'
                    /\ stage' = "index" /\ Cardinality(Failing') < BatchLimit => NeedsParse' = Failing'
  BY DEF DrainInv
<1>1. CASE UNCHANGED vars
  <2>1. UNCHANGED <<NeedsParse, InHand, Failing, stage, quiet, phase, bytes, onDrive, rev, kind,
                    cache, mtime, selected, succeeded>>
    BY <1>1 DEF vars, driveVars, rowVars, batchVars, NeedsParse, InHand, Failing, WouldFail, Fresh
  <2>2. \A f : (WouldFail(f)' <=> WouldFail(f)) /\ (Fresh(f)' <=> Fresh(f))
    BY <2>1 DEF WouldFail, Fresh
  <2>3. QED
    BY <2>1, <2>2 DEF DrainInv, BatchInv
<1>2. CASE Select
  BY <1>2, SelectedBatch DEF Select
<1>3. ASSUME NEW f \in Files, ReadCached(f) \/ Download(f) \/ WriteThrough(f) \/ Store(f)
      PROVE  stage' = "batch" /\ BatchInv'
  <2>1. stage = "batch" /\ stage' = stage /\ quiet
    BY <1>3 DEF ReadCached, Download, WriteThrough, Store, TypeInv, StagesOK, AllOut
  <2>2. QED
    BY <1>3, <2>1, FileKeepsBatch DEF DrainInv
<1>4. CASE EndBatch
  <2>1. /\ stage = "batch" /\ quiet /\ phase = AllOut
        /\ stage' = IF DrainGoesOn THEN "select" ELSE "index"
    BY <1>4 DEF EndBatch
  <2>2. NeedsParse' = NeedsParse /\ Failing' = Failing
    BY <1>4 DEF EndBatch, driveVars, rowVars, NeedsParse, Failing, WouldFail, Fresh
  <2>3. QED
    BY <2>1, <2>2, LastBatch DEF DrainInv
<1>5. CASE Index \/ StartDrain \/ Restart \/ (\E f \in Files : RemoveCached(f))
  <2>1. stage' \in {"clean", "select"}
    BY <1>5 DEF Index, StartDrain, Restart, RemoveCached
  <2>2. QED
    BY <2>1
<1>6. ASSUME NEW f \in Files, Upload(f) \/ Move(f) \/ Fails(f) \/ ReadCachedFails(f)
             \/ WriteThroughFails(f)
      PROVE  FALSE
  BY <1>6 DEF Upload, Move, Fails, ReadCachedFails, WriteThroughFails, Fault
<1>7. CASE SelectFails
  BY <1>7 DEF SelectFails, Fault
<1>8. QED
  BY <1>1, <1>2, <1>3, <1>4, <1>5, <1>6, <1>7 DEF Next, Loop

\* A drain that nothing disturbs leaves only rows that cannot be parsed, unless
\* those fill a batch: whatever the queue, the size of batches and the cache.
THEOREM DrainsParseTheRest == Spec => []DrainParsesTheRest
<1>1. Init => DrainInv
  BY DEF Init, DrainInv
<1>2. Spec => []TypeInv
  BY InitTypeInv, NextTypeInv, PTL DEF Spec
<1>3. DrainInv => DrainParsesTheRest
  BY DEF DrainInv, DrainParsesTheRest
<1>4. QED
  BY <1>1, <1>2, <1>3, NextDrainInv, PTL DEF Spec
=============================================================================
