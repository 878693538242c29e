-------------------------- MODULE WftdaTeamsProofs --------------------------
(***************************************************************************)
(* Proofs about WftdaTeams: the links to team pages resolve and no row is  *)
(* downgraded, for every number of teams, every order of the edits at      *)
(* WFTDA and every run of failures.                                        *)
(*                                                                         *)
(* The strengthening is that the rows have types, that no two of them      *)
(* share a slug, and that only rows that are there hold anything.  The     *)
(* upserts of one transaction are checked one by one against the rows that *)
(* are there when they run; the case split of UpsertsKeepSlugsUnique shows *)
(* that this leaves all pairs distinct.                                    *)
(***************************************************************************)
EXTENDS WftdaTeams, TLAPS

Row == [known : BOOLEAN, title : Titles \cup {None}, slug : Slugs \cup {None}, inApi : BOOLEAN]

\* Every variable that rows depend on has its type.
RowTypes ==
  /\ site \in [Teams -> [title : Titles, slug : Slugs \cup {None}, active : BOOLEAN]]
  /\ rows \in [Teams -> Row]
  /\ api \in [Teams -> SUBSET Titles]
  /\ slugs \subseteq Titles \X Slugs

\* The UNIQUE constraint of wftda_teams.slug.
SlugsAreUnique == \A t, u \in Teams : t # u => rows[t].slug = None \/ rows[t].slug # rows[u].slug

\* A team without a row has nothing to lose.
UnknownAreBare == \A t \in Teams : rows[t].known \/ rows[t] = NoRow

IInv == RowTypes /\ SlugsAreUnique /\ UnknownAreBare

-----------------------------------------------------------------------------

\* A title that was listed has a slug, any other has none.
LEMMA SlugOfType ==
  ASSUME slugs \subseteq Titles \X Slugs, NEW title
  PROVE  SlugOf(title) \in Slugs \cup {None}
<1>1. CASE \E pair \in slugs : pair[1] = title
  <2>1. PICK pair \in slugs : pair = (CHOOSE p \in slugs : p[1] = title)
    BY <1>1
  <2> QED BY <1>1, <2>1 DEF SlugOf
<1>2. CASE ~ \E pair \in slugs : pair[1] = title
  BY <1>2 DEF SlugOf
<1> QED BY <1>1, <1>2

\* The upserts yield rows; what is not in the API stays as it is.
LEMMA UpsertedRows ==
  ASSUME RowTypes
  PROVE  /\ Upserted \in [Teams -> Row]
         /\ \A t \in Teams : api[t] = {} => Upserted[t] = rows[t]
         /\ \A t \in Teams : api[t] # {} =>
              /\ Upserted[t].known /\ Upserted[t].inApi /\ Upserted[t].title \in api[t]
              /\ rows[t].slug # None => Upserted[t].slug # None
<1>1. ASSUME NEW t \in Teams, api[t] # {}
      PROVE  /\ Upserted[t] \in Row
             /\ Upserted[t].known /\ Upserted[t].inApi /\ Upserted[t].title \in api[t]
             /\ rows[t].slug # None => Upserted[t].slug # None
  <2> DEFINE title == CHOOSE n \in api[t] : TRUE
  <2>1. title \in api[t] /\ title \in Titles
    BY <1>1 DEF RowTypes
  <2> HIDE DEF title
  <2>2. SlugOf(title) \in Slugs \cup {None}
    BY SlugOfType DEF RowTypes
  <2>3. Upserted[t] = Upsert(t, title)
    BY <1>1 DEF Upserted, title
  <2>4. rows[t].slug \in Slugs \cup {None}
    BY DEF RowTypes, Row
  <2> QED BY <2>1, <2>2, <2>3, <2>4 DEF Upsert, Row
<1>2. ASSUME NEW t \in Teams, api[t] = {} PROVE Upserted[t] = rows[t] /\ Upserted[t] \in Row
  BY <1>2 DEF Upserted, RowTypes
<1>3. Upserted \in [Teams -> Row]
  BY <1>1, <1>2 DEF Upserted
<1> QED BY <1>1, <1>2, <1>3

\* A transaction that meets no conflict leaves the slugs unique.
LEMMA UpsertsKeepSlugsUnique ==
  ASSUME IInv, KeepsSlugsUnique(Upserted)
  PROVE  \A t, u \in Teams : t # u => Upserted[t].slug = None \/ Upserted[t].slug # Upserted[u].slug
<1> SUFFICES ASSUME NEW t \in Teams, NEW u \in Teams, t # u, Upserted[t].slug # None
             PROVE  Upserted[t].slug # Upserted[u].slug
  OBVIOUS
<1>t. t \in Nat /\ u \in Nat
  BY WftdaTeamsAssumption DEF WftdaTeamsAssumption
<1>r. \A v \in Teams : api[v] = {} => Upserted[v] = rows[v]
  BY UpsertedRows DEF IInv
<1>1. CASE api[t] = {} /\ api[u] = {}
  BY <1>1, <1>r DEF IInv, SlugsAreUnique
<1>2. CASE api[t] # {} /\ (u < t \/ api[u] = {})
  BY <1>2, <1>r DEF KeepsSlugsUnique
<1>3. CASE api[u] # {} /\ (t < u \/ api[t] = {})
  BY <1>3, <1>r DEF KeepsSlugsUnique
<1> QED BY <1>1, <1>2, <1>3, <1>t

-----------------------------------------------------------------------------

\* The invariant holds at first.
LEMMA InitIInv == Init => IInv
<1> SUFFICES ASSUME Init PROVE IInv
  OBVIOUS
<1>1. RowTypes
  BY DEF Init, RowTypes, NothingRead, NoRow, Row
<1>2. SlugsAreUnique
  BY DEF Init, SlugsAreUnique, NoRow
<1>3. UnknownAreBare
  BY DEF Init, UnknownAreBare
<1> QED BY <1>1, <1>2, <1>3 DEF IInv

\* Every step keeps it.
LEMMA NextIInv == IInv /\ [Next]_vars => IInv'
<1> SUFFICES ASSUME IInv, [Next]_vars PROVE IInv'
  OBVIOUS
<1> USE DEF IInv
<1>1. ASSUME NEW t \in Teams, Edit(t) PROVE IInv'
  <2>1. PICK title \in Titles, slug \in Slugs \cup {None}, active \in BOOLEAN :
          site' = [site EXCEPT ![t] = [title |-> title, slug |-> slug, active |-> active]]
    BY <1>1 DEF Edit
  <2> QED BY <1>1, <2>1 DEF Edit, RowTypes, SlugsAreUnique, UnknownAreBare, readVars
<1>2. CASE ReadApi
  BY <1>2 DEF ReadApi, RowTypes, SlugsAreUnique, UnknownAreBare
<1>3. CASE ReadListing
  <2>1. \A t \in TeamsOnPage(page) : site[t].title \in Titles /\ site[t].slug \in Slugs
    BY DEF TeamsOnPage, ListedTeams, Active, RowTypes
  <2>2. slugs' \subseteq Titles \X Slugs
    BY <1>3, <2>1 DEF ReadListing, RowTypes
  <2> QED BY <1>3, <2>2 DEF ReadListing, RowTypes, SlugsAreUnique, UnknownAreBare
<1>4. CASE Store
  <2>1. api' \in [Teams -> SUBSET Titles] /\ slugs' \subseteq Titles \X Slugs /\ site' = site
    BY <1>4 DEF Store, Forget
  <2>2. rows' \in [Teams -> Row]
    BY <1>4, UpsertedRows DEF Store, RowTypes
  <2>3. SlugsAreUnique'
    <3>1. CASE KeepsSlugsUnique(Upserted)
      <4>1. rows' = Upserted
        BY <1>4, <3>1 DEF Store
      <4> QED BY <3>1, <4>1, UpsertsKeepSlugsUnique DEF SlugsAreUnique
    <3>2. CASE ~KeepsSlugsUnique(Upserted)
      BY <1>4, <3>2 DEF Store, SlugsAreUnique
    <3> QED BY <3>1, <3>2
  <2>4. UnknownAreBare'
    BY <1>4, UpsertedRows DEF Store, UnknownAreBare
  <2> QED BY <2>1, <2>2, <2>3, <2>4 DEF RowTypes
<1>5. ASSUME NEW playing \in SUBSET Teams, StoreStubs(playing) PROVE IInv'
  <2>1. \A t \in Teams : WithStub(t) \in Row /\ (WithStub(t) = rows[t] \/ WithStub(t).slug = None)
    BY DEF WithStub, Row, RowTypes
  <2>2. \A t \in Teams : rows'[t] \in Row /\ (rows'[t] = rows[t] \/ rows'[t].slug = None)
    BY <1>5, <2>1 DEF StoreStubs, RowTypes
  <2>3. rows' \in [Teams -> Row]
    BY <1>5, <2>2 DEF StoreStubs
  <2>4. SlugsAreUnique'
    BY <2>2, WftdaTeamsAssumption DEF SlugsAreUnique, WftdaTeamsAssumption
  <2>5. UnknownAreBare'
    BY <1>5 DEF StoreStubs, WithStub, UnknownAreBare
  <2> QED BY <1>5, <2>3, <2>4, <2>5 DEF StoreStubs, RowTypes, readVars
<1>6. CASE Fails
  BY <1>6 DEF Fails, Forget, RowTypes, SlugsAreUnique, UnknownAreBare
<1>7. CASE UNCHANGED vars
  BY <1>7 DEF vars, readVars, RowTypes, SlugsAreUnique, UnknownAreBare
<1> QED BY <1>1, <1>2, <1>3, <1>4, <1>5, <1>6, <1>7 DEF Next, Loop

\* Rows keep their types and no two of them share a slug, whatever edits at WFTDA,
\* conflicts, stubs and failures come between the reads of a cycle.
THEOREM SpecIInv == Spec => []IInv
<1> QED BY InitIInv, NextIInv, PTL DEF Spec

\* Unique slugs make the links unambiguous.
LEMMA IInvLinks == IInv => LinksResolve
<1> SUFFICES ASSUME IInv, NEW t \in Stored
             PROVE  Shown(PathOf(t)) = {t} /\ Shown(t) = {t}
  BY DEF LinksResolve
<1>t. t \in Teams /\ \A u \in Stored : u \in Teams
  BY DEF Stored
<1>s. \A u \in Teams : rows[u].slug \in Slugs \cup {None}
  BY DEF IInv, RowTypes, Row
<1>1. CASE rows[t].slug = None
  <2>1. PathOf(t) = t
    BY <1>1 DEF PathOf
  <2>2. Found(t) = {t}
    BY <1>t, <1>s, <1>1, WftdaTeamsAssumption DEF Found, WftdaTeamsAssumption
  <2> QED BY <1>1, <2>1, <2>2 DEF Shown
<1>2. CASE rows[t].slug # None
  <2>1. PathOf(t) = rows[t].slug /\ rows[t].slug \notin Teams
    BY <1>2, <1>s, <1>t, WftdaTeamsAssumption DEF PathOf, WftdaTeamsAssumption
  <2>2. Found(rows[t].slug) = {t}
    BY <1>2, <1>t, <2>1 DEF Found, IInv, SlugsAreUnique
  <2>3. Found(t) = {t}
    BY <1>t, <1>s, WftdaTeamsAssumption DEF Found, WftdaTeamsAssumption
  <2> QED BY <1>2, <1>t, <2>1, <2>2, <2>3 DEF Shown
<1> QED BY <1>1, <1>2

\* The link that pages give for a team, and its numeric URL, lead to that team's
\* page and to no other, in every state.
THEOREM LinksAlwaysResolve == Spec => []LinksResolve
<1> QED BY SpecIInv, IInvLinks, PTL

\* No team that was in the API falls back to a stub, loses its slug or takes its
\* title from a result.
THEOREM TeamsAreNeverDowngraded == Spec => TeamsAreNotDowngraded
<1> DEFINE Step == \A t \in Teams :
       /\ rows[t].known => rows'[t].known
       /\ rows[t].slug # None => rows'[t].slug # None
       /\ rows[t].inApi => rows'[t].inApi /\ rows'[t].title \in api[t] \cup {rows[t].title}
<1>1. IInv /\ [Next]_vars => [Step]_vars
  <2> SUFFICES ASSUME IInv, Next PROVE Step
    OBVIOUS
  <2>1. CASE Store
    BY <2>1, UpsertedRows DEF Store, IInv
  <2>2. ASSUME NEW playing \in SUBSET Teams, StoreStubs(playing) PROVE Step
    BY <2>2 DEF StoreStubs, WithStub, IInv, UnknownAreBare, NoRow
  <2>3. CASE UNCHANGED rows
    BY <2>3
  <2> QED BY <2>1, <2>2, <2>3 DEF Next, Loop, Edit, ReadApi, ReadListing, Fails
<1> QED BY <1>1, SpecIInv, PTL DEF Spec, TeamsAreNotDowngraded
=============================================================================
