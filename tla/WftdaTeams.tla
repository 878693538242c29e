----------------------------- MODULE WftdaTeams -----------------------------
(***************************************************************************)
(* The team sync of the wftda loop: /api/teams, then the pages of the team *)
(* listing, then one transaction of upserts; after it the game sync of the *)
(* same cycle adds stubs for teams that only results know.  Rows keep the  *)
(* slug they have when the listing shows none, and slugs are unique, so    *)
(* what was stored long ago can stand in the way of what is listed today.  *)
(* WFTDA renames, retires and adds teams between the requests.             *)
(*                                                                         *)
(* A team page is addressed by its slug or, without one, by its id.        *)
(***************************************************************************)
EXTENDS Integers, FiniteSets

CONSTANTS
  Teams,         \* WFTDA team ids, numbered in the order of /api/teams
  Titles,        \* titles of teams
  Slugs,         \* slugs of team pages
  None,          \* stands for no slug
  PageSize,      \* teams on a page of the listing
  ListingPages,  \* TEAM_LISTING_PAGES
  MaxEdits,      \* bound on changes at WFTDA
  MaxFaults      \* bound on failed requests, failed transactions and crashes

ASSUME WftdaTeamsAssumption ==
  /\ Teams \subseteq Nat \ {0} /\ IsFiniteSet(Teams)
  /\ None \notin Slugs \cup Teams
  /\ Slugs \cap Teams = {}   \* no slug is a number
  /\ PageSize \in Nat \ {0}
  /\ ListingPages \in Nat \ {0} /\ Cardinality(Teams) <= PageSize * ListingPages
  /\ MaxEdits \in Nat /\ MaxFaults \in Nat

VARIABLES
  site,     \* per team: its title and slug at WFTDA and whether it is active
  rows,     \* wftda_teams: per team its row, or NoRow
  stage,    \* "sleep", "listing", "store" or "games": where run_sync stands
  api,      \* per team: the title that /api/teams gave, or none, in a set
  page,     \* the page of the listing to request next
  slugs,    \* pairs of a title and a slug read so far
  edits,    \* number of changes at WFTDA so far
  faults    \* number of faults so far

readVars == <<api, page, slugs>>
vars == <<site, rows, stage, readVars, edits, faults>>

NoRow == [known |-> FALSE, title |-> None, slug |-> None, inApi |-> FALSE]

NothingRead == api = [t \in Teams |-> {}] /\ page = 1 /\ slugs = {}

Init ==
  /\ site \in [Teams -> [title : Titles, slug : Slugs \cup {None}, active : BOOLEAN]]
  /\ \A t, u \in Teams : t # u => site[t].title # site[u].title
                                  /\ (site[t].slug = None \/ site[t].slug # site[u].slug)
  /\ rows = [t \in Teams |-> NoRow]
  /\ stage = "sleep"
  /\ NothingRead
  /\ edits = 0 /\ faults = 0

-----------------------------------------------------------------------------
(* WFTDA *)

Active == {t \in Teams : site[t].active}

\* One team is retitled, given another slug, retired or taken back; active teams
\* have their own titles and their own slugs.
Edit(t) ==
  /\ edits < MaxEdits
  /\ edits' = edits + 1
  /\ \E title \in Titles, slug \in Slugs \cup {None}, active \in BOOLEAN :
       /\ site' = [site EXCEPT ![t] = [title |-> title, slug |-> slug, active |-> active]]
       /\ site' # site
       /\ active => \A u \in Active \ {t} : site[u].title # title /\ (slug = None \/ site[u].slug # slug)
  /\ UNCHANGED <<rows, stage, readVars, faults>>

\* /teams lists the active teams that have a page.
ListedTeams == {t \in Active : site[t].slug # None}

Rank(t) == Cardinality({u \in ListedTeams : u < t})

TeamsOnPage(n) == {t \in ListedTeams : (n - 1) * PageSize <= Rank(t) /\ Rank(t) < n * PageSize}

-----------------------------------------------------------------------------
(* run_sync *)

\* GET /api/teams
ReadApi ==
  /\ stage = "sleep"
  /\ stage' = "listing"
  /\ api' = [t \in Teams |-> IF t \in Active THEN {site[t].title} ELSE {}]
  /\ UNCHANGED <<site, rows, page, slugs, edits, faults>>

\* Seeded fault: the last page that may be asked for is not.
LastListingPageEarly(found) == page >= ListingPages - 1 \/ found = {}

\* An empty page ends the listing, and so does the page limit.
LastListingPage(found) == page = ListingPages \/ found = {}

\* GET /teams?page=N; a title that is listed again takes the later slug.
ReadListing ==
  /\ stage = "listing"
  /\ LET found == {<<site[t].title, site[t].slug>> : t \in TeamsOnPage(page)}
     IN  /\ slugs' = {pair \in slugs : \A new \in found : pair[1] # new[1]} \cup found
         /\ IF LastListingPage(found)
            THEN stage' = "store" /\ UNCHANGED page
            ELSE page' = page + 1 /\ UNCHANGED stage
  /\ UNCHANGED <<site, rows, api, edits, faults>>

SlugOf(title) ==
  IF \E pair \in slugs : pair[1] = title
  THEN (CHOOSE pair \in slugs : pair[1] = title)[2] ELSE None

\* Seeded fault: the slug of the listing replaces the old one even if there is none.
UpsertPlain(t, title) == [known |-> TRUE, title |-> title, slug |-> SlugOf(title), inApi |-> TRUE]

\* INSERT ... ON CONFLICT (id) DO UPDATE, slug = COALESCE(new, old).
Upsert(t, title) ==
  [known |-> TRUE, title |-> title, inApi |-> TRUE,
   slug |-> IF SlugOf(title) # None THEN SlugOf(title) ELSE rows[t].slug]

Upserted == [t \in Teams |-> IF api[t] = {} THEN rows[t]
                             ELSE Upsert(t, CHOOSE title \in api[t] : TRUE)]

\* Seeded fault: slugs need not be unique.
KeepsSlugsUniqueNever(new) == TRUE

\* No upsert, made in the order of /api/teams, meets another row with its slug.
KeepsSlugsUnique(new) ==
  \A t \in Teams : api[t] # {} =>
    \A u \in Teams \ {t} :
      LET other == IF u < t THEN new[u] ELSE rows[u]
      IN  new[t].slug = None \/ other.slug # new[t].slug

Forget == api' = [t \in Teams |-> {}] /\ page' = 1 /\ slugs' = {}

\* One transaction; the UNIQUE constraint undoes all of it.  Either way the
\* cycle goes on with the game sync.
Store ==
  /\ stage = "store"
  /\ rows' = IF KeepsSlugsUnique(Upserted) THEN Upserted ELSE rows
  /\ stage' = "games"
  /\ Forget
  /\ UNCHANGED <<site, edits, faults>>

\* INSERT ... ON CONFLICT (id) DO NOTHING
WithStub(t) == IF rows[t].known THEN rows[t]
               ELSE [known |-> TRUE, title |-> site[t].title, slug |-> None, inApi |-> FALSE]

\* The stubs of the teams whose games the results list.
StoreStubs(playing) ==
  /\ stage = "games"
  /\ rows' = [t \in Teams |-> IF t \in playing THEN WithStub(t) ELSE rows[t]]
  /\ stage' = "sleep"
  /\ UNCHANGED <<site, readVars, edits, faults>>

\* A request of the team sync fails for good, the transaction fails, or the
\* process restarts: nothing of it is stored.  A restart begins a new cycle.
Fails ==
  /\ stage # "sleep"
  /\ faults < MaxFaults
  /\ faults' = faults + 1
  /\ stage' \in {"games", "sleep"}
  /\ Forget
  /\ UNCHANGED <<site, rows, edits>>

Loop == ReadApi \/ ReadListing \/ Store \/ \E playing \in SUBSET Teams : StoreStubs(playing)

Next == Loop \/ Fails \/ \E t \in Teams : Edit(t)

Spec == Init /\ [][Next]_vars

\* The loop is one task whose awaits all return.
FairSpec == Spec /\ WF_vars(Loop)

-----------------------------------------------------------------------------
(* Team pages *)

Stored == {t \in Teams : rows[t].known}

\* COALESCE(slug, id)
PathOf(t) == IF rows[t].slug # None THEN rows[t].slug ELSE t

\* The teams one of whose rows /team/path can find.
Found(path) == {t \in Stored : rows[t].slug = path \/ t = path}

\* A numeric path of a team with a slug is redirected to the slug.
Shown(path) ==
  UNION {IF path \in Teams /\ rows[t].slug # None THEN Found(rows[t].slug) ELSE {t} :
           t \in Found(path)}

-----------------------------------------------------------------------------
(* Properties *)

\* The link that pages give for a team, and its numeric URL, lead to its page
\* and to no other.
LinksResolve == \A t \in Stored : Shown(PathOf(t)) = {t} /\ Shown(t) = {t}

\* However the reads of a cycle are mixed and whatever the results list, a team
\* that has been in the API stays so, its title comes from the API alone, and
\* no team loses its row or is left without a slug.
TeamsAreNotDowngraded ==
  [][\A t \in Teams :
       /\ rows[t].known => rows'[t].known
       /\ rows[t].slug # None => rows'[t].slug # None
       /\ rows[t].inApi => rows'[t].inApi /\ rows'[t].title \in api[t] \cup {rows[t].title}]_vars

\* A slug that the listing gives to t is held by the row of another team, which
\* is not about to exchange it for one of its own.
Wedged ==
  \E t \in ListedTeams, u \in Stored :
    /\ u # t /\ rows[u].slug = site[t].slug
    /\ ~(u \in ListedTeams /\ u < t)

\* The rows show the active teams as WFTDA lists them once it and the faults
\* have come to rest, unless a slug has passed to a team from one whose row
\* keeps it: then the team sync fails in every cycle.
TeamsCatchUp ==
  <>[](\/ Wedged
       \/ \A t \in Active : /\ rows[t].inApi /\ rows[t].title = site[t].title
                            /\ site[t].slug \in {None, rows[t].slug})
=============================================================================
