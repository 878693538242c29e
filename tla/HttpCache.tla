----------------------------- MODULE HttpCache -----------------------------
(***************************************************************************)
(* The in-memory response cache in front of the pages, and its two kinds   *)
(* of users: requests, which look a page up, render it from the database   *)
(* on a miss and store what they rendered, and the ingest loops, which     *)
(* write to the database and clear the cache after their writes.           *)
(*                                                                         *)
(* The state of the database is a number, 1 at the start and one more with *)
(* every ingest write; a rendered page is known by the state it saw, and 0 *)
(* stands for no page.  Requests the middleware passes through (methods    *)
(* other than GET, /search) never touch the cache and are left out.        *)
(***************************************************************************)
EXTENDS Naturals, FiniteSets, FiniteSetsExt

CONSTANTS
  Pages,      \* the URIs of cacheable pages
  Requests,   \* requests that can be in flight at once
  Loops,      \* the ingest loops
  BodySize,   \* compressed size of a page rendered from a state of the database
  Oversized,  \* the states in which a page exceeds MAX_CACHEABLE_BODY_BYTES
  MaxBytes,   \* the limit of the cache
  MaxWrites   \* bound on the ingest writes

States == 1..MaxWrites + 1

ASSUME HttpCacheAssumption ==
  /\ BodySize \in [Pages -> [States -> Nat]]
  /\ Oversized \in [Pages -> SUBSET States]
  /\ MaxBytes \in Nat /\ MaxWrites \in Nat

VARIABLES
  db,        \* the state of the database
  loop,      \* per loop: "clear", or "dirty" if it has written since its clear
  entries,   \* per page: the state its cached body was rendered from, or 0
  used,      \* used_bytes
  at,        \* per request: "idle", "missed" or "rendered"
  page,      \* per request: the page it missed, or "none"
  saw,       \* per request: the state it rendered from, or 0
  quiet      \* history: a clear while no request was in flight, no write since

requestVars == <<at, page, saw>>
vars == <<db, loop, entries, used, requestVars, quiet>>

Cached == {p \in Pages : entries[p] # 0}

SizeOf(p) == BodySize[p][entries[p]]

\* Pages, counts and requests are well formed; in particular the cache never holds more than its limit.
TypeOK ==
  /\ db \in States
  /\ loop \in [Loops -> {"clear", "dirty"}]
  /\ entries \in [Pages -> States \cup {0}]
  /\ used \in 0..MaxBytes
  /\ at \in [Requests -> {"idle", "missed", "rendered"}]
  /\ page \in [Requests -> Pages \cup {"none"}]
  /\ saw \in [Requests -> States \cup {0}]
  /\ quiet \in BOOLEAN

Init ==
  /\ db = 1
  /\ loop = [l \in Loops |-> "clear"]
  /\ entries = [p \in Pages |-> 0]
  /\ used = 0
  /\ at = [r \in Requests |-> "idle"]
  /\ page = [r \in Requests |-> "none"]
  /\ saw = [r \in Requests |-> 0]
  /\ quiet = TRUE

-----------------------------------------------------------------------------
(* Requests *)

\* The page is to be rendered.
Ask(r, p) ==
  /\ at[r] = "idle"
  /\ at' = [at EXCEPT ![r] = "missed"]
  /\ page' = [page EXCEPT ![r] = p]
  /\ UNCHANGED <<db, loop, entries, used, saw, quiet>>

\* A miss; a hit answers at once and changes nothing.
Miss(r, p) == entries[p] = 0 /\ Ask(r, p)

\* A hit for a client without brotli whose body cannot be decompressed: the page
\* is rendered although it is cached.
HitFails(r, p) == entries[p] # 0 /\ Ask(r, p)

\* The handler reads the database.
Render(r) ==
  /\ at[r] = "missed"
  /\ at' = [at EXCEPT ![r] = "rendered"]
  /\ saw' = [saw EXCEPT ![r] = db]
  /\ UNCHANGED <<db, loop, entries, used, page, quiet>>

Done(r) ==
  /\ at' = [at EXCEPT ![r] = "idle"]
  /\ page' = [page EXCEPT ![r] = "none"]
  /\ saw' = [saw EXCEPT ![r] = 0]

\* Not a 200, a body that cannot be read or compressed, or the client has gone
\* before the answer: nothing is stored.
Abandon(r) ==
  /\ at[r] # "idle"
  /\ Done(r)
  /\ UNCHANGED <<db, loop, entries, used, quiet>>

\* used_bytes after storing a body of this size in place of the present entry;
\* the subtraction saturates.
UsedAfter(p, size) ==
  LET old == IF entries[p] = 0 THEN 0 ELSE SizeOf(p)
  IN  (IF used < old THEN 0 ELSE used - old) + size

\* Seeded fault: the replaced entry stays counted.
SetCountsTwice(p, version) ==
  IF used + BodySize[p][version] > MaxBytes
  THEN UNCHANGED <<entries, used>>
  ELSE /\ entries' = [entries EXCEPT ![p] = version]
       /\ used' = used + BodySize[p][version]

\* Seeded fault: the limit is checked before the body is counted.
SetOverfull(p, version) ==
  IF used > MaxBytes
  THEN UNCHANGED <<entries, used>>
  ELSE /\ entries' = [entries EXCEPT ![p] = version]
       /\ used' = UsedAfter(p, BodySize[p][version])

\* Cache::set: a body that does not fit is dropped and an older one stays.
Set(p, version) ==
  IF UsedAfter(p, BodySize[p][version]) > MaxBytes
  THEN UNCHANGED <<entries, used>>
  ELSE /\ entries' = [entries EXCEPT ![p] = version]
       /\ used' = UsedAfter(p, BodySize[p][version])

\* Another request may have stored the page, or a loop cleared the cache, since
\* this one missed.
Respond(r) ==
  /\ at[r] = "rendered"
  /\ IF saw[r] \in Oversized[page[r]]
     THEN UNCHANGED <<entries, used>>
     ELSE Set(page[r], saw[r])
  /\ Done(r)
  /\ UNCHANGED <<db, loop, quiet>>

-----------------------------------------------------------------------------
(* Ingest loops *)

\* A sync, index, parse or resolve transaction commits.
Write(l) ==
  /\ db <= MaxWrites
  /\ db' = db + 1
  /\ loop' = [loop EXCEPT ![l] = "dirty"]
  /\ quiet' = FALSE
  /\ UNCHANGED <<entries, used, requestVars>>

\* Seeded fault: a clear resets the count and leaves the bodies.
ClearResetsCount(l) ==
  /\ used' = 0
  /\ loop' = [loop EXCEPT ![l] = "clear"]
  /\ quiet' = \A r \in Requests : at[r] = "idle"
  /\ UNCHANGED <<db, entries, requestVars>>

\* Seeded fault: the cache is cleared only by a loop that has written.
ClearIfDirty(l) ==
  /\ loop[l] = "dirty"
  /\ entries' = [p \in Pages |-> 0]
  /\ used' = 0
  /\ loop' = [loop EXCEPT ![l] = "clear"]
  /\ quiet' = \A r \in Requests : at[r] = "idle"
  /\ UNCHANGED <<db, requestVars>>

\* The end of a batch or of a cycle; a cycle clears even if it wrote nothing.
Clear(l) ==
  /\ entries' = [p \in Pages |-> 0]
  /\ used' = 0
  /\ loop' = [loop EXCEPT ![l] = "clear"]
  /\ quiet' = \A r \in Requests : at[r] = "idle"
  /\ UNCHANGED <<db, requestVars>>

Next ==
  \/ \E r \in Requests : \/ \E p \in Pages : Miss(r, p) \/ HitFails(r, p)
                         \/ Render(r) \/ Abandon(r) \/ Respond(r)
  \/ \E l \in Loops : Write(l) \/ Clear(l)

Spec == Init /\ [][Next]_vars

\* A request in flight is answered or given up, and each loop comes round to its clear again.
Fairness ==
  /\ \A r \in Requests : WF_vars(Render(r) \/ Abandon(r)) /\ WF_vars(Respond(r))
  /\ \A l \in Loops : WF_vars(Clear(l))

FairSpec == Spec /\ Fairness

-----------------------------------------------------------------------------
(* Properties *)

\* used_bytes is the size of what is cached, however requests for the same page
\* race with each other and with a clear: a count that drifted up would turn the
\* cache off without a trace, one that drifted down would outgrow the memory.
UsedIsExact ==
  used = MapThenSumSet(SizeOf, Cached)

Current(p) == entries[p] \in {0, db}

\* A clear that no request in flight can undo leaves only current pages until
\* the next write: what misses afterwards renders from what was written.
QuietClearIsFresh == quiet => \A p \in Pages : Current(p)

\* A page stored late by a request that rendered it before a clear is not
\* served for ever: once the ingest stops writing, the pages catch up with it.
PagesCatchUp == <>[](\A p \in Pages : Current(p))
=============================================================================
