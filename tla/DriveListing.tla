---------------------------- MODULE DriveListing ----------------------------
(***************************************************************************)
(* The Drive client as an index run and the drain after it use it.         *)
(*                                                                         *)
(* Requests, each with its retries, share the cached access token and one  *)
(* permit; those of a listing follow one another, the downloads of a drain *)
(* run side by side.  The listing asks for the quarter folders and then    *)
(* for the files of one folder after the other, all of it page by page,    *)
(* while users move files between folders and folders in and out of the    *)
(* tree.  Pipeline takes this listing in one step.                         *)
(*                                                                         *)
(* Pages come in the order of ids, which stands for whatever order Drive   *)
(* gives a query; in todo a page is in any order.  The time between        *)
(* retries and the content of files are left out.                          *)
(***************************************************************************)
EXTENDS Integers, FiniteSets, SequencesExt

CONSTANTS
  Files,        \* ids of Drive files
  Folders,      \* ids of quarter folders
  Elsewhere,    \* stands for every place outside the quarter folders
  PageSize,     \* pageSize of a list query
  MaxAttempts,  \* MAX_ATTEMPTS
  Concurrency   \* parse_concurrency: downloads side by side

ASSUME DriveListingAssumption ==
  /\ Files \subseteq Nat \ {0} /\ IsFiniteSet(Files)
  /\ Folders \subseteq Nat \ {0} /\ IsFiniteSet(Folders) /\ Elsewhere \notin Folders
  /\ PageSize \in Nat \ {0}
  /\ MaxAttempts \in Nat \ {0}
  /\ Concurrency \in Nat \ {0}

VARIABLES
  place,      \* Drive: per file its folder
  tree,       \* Drive: the folders that are in the root folder
  calm,       \* environment: users, Google and the network rest from now on
  token,      \* the cached token: "none", "good", or "stale" once Google has revoked it
  request,    \* per request "none", "ready" (waits for the permit), "permit", or the token it was sent with
  attempts,   \* per request its failed attempts
  stage,      \* "sleep", "folders", "files", "index" or "drain"
  todo,       \* subfolders whose files are still to list, the one in hand first
  after,      \* page token: the last item of the pages read so far of the list in hand, or 0
  seen,       \* files listed so far by this run
  rows,       \* ids of the table statsbooks
  queue,      \* files whose download the drain has not begun
  unmoved     \* history: files of the tree that no user touched, nor their folder, since the listing began

driveVars == <<place, tree>>
clientVars == <<token, request, attempts>>
runVars == <<stage, todo, after, seen, rows, queue>>
vars == <<driveVars, calm, clientVars, runVars, unmoved>>

Places == Folders \cup {Elsewhere}

\* The request of the listing, next to one for each download.
Listing == 0

Requests == Files \cup {Listing}

\* Every variable has its type; no request fails more often than MAX_ATTEMPTS.
TypeOK ==
  /\ place \in [Files -> Places]
  /\ tree \in SUBSET Folders
  /\ calm \in BOOLEAN
  /\ token \in {"none", "good", "stale"}
  /\ request \in [Requests -> {"none", "ready", "permit", "good", "stale"}]
  /\ attempts \in [Requests -> 0..(MaxAttempts - 1)]
  /\ stage \in {"sleep", "folders", "files", "index", "drain"}
  /\ todo \in Seq(Folders)
  /\ after \in Files \cup Folders \cup {0}
  /\ seen \in SUBSET Files
  /\ rows \in SUBSET Files
  /\ queue \in SUBSET Files
  /\ unmoved \in SUBSET Files

InTree(where, folders) == {f \in Files : where[f] \in folders}

Init ==
  /\ place \in [Files -> Places]
  /\ tree \in SUBSET Folders
  /\ calm = FALSE
  /\ token = "none"
  /\ request = [r \in Requests |-> "none"]
  /\ attempts = [r \in Requests |-> 0]
  /\ stage = "sleep" /\ todo = <<>> /\ after = 0 /\ seen = {}
  /\ rows \in SUBSET Files
  /\ queue = {}
  /\ unmoved = {}

-----------------------------------------------------------------------------
(* Drive and its users *)

\* What the history keeps of a change that touches the files in moved.
Touch(moved) ==
  /\ ~calm
  /\ unmoved' = unmoved \ moved
  /\ UNCHANGED <<calm, clientVars, runVars>>

Move(f, where) ==
  /\ where # place[f]
  /\ place' = [place EXCEPT ![f] = where]
  /\ UNCHANGED tree
  /\ Touch({f})

MoveFolder(d) ==
  /\ tree' = IF d \in tree THEN tree \ {d} ELSE tree \cup {d}
  /\ UNCHANGED place
  /\ Touch(InTree(place, {d}))

\* The token expires, an hour after it was issued, or is revoked.
Revoke ==
  /\ ~calm
  /\ token = "good"
  /\ token' = "stale"
  /\ request' = [r \in Requests |-> IF request[r] = "good" THEN "stale" ELSE request[r]]
  /\ UNCHANGED <<driveVars, calm, attempts, runVars, unmoved>>

Rest ==
  /\ calm' = TRUE
  /\ UNCHANGED <<driveVars, clientVars, runVars, unmoved>>

-----------------------------------------------------------------------------
(* Ends of requests *)

HasPermit == {r \in Requests : request[r] \in {"permit", "good", "stale"}}

\* Request r is over and, if more is TRUE, the listing's next one begins.
Over(r, more) ==
  /\ request' = [request EXCEPT ![r] = IF more THEN "ready" ELSE "none"]
  /\ attempts' = [attempts EXCEPT ![r] = 0]

\* The listing ends without touching a row.
ListingFails ==
  /\ stage' = "sleep"
  /\ todo' = <<>> /\ after' = 0 /\ seen' = {}
  /\ unmoved' = {}
  /\ UNCHANGED <<rows, queue>>

\* A listing fails with its request; a drain goes on with its other files.
GiveUp(r) ==
  /\ Over(r, FALSE)
  /\ IF r = Listing THEN ListingFails ELSE UNCHANGED <<runVars, unmoved>>

\* with_retry, after an error that may pass: the permit is free during the delay.
Again(r) ==
  IF attempts[r] + 1 >= MaxAttempts
  THEN GiveUp(r)
  ELSE /\ attempts' = [attempts EXCEPT ![r] = @ + 1]
       /\ request' = [request EXCEPT ![r] = "ready"]
       /\ UNCHANGED <<runVars, unmoved>>

-----------------------------------------------------------------------------
(* One attempt *)

\* Seeded fault: the permit is not exclusive.
AcquireAnyway(r) ==
  /\ request[r] = "ready"
  /\ request' = [request EXCEPT ![r] = "permit"]
  /\ UNCHANGED <<driveVars, calm, token, attempts, runVars, unmoved>>

\* request_sem.acquire, after the delay if there was one.
Acquire(r) ==
  /\ request[r] = "ready"
  /\ HasPermit = {}
  /\ request' = [request EXCEPT ![r] = "permit"]
  /\ UNCHANGED <<driveVars, calm, token, attempts, runVars, unmoved>>

\* ensure_token, and the request is sent with a copy of the token.
Send(r) ==
  /\ request[r] = "permit"
  /\ token' = IF token = "none" THEN "good" ELSE token
  /\ request' = [request EXCEPT ![r] = token']
  /\ UNCHANGED <<driveVars, calm, attempts, runVars, unmoved>>

\* No token is to be had: Google refuses it or cannot be reached.
TokenFails(r) ==
  /\ request[r] = "permit" /\ token = "none" /\ ~calm
  /\ Again(r)
  /\ UNCHANGED <<driveVars, calm, token>>

\* HTTP 401: the token is dropped, for the next attempt to fetch another.
Unauthorized(r) ==
  /\ request[r] = "stale"
  /\ token' = "none"
  /\ Again(r)
  /\ UNCHANGED <<driveVars, calm>>

\* A rate limit, a server error, a broken connection or an unreadable answer.
Busy(r) ==
  /\ request[r] \in {"good", "stale"} /\ ~calm
  /\ Again(r)
  /\ UNCHANGED <<driveVars, calm, token>>

\* Any other error status ends the request at once.
Refused(r) ==
  /\ request[r] = "good" /\ ~calm
  /\ GiveUp(r)
  /\ UNCHANGED <<driveVars, calm, token>>

\* Request r succeeds.
Answered(r, more) ==
  /\ request[r] = "good"
  /\ Over(r, more)
  /\ UNCHANGED <<driveVars, calm, token>>

-----------------------------------------------------------------------------
(* The index run *)

\* sync_statsbook_index begins with the list of the subfolders.
StartListing ==
  /\ stage = "sleep"
  /\ stage' = "folders"
  /\ request' = [request EXCEPT ![Listing] = "ready"]
  /\ unmoved' = InTree(place, tree)
  /\ UNCHANGED <<driveVars, calm, token, attempts, todo, after, seen, rows, queue>>

\* Seeded fault: the page token is not sent.
LeftFromTheStart(items) == items

\* The items of a list that the pages read so far have not reached.
Left(items) == {x \in items : x > after}

\* One page of a list; a page token comes with it as long as there are more.
PageOf(items) ==
  {x \in Left(items) : Cardinality({y \in Left(items) : y < x}) < PageSize}

\* The next request is for the page after this one, in the same stage.
NextPage(page) ==
  /\ \E last \in page : (\A x \in page : x <= last) /\ after' = last
  /\ UNCHANGED stage
  /\ Answered(Listing, TRUE)

\* The list in hand is complete: what is still to list makes the next stage.
NextList(folders) ==
  /\ after' = 0
  /\ stage' = IF folders = <<>> THEN "index" ELSE "files"
  /\ Answered(Listing, folders # <<>>)

\* One page of the subfolders.
ListFolders ==
  /\ stage = "folders"
  /\ \E page \in SetToSeqs(PageOf(tree)) : todo' = todo \o page
  /\ IF PageOf(tree) # Left(tree) THEN NextPage(PageOf(tree)) ELSE NextList(todo')
  /\ UNCHANGED <<seen, rows, queue, unmoved>>

FilesIn(d) == {f \in Files : place[f] = d}

\* Seeded fault: the next page is not asked for.
ListFilesOnePage ==
  /\ stage = "files"
  /\ seen' = seen \cup PageOf(FilesIn(Head(todo)))
  /\ todo' = Tail(todo)
  /\ NextList(todo')
  /\ UNCHANGED <<rows, queue, unmoved>>

\* One page of the files of the folder in hand.
ListFiles ==
  /\ stage = "files"
  /\ LET page == PageOf(FilesIn(Head(todo)))
     IN  /\ seen' = seen \cup page
         /\ IF page # Left(FilesIn(Head(todo)))
            THEN NextPage(page) /\ UNCHANGED todo
            ELSE todo' = Tail(todo) /\ NextList(todo')
  /\ UNCHANGED <<rows, queue, unmoved>>

\* Seeded fault: rows of files that were not listed stay.
IndexKeepsRows ==
  /\ stage = "index"
  /\ rows' = rows \cup seen
  /\ queue' \in SUBSET rows'
  /\ stage' = "drain"
  /\ seen' = {} /\ unmoved' = {}
  /\ UNCHANGED <<driveVars, calm, clientVars, todo, after>>

\* The upserts and mark_removed; the drain then has some of the rows to parse.
Index ==
  /\ stage = "index"
  /\ rows' = seen
  /\ queue' \in SUBSET rows'
  /\ stage' = "drain"
  /\ seen' = {} /\ unmoved' = {}
  /\ UNCHANGED <<driveVars, calm, clientVars, todo, after>>

-----------------------------------------------------------------------------
(* The drain *)

Downloading == {f \in Files : request[f] # "none"}

\* buffer_unordered lets in as many downloads as Concurrency.
StartDownload(f) ==
  /\ stage = "drain"
  /\ f \in queue
  /\ Cardinality(Downloading) < Concurrency
  /\ queue' = queue \ {f}
  /\ request' = [request EXCEPT ![f] = "ready"]
  /\ UNCHANGED <<driveVars, calm, token, attempts, stage, todo, after, seen, rows, unmoved>>

\* A download by id, wherever the file is by now.
Download(f) == Answered(f, FALSE) /\ UNCHANGED <<runVars, unmoved>>

EndDrain ==
  /\ stage = "drain"
  /\ queue = {} /\ Downloading = {}
  /\ stage' = "sleep"
  /\ UNCHANGED <<driveVars, calm, clientVars, todo, after, seen, rows, queue, unmoved>>

-----------------------------------------------------------------------------

\* What the loop and its requests do of themselves, errors included.
Loop ==
  \/ StartListing \/ ListFolders \/ ListFiles \/ Index \/ EndDrain
  \/ \E f \in Files : StartDownload(f) \/ Download(f)
  \/ \E r \in Requests :
       Acquire(r) \/ Send(r) \/ TokenFails(r) \/ Unauthorized(r) \/ Busy(r) \/ Refused(r)

Next ==
  \/ Loop
  \/ Revoke \/ Rest
  \/ \E f \in Files, where \in Places : Move(f, where)
  \/ \E d \in Folders : MoveFolder(d)

Spec == Init /\ [][Next]_vars

\* One task polls the loop and all its requests, and each request ends with an
\* answer, an error or the client's timeout.
FairSpec == Spec /\ WF_vars(Loop)

-----------------------------------------------------------------------------
(* Properties *)

\* A 401 never drops a token that is still good: the permit covers the time from
\* the copy of the token to the answer, so that no download with an old token
\* undoes the refresh of another.
GoodTokensAreKept == [][token = "good" => token' # "none"]_vars

\* No row of a file is retracted that lay untouched in the tree during the
\* listing, however long its folder is, whatever moved around it, and
\* whichever requests failed.
UntouchedFilesAreKept ==
  [][\A f \in rows \ rows' : f \notin unmoved]_vars

\* A listing and its drain end, even if Google never answers well again.
RunsEnd == stage # "sleep" ~> stage = "sleep"

\* Once Drive rests, statsbooks holds the files of the tree and no other.
ListingCatchesUp == <>calm => <>[](rows = InTree(place, tree))
=============================================================================
