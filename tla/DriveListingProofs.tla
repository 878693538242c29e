------------------------ MODULE DriveListingProofs ------------------------
(***************************************************************************)
(* The shared token of the Drive client and the completeness of a listing, *)
(* for every number of files, folders, attempts and downloads side by side *)
(* and every size of pages.                                                *)
(***************************************************************************)
EXTENDS DriveListing, FunctionTheorems, FiniteSetTheorems, SequenceTheorems, TLAPS

\* The part of the types that the token depends on.
ClientTypes ==
  /\ token \in {"none", "good", "stale"}
  /\ request \in [Requests -> {"none", "ready", "permit", "good", "stale"}]

\* At most one request has the permit, and a request under way was sent with
\* the token that is cached.
PermitInv ==
  /\ ClientTypes
  /\ \A r, s \in HasPermit : r = s
  /\ \A r \in Requests : request[r] \in {"good", "stale"} => token = request[r]

-----------------------------------------------------------------------------
(* What a step does to the client *)

\* Request r begins, waits for another attempt or is over.
Parks(r) == \E wait \in {"none", "ready"} : request' = [request EXCEPT ![r] = wait]

\* The one way the token is lost.
Drops(r) == request[r] = "stale" /\ token' = "none" /\ Parks(r)

ClientStep ==
  \/ UNCHANGED <<token, request>>
  \/ \E r \in Requests : UNCHANGED token /\ Parks(r)
  \/ \E r \in Requests : Drops(r)
  \/ \E r \in Requests : Acquire(r) \/ Send(r)
  \/ Revoke

\* However a request ends or is tried again, it gives the permit back.
LEMMA AgainParks ==
  ASSUME NEW r \in Requests, Again(r)
  PROVE  Parks(r)
BY DEF Again, GiveUp, Over, Parks

\* So does an answer.
LEMMA AnsweredParks ==
  ASSUME NEW r \in Requests, NEW more \in BOOLEAN, Answered(r, more)
  PROVE  UNCHANGED token /\ Parks(r)
<1>1. CASE more
  BY <1>1 DEF Answered, Over, Parks
<1>2. CASE ~more
  BY <1>2 DEF Answered, Over, Parks
<1> QED
  BY <1>1, <1>2

\* The listing has a request like every download.
LEMMA ListingIsRequest == Listing \in Requests
BY DEF Requests

\* Every step of the system is one of these few steps of the client.
LEMMA NextIsClientStep == [Next]_vars => ClientStep
<1> SUFFICES ASSUME [Next]_vars PROVE ClientStep
  OBVIOUS
<1>1. CASE UNCHANGED vars
  BY <1>1 DEF vars, clientVars, ClientStep
<1>2. CASE StartListing
  BY <1>2, ListingIsRequest DEF StartListing, ClientStep, Parks
<1>3. CASE ListFolders
  <2>1. \E more \in BOOLEAN : Answered(Listing, more)
    BY <1>3 DEF ListFolders, NextPage, NextList
  <2> QED
    BY <2>1, AnsweredParks, ListingIsRequest DEF ClientStep
<1>4. CASE ListFiles
  <2>1. \E more \in BOOLEAN : Answered(Listing, more)
    BY <1>4 DEF ListFiles, NextPage, NextList
  <2> QED
    BY <2>1, AnsweredParks, ListingIsRequest DEF ClientStep
<1>5. CASE Index \/ EndDrain \/ Rest
  BY <1>5 DEF Index, EndDrain, Rest, clientVars, ClientStep
<1>6. ASSUME NEW f \in Files, StartDownload(f) PROVE ClientStep
  BY <1>6 DEF StartDownload, ClientStep, Parks, Requests
<1>7. ASSUME NEW f \in Files, Download(f) PROVE ClientStep
  BY <1>7, AnsweredParks DEF Download, ClientStep, Requests
<1>8. ASSUME NEW r \in Requests, Acquire(r) \/ Send(r) PROVE ClientStep
  BY <1>8 DEF ClientStep
<1>9. ASSUME NEW r \in Requests, TokenFails(r) \/ Busy(r) PROVE ClientStep
  BY <1>9, AgainParks DEF TokenFails, Busy, ClientStep
<1>10. ASSUME NEW r \in Requests, Unauthorized(r) PROVE ClientStep
  BY <1>10, AgainParks DEF Unauthorized, ClientStep, Drops
<1>11. ASSUME NEW r \in Requests, Refused(r) PROVE ClientStep
  BY <1>11 DEF Refused, GiveUp, Over, Parks, ClientStep
<1>12. CASE Revoke
  BY <1>12 DEF ClientStep
<1>13. ASSUME NEW f \in Files, NEW where \in Places, Move(f, where) PROVE ClientStep
  BY <1>13 DEF Move, Touch, clientVars, ClientStep
<1>14. ASSUME NEW d \in Folders, MoveFolder(d) PROVE ClientStep
  BY <1>14 DEF MoveFolder, Touch, clientVars, ClientStep
<1> QED
  BY <1>1, <1>2, <1>3, <1>4, <1>5, <1>6, <1>7, <1>8, <1>9, <1>10, <1>11, <1>12, <1>13, <1>14
  DEF Next, Loop

-----------------------------------------------------------------------------
(* The invariant *)

\* At the start no request has the permit.
LEMMA InitPermitInv == Init => PermitInv
BY DEF Init, PermitInv, ClientTypes, HasPermit

\* The permit stays with one request at a time.
LEMMA NextPermitInv == PermitInv /\ [Next]_vars => PermitInv'
<1> SUFFICES ASSUME PermitInv, ClientStep PROVE PermitInv'
  BY NextIsClientStep
<1> USE DEF PermitInv, ClientTypes, HasPermit
<1>1. CASE UNCHANGED <<token, request>>
  BY <1>1
<1>2. ASSUME NEW r \in Requests, UNCHANGED token, Parks(r) PROVE PermitInv'
  BY <1>2 DEF Parks
<1>3. ASSUME NEW r \in Requests, Drops(r) PROVE PermitInv'
  BY <1>3 DEF Drops, Parks
<1>4. ASSUME NEW r \in Requests, Acquire(r) PROVE PermitInv'
  BY <1>4 DEF Acquire
<1>5. ASSUME NEW r \in Requests, Send(r) PROVE PermitInv'
  BY <1>5 DEF Send
<1>6. CASE Revoke
  BY <1>6 DEF Revoke
<1> QED
  BY <1>1, <1>2, <1>3, <1>4, <1>5, <1>6 DEF ClientStep

\* One request at a time talks to Google, with the token in hand: the permit of
\* send_list_request and download_file excludes, through every retry.
THEOREM OnePermit == Spec => []PermitInv
<1>1. PermitInv /\ [Next]_vars => PermitInv'
  BY NextPermitInv
<1> QED
  BY InitPermitInv, <1>1, PTL DEF Spec

\* A 401 never drops a token that is still good, however many downloads share it.
THEOREM RefreshedTokensAreKept == Spec => GoodTokensAreKept
<1>1. ASSUME PermitInv, [Next]_vars PROVE [token = "good" => token' # "none"]_vars
  <2>1. SUFFICES ASSUME token = "good" PROVE token' # "none"
    OBVIOUS
  <2>2. ClientStep
    BY <1>1, NextIsClientStep
  <2>3. \A r \in Requests : request[r] # "stale"
    BY <1>1, <2>1 DEF PermitInv
  <2> QED
    BY <2>1, <2>2, <2>3 DEF ClientStep, Drops, Acquire, Send, Revoke
<1> QED
  BY <1>1, OnePermit, PTL DEF Spec, GoodTokensAreKept

-----------------------------------------------------------------------------
(* A listing misses no file that lies still *)

\* Every untouched file is in the tree.  Its folder is known or behind the pages
\* of folders read so far; then the file has been seen or is still ahead: in a
\* later folder, or in the one in hand behind the pages read so far.
Known(f) == \E i \in DOMAIN todo : todo[i] = place[f]
Ahead(f) == \E i \in DOMAIN todo : todo[i] = place[f] /\ (i = 1 => f > after)

ListingTypes ==
  /\ place \in [Files -> Places]
  /\ tree \in SUBSET Folders
  /\ stage \in {"sleep", "folders", "files", "index", "drain"}
  /\ todo \in Seq(Folders)
  /\ seen \in SUBSET Files
  /\ unmoved \in SUBSET Files

NoneMissed ==
  /\ ListingTypes
  /\ unmoved \subseteq InTree(place, tree)
  /\ stage \in {"sleep", "drain"} => unmoved = {}
  /\ stage \notin {"folders", "files"} => after = 0
  /\ stage = "folders" => \A f \in unmoved : Known(f) \/ place[f] > after
  /\ stage = "files" => todo # <<>> /\ \A f \in unmoved : f \in seen \/ Ahead(f)
  /\ stage = "index" => unmoved \subseteq seen

\* A permutation of a finite set holds all of its elements.
LEMMA SeqsCover ==
  ASSUME NEW S, IsFiniteSet(S), NEW s \in SetToSeqs(S)
  PROVE  s \in Seq(S) /\ \A x \in S : \E i \in DOMAIN s : s[i] = x
<1> DEFINE D == 1..Cardinality(S)
<1>1. Cardinality(S) \in Nat
  BY FS_CardinalityType
<1>2. s \in [D -> S] /\ \A i, j \in D : i # j => s[i] # s[j]
  BY DEF SetToSeqs
<1>3. s \in Injection(D, S)
  BY <1>2 DEF Injection, IsInjective
<1>4. Cardinality(D) = Cardinality(S)
  BY <1>1, FS_Interval
<1>5. s \in Surjection(D, S)
  BY <1>3, <1>4, FS_Injection
<1> QED
  BY <1>1, <1>2, <1>5 DEF Surjection

\* What a page leaves out comes after all of the page.
LEMMA PagesAreInOrder ==
  ASSUME NEW d, d \subseteq Nat, IsFiniteSet(d), NEW p \in PageOf(d), NEW f \in Left(d) \ PageOf(d)
  PROVE  f > p
<1> DEFINE Below(g) == {h \in Left(d) : h < g}
<1>0. f \in Nat /\ p \in Nat /\ Left(d) \subseteq Nat
  BY DEF Left, PageOf
<1>1. SUFFICES ASSUME f <= p PROVE FALSE
  BY <1>0
<1>2. IsFiniteSet(Left(d))
  BY FS_Subset DEF Left
<1>3. IsFiniteSet(Below(p)) /\ IsFiniteSet(Below(f))
  BY <1>2, FS_Subset
<1>4. Below(f) \subseteq Below(p)
  BY <1>0, <1>1
<1>5. Cardinality(Below(f)) <= Cardinality(Below(p))
  BY <1>3, <1>4, FS_Subset
<1>6. Cardinality(Below(p)) < PageSize /\ ~(Cardinality(Below(f)) < PageSize)
  BY DEF PageOf
<1>7. Cardinality(Below(p)) \in Nat /\ Cardinality(Below(f)) \in Nat
  BY <1>3, FS_CardinalityType
<1> QED
  BY <1>5, <1>6, <1>7, DriveListingAssumption

-----------------------------------------------------------------------------
(* Steps that leave the listing where it is, or end it *)

Stays == UNCHANGED <<place, tree, stage, todo, after, seen, rows, unmoved>>

Fails == UNCHANGED <<place, tree, rows>> /\ ListingFails

\* The attempts of all requests do no more to the listing than that.
LEMMA AttemptsStayOrFail ==
  ASSUME NEW r \in Requests,
         \/ Acquire(r) \/ Send(r) \/ TokenFails(r)
         \/ Unauthorized(r) \/ Busy(r) \/ Refused(r)
  PROVE  Stays \/ Fails
<1>1. ASSUME GiveUp(r), UNCHANGED driveVars PROVE Stays \/ Fails
  BY <1>1 DEF GiveUp, Stays, Fails, ListingFails, runVars, driveVars
<1>2. ASSUME Again(r), UNCHANGED driveVars PROVE Stays \/ Fails
  BY <1>1, <1>2 DEF Again, Stays, runVars, driveVars
<1>3. CASE Acquire(r) \/ Send(r)
  BY <1>3 DEF Acquire, Send, Stays, runVars, driveVars
<1>4. CASE TokenFails(r) \/ Unauthorized(r) \/ Busy(r)
  BY <1>4, <1>2 DEF TokenFails, Unauthorized, Busy, driveVars
<1>5. CASE Refused(r)
  BY <1>5, <1>1 DEF Refused, driveVars
<1> QED
  BY <1>3, <1>4, <1>5

\* A step that leaves listing and tree alone misses nothing.
LEMMA StaysKeeps == NoneMissed /\ Stays => NoneMissed'
BY DEF NoneMissed, ListingTypes, Stays, Known, Ahead, InTree

\* A listing that fails has nothing left to miss.
LEMMA FailsKeeps == NoneMissed /\ Fails => NoneMissed'
BY DEF NoneMissed, ListingTypes, Fails, ListingFails, InTree

-----------------------------------------------------------------------------
(* Users *)

\* A file that is moved is no longer untouched, and no other is concerned.
LEMMA MoveKeeps ==
  ASSUME NoneMissed, NEW f \in Files, NEW where \in Places, Move(f, where)
  PROVE  NoneMissed'
<1>1. /\ UNCHANGED <<tree, stage, todo, after, seen>>
      /\ unmoved' = unmoved \ {f}
      /\ place' = [place EXCEPT ![f] = where]
  BY DEF Move, Touch, runVars
<1>2. \A g \in unmoved' : g \in unmoved /\ place'[g] = place[g]
  BY <1>1 DEF NoneMissed, ListingTypes
<1>3. ListingTypes'
  BY <1>1 DEF NoneMissed, ListingTypes
<1> QED
  BY <1>1, <1>2, <1>3 DEF NoneMissed, InTree, Known, Ahead

\* Nor are those outside a folder that is moved.
LEMMA MoveFolderKeeps ==
  ASSUME NoneMissed, NEW d \in Folders, MoveFolder(d)
  PROVE  NoneMissed'
<1>1. /\ UNCHANGED <<place, stage, todo, after, seen>>
      /\ unmoved' = unmoved \ InTree(place, {d})
      /\ tree' = IF d \in tree THEN tree \ {d} ELSE tree \cup {d}
  BY DEF MoveFolder, Touch, runVars
<1>2. ListingTypes'
  BY <1>1 DEF NoneMissed, ListingTypes
<1>3. unmoved' \subseteq InTree(place', tree')
  BY <1>1 DEF NoneMissed, ListingTypes, InTree
<1> QED
  BY <1>1, <1>2, <1>3 DEF NoneMissed, Known, Ahead

-----------------------------------------------------------------------------
(* The listing *)

\* What two lists of folders hold, the one after the other.
LEMMA JoinedLists ==
  ASSUME NEW s \in Seq(Folders), NEW t \in Seq(Folders)
  PROVE  /\ s \o t \in Seq(Folders)
         /\ \A i \in DOMAIN s : \E j \in DOMAIN (s \o t) : (s \o t)[j] = s[i]
         /\ \A i \in DOMAIN t : \E j \in DOMAIN (s \o t) : (s \o t)[j] = t[i]
<1> DEFINE u == s \o t
<1>1. /\ u \in Seq(Folders) /\ Len(u) = Len(s) + Len(t)
      /\ \A i \in 1 .. Len(s) + Len(t) : u[i] = IF i <= Len(s) THEN s[i] ELSE t[i - Len(s)]
  BY ConcatProperties
<1> HIDE DEF u
<1>0. /\ Len(s) \in Nat /\ Len(t) \in Nat
      /\ DOMAIN s = 1..Len(s) /\ DOMAIN t = 1..Len(t) /\ DOMAIN u = 1..Len(u)
  BY <1>1, LenProperties
<1>2. ASSUME NEW i \in DOMAIN s PROVE i \in DOMAIN u /\ u[i] = s[i]
  BY <1>0, <1>1
<1>3. ASSUME NEW i \in DOMAIN t
      PROVE  Len(s) + i \in DOMAIN u /\ u[Len(s) + i] = t[i]
  <2>1. /\ Len(s) + i \in 1 .. Len(s) + Len(t) /\ ~(Len(s) + i <= Len(s))
        /\ (Len(s) + i) - Len(s) = i
    BY <1>0
  <2>2. u[Len(s) + i] = t[(Len(s) + i) - Len(s)]
    BY <1>1, <2>1
  <2> QED
    BY <1>0, <1>1, <2>1, <2>2
<1> QED
  BY <1>1, <1>2, <1>3 DEF u

\* A page of subfolders makes their files known; the last one puts every
\* untouched file ahead.
LEMMA ListFoldersKeeps ==
  ASSUME NoneMissed, ListFolders
  PROVE  NoneMissed'
<1>1. PICK page \in SetToSeqs(PageOf(tree)) : todo' = todo \o page
  BY DEF ListFolders
<1>2. /\ UNCHANGED <<place, tree, seen, unmoved>>
      /\ stage = "folders"
  BY DEF ListFolders, NextPage, NextList, Answered, driveVars
<1>3. /\ tree \subseteq Nat \ {0} /\ IsFiniteSet(tree) /\ tree \subseteq Folders
      /\ PageOf(tree) \subseteq tree /\ IsFiniteSet(PageOf(tree))
  <2>1. tree \subseteq Folders
    BY DEF NoneMissed, ListingTypes
  <2>2. PageOf(tree) \subseteq tree
    BY DEF PageOf, Left
  <2> QED
    BY <2>1, <2>2, DriveListingAssumption, FS_Subset
<1>4. page \in Seq(Folders) /\ \A d \in PageOf(tree) : \E i \in DOMAIN page : page[i] = d
  <2>1. page \in Seq(PageOf(tree)) /\ \A d \in PageOf(tree) : \E i \in DOMAIN page : page[i] = d
    BY <1>1, <1>3, SeqsCover
  <2>2. \A S, T : S \subseteq T => Seq(S) \subseteq Seq(T)
    OBVIOUS
  <2> QED
    BY <1>3, <2>1, <2>2
<1>5. /\ todo' \in Seq(Folders)
      /\ \A f \in unmoved : Known(f) \/ place[f] \in PageOf(tree) => Known(f)'
  <2>1. todo \in Seq(Folders)
    BY DEF NoneMissed, ListingTypes
  <2>2. /\ todo' \in Seq(Folders)
        /\ \A i \in DOMAIN todo : \E j \in DOMAIN todo' : todo'[j] = todo[i]
        /\ \A i \in DOMAIN page : \E j \in DOMAIN todo' : todo'[j] = page[i]
    BY <1>1, <1>4, <2>1, JoinedLists
  <2> QED
    BY <1>2, <1>4, <2>2 DEF Known
<1>6. unmoved \subseteq Files /\ \A f \in unmoved : place[f] \in tree
  BY DEF NoneMissed, ListingTypes, InTree
<1>7. \A f \in unmoved : Known(f) \/ place[f] \in Left(tree)
  BY <1>2, <1>6 DEF NoneMissed, Left
<1>8. CASE PageOf(tree) # Left(tree)
  <2>1. PICK last \in PageOf(tree) : after' = last
    BY <1>8 DEF ListFolders, NextPage
  <2>2. stage' = stage
    BY <1>8 DEF ListFolders, NextPage
  <2>3. \A f \in unmoved : Known(f)' \/ place[f] > after'
    <3> SUFFICES ASSUME NEW f \in unmoved, ~Known(f)' PROVE place[f] > last
      BY <2>1
    <3>1. place[f] \in Left(tree) \ PageOf(tree)
      BY <1>5, <1>7
    <3> QED
      BY <1>3, <3>1, PagesAreInOrder
  <2>4. ListingTypes'
    BY <1>2, <1>5, <2>2 DEF NoneMissed, ListingTypes
  <2> QED
    BY <1>2, <2>2, <2>3, <2>4 DEF NoneMissed, InTree
<1>9. CASE PageOf(tree) = Left(tree)
  <2>1. after' = 0 /\ stage' = IF todo' = <<>> THEN "index" ELSE "files"
    BY <1>9 DEF ListFolders, NextList
  <2>2. \A f \in unmoved : Known(f)'
    BY <1>5, <1>7, <1>9
  <2>3. \A f \in unmoved : Ahead(f)'
    BY <1>6, <2>1, <2>2, DriveListingAssumption DEF Known, Ahead
  <2>4. todo' = <<>> => unmoved = {}
    BY <2>2 DEF Known
  <2>5. ListingTypes'
    BY <1>2, <1>5, <2>1 DEF NoneMissed, ListingTypes
  <2> QED
    BY <1>2, <2>1, <2>3, <2>4, <2>5 DEF NoneMissed, InTree
<1> QED
  BY <1>8, <1>9

\* A page moves files from ahead to seen and leaves none behind.
LEMMA ListFilesKeeps ==
  ASSUME NoneMissed, ListFiles
  PROVE  NoneMissed'
<1> DEFINE d == FilesIn(Head(todo))
<1>1. /\ UNCHANGED <<place, tree, unmoved>>
      /\ stage = "files" /\ todo # <<>>
      /\ todo \in Seq(Folders)
      /\ seen' = seen \cup PageOf(d)
      /\ \A f \in unmoved : f \in seen \/ Ahead(f)
  BY DEF ListFiles, NextPage, NextList, Answered, driveVars, NoneMissed, ListingTypes
<1>2. unmoved \subseteq Files
  BY DEF NoneMissed, ListingTypes
<1>3. \A f \in unmoved : f \in seen \/ f \in Left(d) \/ \E i \in DOMAIN todo : i > 1 /\ todo[i] = place[f]
  BY <1>1, <1>2 DEF Ahead, Left, FilesIn
<1>4. PageOf(d) \subseteq Files /\ d \subseteq Nat /\ IsFiniteSet(d)
  BY DriveListingAssumption, FS_Subset DEF PageOf, Left, FilesIn
<1>5. CASE PageOf(d) # Left(d)
  <2>1. PICK last \in PageOf(d) : after' = last
    BY <1>5 DEF ListFiles, NextPage
  <2>2. todo' = todo /\ stage' = "files"
    BY <1>1, <1>5 DEF ListFiles, NextPage
  <2>3. \A f \in unmoved : f \in seen' \/ Ahead(f)'
    <3> SUFFICES ASSUME NEW f \in unmoved, f \notin seen' PROVE Ahead(f)'
      OBVIOUS
    <3>1. CASE f \in Left(d)
      <4>1. f > last
        BY <1>1, <1>4, <2>1, <3>1, PagesAreInOrder
      <4> QED
        BY <1>1, <2>1, <2>2, <3>1, <4>1 DEF Ahead, Left, FilesIn
    <3>2. CASE \E i \in DOMAIN todo : i > 1 /\ todo[i] = place[f]
      BY <1>1, <2>2, <3>2 DEF Ahead
    <3> QED
      BY <1>1, <1>3, <3>1, <3>2
  <2>4. ListingTypes'
    BY <1>1, <1>4, <2>2 DEF NoneMissed, ListingTypes
  <2> QED
    BY <1>1, <2>2, <2>3, <2>4 DEF NoneMissed, InTree
<1>6. CASE PageOf(d) = Left(d)
  <2>1. /\ after' = 0 /\ todo' = Tail(todo)
        /\ stage' = IF Tail(todo) = <<>> THEN "index" ELSE "files"
    BY <1>1, <1>6 DEF ListFiles, NextList
  <2>2. \A f \in unmoved : f \in seen' \/ (Ahead(f)' /\ Tail(todo) # <<>>)
    <3> SUFFICES ASSUME NEW f \in unmoved, f \notin seen'
                 PROVE  Ahead(f)' /\ Tail(todo) # <<>>
      OBVIOUS
    <3>1. PICK i \in DOMAIN todo : i > 1 /\ todo[i] = place[f]
      BY <1>1, <1>3, <1>6
    <3>2. i - 1 \in DOMAIN Tail(todo) /\ Tail(todo)[i - 1] = place[f]
      BY <1>1, <3>1
    <3>3. f > 0
      BY <1>2, DriveListingAssumption
    <3> QED
      BY <1>1, <2>1, <3>2, <3>3 DEF Ahead
  <2>3. ListingTypes'
    BY <1>1, <1>4, <2>1 DEF NoneMissed, ListingTypes
  <2> QED
    BY <1>1, <2>1, <2>2, <2>3 DEF NoneMissed, InTree
<1> QED
  BY <1>5, <1>6

-----------------------------------------------------------------------------
(* The theorem *)

\* At the start there is no listing to miss a file.
LEMMA InitNoneMissed == Init => NoneMissed
BY DEF Init, NoneMissed, ListingTypes, Places, InTree

\* Between two steps of the listing every untouched file is seen or ahead.
LEMMA NextNoneMissed == NoneMissed /\ [Next]_vars => NoneMissed'
<1> SUFFICES ASSUME NoneMissed, [Next]_vars PROVE NoneMissed'
  OBVIOUS
<1>1. CASE UNCHANGED vars \/ Revoke \/ Rest \/ \E f \in Files : StartDownload(f) \/ Download(f)
  <2>1. Stays
    BY <1>1 DEF vars, Revoke, Rest, StartDownload, Download, Answered, Stays,
                driveVars, runVars
  <2> QED
    BY <2>1, StaysKeeps
<1>2. CASE \E r \in Requests : \/ Acquire(r) \/ Send(r) \/ TokenFails(r)
                               \/ Unauthorized(r) \/ Busy(r) \/ Refused(r)
  BY <1>2, AttemptsStayOrFail, StaysKeeps, FailsKeeps
<1>3. CASE StartListing
  <2>1. \A f \in InTree(place, tree) : place[f] > 0
    <3>1. tree \subseteq Folders
      BY DEF NoneMissed, ListingTypes
    <3>2. \A d \in Folders : d > 0
      BY DriveListingAssumption
    <3> QED
      BY <3>1, <3>2 DEF InTree
  <2> QED
    BY <1>3, <2>1 DEF StartListing, driveVars, NoneMissed, ListingTypes, InTree
<1>4. CASE ListFolders \/ ListFiles
  BY <1>4, ListFoldersKeeps, ListFilesKeeps
<1>5. CASE Index
  BY <1>5 DEF Index, driveVars, NoneMissed, ListingTypes, InTree
<1>6. CASE EndDrain
  BY <1>6 DEF EndDrain, driveVars, NoneMissed, ListingTypes, InTree
<1>7. CASE \E f \in Files, where \in Places : Move(f, where)
  BY <1>7, MoveKeeps
<1>8. CASE \E d \in Folders : MoveFolder(d)
  BY <1>8, MoveFolderKeeps
<1> QED
  BY <1>1, <1>2, <1>3, <1>4, <1>5, <1>6, <1>7, <1>8 DEF Next, Loop

\* list_tree_with_paths: an untouched file is in an answer or still ahead, always.
THEOREM ListingsMissNone == Spec => []NoneMissed
<1>1. NoneMissed /\ [Next]_vars => NoneMissed'
  BY NextNoneMissed
<1> QED
  BY InitNoneMissed, <1>1, PTL DEF Spec

\* No row of an untouched file is retracted, for every size of pages.
THEOREM UntouchedFilesStay == Spec => UntouchedFilesAreKept
<1> DEFINE Kept == \A f \in rows \ rows' : f \notin unmoved
<1>1. ASSUME NoneMissed, [Next]_vars PROVE [Kept]_vars
  <2>1. CASE Index
    BY <1>1, <2>1 DEF Index, NoneMissed
  <2>2. ASSUME ~Index PROVE rows' = rows
    <3>1. CASE \E r \in Requests : \/ Acquire(r) \/ Send(r) \/ TokenFails(r)
                                   \/ Unauthorized(r) \/ Busy(r) \/ Refused(r)
      BY <3>1, AttemptsStayOrFail DEF Stays, Fails
    <3>2. CASE \/ UNCHANGED vars \/ Revoke \/ Rest \/ StartListing \/ EndDrain
               \/ \E f \in Files : StartDownload(f) \/ Download(f)
               \/ ListFolders \/ ListFiles
      BY <3>2 DEF vars, runVars, Revoke, Rest, StartListing, EndDrain, StartDownload,
                  Download, ListFolders, ListFiles
    <3>3. CASE \/ \E f \in Files, where \in Places : Move(f, where)
               \/ \E d \in Folders : MoveFolder(d)
      BY <3>3 DEF Move, MoveFolder, Touch, runVars
    <3> QED
      BY <1>1, <2>2, <3>1, <3>2, <3>3 DEF Next, Loop
  <2> QED
    BY <2>1, <2>2
<1> QED
  BY <1>1, ListingsMissNone, PTL DEF Spec, UntouchedFilesAreKept

-----------------------------------------------------------------------------
(* Types *)

\* What neither the token nor the listing needs.
OtherTypes ==
  /\ calm \in BOOLEAN
  /\ attempts \in [Requests -> 0..(MaxAttempts - 1)]
  /\ after \in Files \cup Folders \cup {0}
  /\ rows \in SUBSET Files
  /\ queue \in SUBSET Files

\* A request that ends has no failed attempts any more.
LEMMA OverType ==
  ASSUME OtherTypes, NEW r \in Requests, NEW more, Over(r, more)
  PROVE  attempts' \in [Requests -> 0..(MaxAttempts - 1)]
BY DriveListingAssumption DEF OtherTypes, Over

\* with_retry stops below MAX_ATTEMPTS.
LEMMA AgainType ==
  ASSUME OtherTypes, NEW r \in Requests, Again(r), UNCHANGED calm
  PROVE  OtherTypes'
<1>1. CASE attempts[r] + 1 >= MaxAttempts
  <2>1. GiveUp(r)
    BY <1>1 DEF Again
  <2>2. Over(r, FALSE) /\ after' \in {0, after} /\ UNCHANGED <<rows, queue>>
    BY <2>1 DEF GiveUp, ListingFails, runVars
  <2> QED
    BY <2>2, OverType DEF OtherTypes
<1>2. CASE ~(attempts[r] + 1 >= MaxAttempts)
  <2>1. attempts[r] + 1 \in 0..(MaxAttempts - 1)
    BY <1>2, DriveListingAssumption DEF OtherTypes
  <2>2. attempts' = [attempts EXCEPT ![r] = attempts[r] + 1] /\ UNCHANGED <<after, rows, queue>>
    BY <1>2 DEF Again, runVars
  <2> QED
    BY <2>1, <2>2 DEF OtherTypes
<1> QED
  BY <1>1, <1>2

\* Every step keeps these types.
LEMMA NextOtherTypes == NoneMissed /\ OtherTypes /\ [Next]_vars => OtherTypes'
<1> SUFFICES ASSUME NoneMissed, OtherTypes, [Next]_vars PROVE OtherTypes'
  OBVIOUS
<1> USE DEF driveVars, clientVars, runVars
<1>1. CASE UNCHANGED vars
  BY <1>1 DEF vars, OtherTypes
<1>2. CASE Revoke \/ Rest \/ StartListing \/ EndDrain
  BY <1>2 DEF Revoke, Rest, StartListing, EndDrain, OtherTypes
<1>3. ASSUME NEW f \in Files, StartDownload(f) PROVE OtherTypes'
  BY <1>3 DEF StartDownload, OtherTypes
<1>4. ASSUME NEW f \in Files, Download(f) PROVE OtherTypes'
  <2>1. f \in Requests /\ Over(f, FALSE) /\ UNCHANGED <<calm, after, rows, queue>>
    BY <1>4 DEF Download, Answered, Requests
  <2> QED
    BY <2>1, OverType DEF OtherTypes
<1>5. CASE ListFolders
  <2>1. /\ \E more \in BOOLEAN : Over(Listing, more)
        /\ UNCHANGED <<calm, rows, queue>>
    BY <1>5 DEF ListFolders, NextPage, NextList, Answered
  <2>2. after' \in PageOf(tree) \cup {0}
    BY <1>5 DEF ListFolders, NextPage, NextList
  <2>3. PageOf(tree) \subseteq Folders
    BY DEF PageOf, Left, NoneMissed, ListingTypes
  <2> QED
    BY <2>1, <2>2, <2>3, OverType, ListingIsRequest DEF OtherTypes
<1>6. CASE ListFiles
  <2>1. /\ \E more \in BOOLEAN : Over(Listing, more)
        /\ UNCHANGED <<calm, rows, queue>>
    BY <1>6 DEF ListFiles, NextPage, NextList, Answered
  <2>2. after' \in PageOf(FilesIn(Head(todo))) \cup {0}
    BY <1>6 DEF ListFiles, NextPage, NextList
  <2>3. PageOf(FilesIn(Head(todo))) \subseteq Files
    BY DEF PageOf, Left, FilesIn
  <2> QED
    BY <2>1, <2>2, <2>3, OverType, ListingIsRequest DEF OtherTypes
<1>7. CASE Index
  BY <1>7 DEF Index, OtherTypes, NoneMissed, ListingTypes
<1>8. ASSUME NEW r \in Requests, Acquire(r) \/ Send(r) PROVE OtherTypes'
  BY <1>8 DEF Acquire, Send, OtherTypes
<1>9. ASSUME NEW r \in Requests, TokenFails(r) \/ Unauthorized(r) \/ Busy(r) PROVE OtherTypes'
  BY <1>9, AgainType DEF TokenFails, Unauthorized, Busy
<1>10. ASSUME NEW r \in Requests, Refused(r) PROVE OtherTypes'
  <2>1. Over(r, FALSE) /\ after' \in {0, after} /\ UNCHANGED <<calm, rows, queue>>
    BY <1>10 DEF Refused, GiveUp, ListingFails
  <2> QED
    BY <2>1, OverType DEF OtherTypes
<1>11. ASSUME NEW f \in Files, NEW where \in Places, Move(f, where) PROVE OtherTypes'
  BY <1>11 DEF Move, Touch, OtherTypes
<1>12. ASSUME NEW d \in Folders, MoveFolder(d) PROVE OtherTypes'
  BY <1>12 DEF MoveFolder, Touch, OtherTypes
<1> QED
  BY <1>1, <1>2, <1>3, <1>4, <1>5, <1>6, <1>7, <1>8, <1>9, <1>10, <1>11, <1>12 DEF Next, Loop

\* Every variable keeps its type; no request fails more often than MAX_ATTEMPTS.
THEOREM TypeCorrect == Spec => []TypeOK
<1>1. Init => OtherTypes
  <2> SUFFICES ASSUME Init PROVE OtherTypes
    OBVIOUS
  <2>1. calm \in BOOLEAN
    BY DEF Init
  <2>2. 0 \in 0..(MaxAttempts - 1)
    BY DriveListingAssumption
  <2> QED
    BY <2>1, <2>2 DEF Init, OtherTypes
<1>2. NoneMissed /\ OtherTypes /\ [Next]_vars => OtherTypes'
  BY NextOtherTypes
<1>3. PermitInv /\ NoneMissed /\ OtherTypes => TypeOK
  BY DEF PermitInv, ClientTypes, NoneMissed, ListingTypes, OtherTypes, TypeOK
<1> QED
  BY <1>1, <1>2, <1>3, OnePermit, ListingsMissNone, PTL DEF Spec
=============================================================================
