------------------------------- MODULE Rekey --------------------------------
(***************************************************************************)
(* statskboo rekey-cache: gives the legacy cache files, named after        *)
(* canonical ids, the names of Drive file ids.  Every run is one pass over *)
(* the ids of the mapping in order; it renames or copies or, as a dry run, *)
(* only reports.  An operator may run it several times, in any mode, and   *)
(* a run may die or stop at an error between any two file operations.      *)
(*                                                                         *)
(* A file is the legacy file its bytes come from, whether all of them are  *)
(* there, and whether its write time is that of its source: the byte cache *)
(* judges freshness by that time.  Nothing else writes the directory       *)
(* meanwhile.  Drive ids and canonical ids are taken never to be equal, so *)
(* that no file is the source of one id and the destination of another.    *)
(* Reading the legacy database and the command line are left out.          *)
(***************************************************************************)
EXTENDS Integers, Sequences

CONSTANTS
  Ids,        \* Drive file ids, numbered in the order of a BTreeMap
  Names,      \* canonical ids of the legacy cache
  Rows,       \* the mapping: rows of an id, a canonical id and a parser version
  Unsafe,     \* ids and canonical ids that are no file names
  Absent,     \* stands for no file
  Own,        \* origin of a file that was cached under its id all along
  MaxRuns,    \* bound on runs of the tool
  MaxFaults   \* bound on failing file operations and crashes

Row == [id : Ids, name : Names, version : Int]

ASSUME RekeyAssumption ==
  /\ Ids \subseteq Nat
  /\ Rows \in Seq(Row)
  /\ Absent \notin Names /\ Own \notin Names /\ Absent # Own
  /\ MaxRuns \in Nat /\ MaxFaults \in Nat

VARIABLES
  legacy,     \* the legacy files that exist
  dest,       \* per id: its file
  stage,      \* "idle", "run", "copy" or "stamp": where rekey stands
  mode,       \* copy and dry_run of this run
  todo,       \* ids this run has not decided yet
  report,     \* RekeyReport of this run, or of the last one
  runs,       \* number of runs so far
  faults,     \* number of faults so far
  told,       \* history: the report of a dry run with no run since, in a set
  settled,    \* history: a run that was no dry run has ended well
  blamed      \* history: ids whose stamp failed, with the warning printed or
              \* lost with its run, and ids in hand when their run ended early

disk == <<legacy, dest>>
history == <<told, settled, blamed>>
vars == <<disk, stage, mode, todo, report, runs, faults, history>>

File == [from : Names \cup {Absent, Own}, whole : BOOLEAN, dated : BOOLEAN]
Report == [mapped : SUBSET Ids, skipped : SUBSET Ids, missing : SUBSET Ids,
           warned : SUBSET Ids, orphans : SUBSET (Ids \cup Names)]

NoFile == [from |-> Absent, whole |-> FALSE, dated |-> FALSE]
Whole(origin) == [from |-> origin, whole |-> TRUE, dated |-> TRUE]
Empty == [mapped |-> {}, skipped |-> {}, missing |-> {}, warned |-> {}, orphans |-> {}]

\* Every variable has its type.
TypeOK ==
  /\ legacy \in SUBSET Names
  /\ dest \in [Ids -> File]
  /\ stage \in {"idle", "run", "copy", "stamp"}
  /\ mode \in [copy : BOOLEAN, dry : BOOLEAN]
  /\ todo \in SUBSET Ids
  /\ report \in Report
  /\ runs \in 0..MaxRuns
  /\ faults \in 0..MaxFaults
  /\ told \in SUBSET Report
  /\ settled \in BOOLEAN
  /\ blamed \in SUBSET Ids

-----------------------------------------------------------------------------
(* The mapping *)

\* Lines of a mapping CSV: "skip" for blank and # lines, "header", or a row
\* whose version may be missing.  A header counts only as the first line that
\* is not skipped; further down it is a row like any other.  A line that cannot
\* be read ends the tool before it touches a file.
LoadCsv(lines) ==
  LET read == SelectSeq(lines, LAMBDA line : line.kind # "skip")
      body == IF read # <<>> /\ Head(read).kind = "header" THEN Tail(read) ELSE read
  IN  [i \in DOMAIN body |->
         [id |-> body[i].id, name |-> body[i].name,
          version |-> IF body[i].version = <<>> THEN 0 ELSE Head(body[i].version)]]

\* The keys of the groups, and the names of referenced_sources.
Mapped == {Rows[i].id : i \in DOMAIN Rows}
Referenced == {Rows[i].name : i \in DOMAIN Rows}

\* Seeded fault: every row is a candidate.
PresentOfAny(id) ==
  {i \in DOMAIN Rows : Rows[i].name \notin Unsafe /\ Rows[i].name \in legacy}

\* The candidates of id whose legacy file exists.
Present(id) ==
  {i \in DOMAIN Rows :
     Rows[i].id = id /\ Rows[i].name \notin Unsafe /\ Rows[i].name \in legacy}

\* The one with the highest parser version; the last of several.
Chosen(id) ==
  {i \in Present(id) :
     \A j \in Present(id) \ {i} :
       \/ Rows[j].version < Rows[i].version
       \/ Rows[j].version = Rows[i].version /\ j < i}

\* Seeded fault: destinations are looked up in the mapping, not on disk.
TakenUnseen(id) == FALSE

\* dst.exists()
Taken(id) == dest[id].from # Absent

\* Seeded fault: the destinations of the mapping are not left out.
OrphansUnmapped == (legacy \ Referenced) \cup {id \in Ids : Taken(id)}

\* .xlsx files that are no destination of the mapping and named by no row.
Orphans == (legacy \ Referenced) \cup {id \in Ids \ Mapped : Taken(id)}

-----------------------------------------------------------------------------
(* rekey *)

Init ==
  /\ legacy \in SUBSET Names
  /\ dest \in [Ids -> {NoFile, Whole(Own)}]
  /\ legacy \cap Unsafe = {} /\ \A id \in Ids \cap Unsafe : dest[id] = NoFile
  /\ stage = "idle"
  /\ mode = [copy |-> FALSE, dry |-> FALSE]
  /\ todo = {} /\ report = Empty
  /\ runs = 0 /\ faults = 0
  /\ told = {} /\ settled = FALSE /\ blamed = {}

Start(copy, dry) ==
  /\ stage = "idle"
  /\ runs < MaxRuns
  /\ runs' = runs + 1
  /\ stage' = "run"
  /\ mode' = [copy |-> copy, dry |-> dry]
  /\ todo' = Mapped
  /\ report' = Empty
  /\ UNCHANGED <<disk, faults, history>>

InHand(id) == id \in todo /\ \A other \in todo : id <= other

\* id is decided: it is listed under one heading of the report.
Decide(id) ==
  /\ stage = "run"
  /\ InHand(id)
  /\ todo' = todo \ {id}
  /\ UNCHANGED <<stage, mode, runs, faults, history>>

\* Its destination is no file name, or no candidate's file exists.
CountMissing(id) ==
  /\ Decide(id)
  /\ id \in Unsafe \/ Present(id) = {}
  /\ report' = [report EXCEPT !.missing = @ \cup {id}]
  /\ UNCHANGED disk

Usable(id) == id \notin Unsafe /\ Present(id) # {}

Skip(id) ==
  /\ Decide(id)
  /\ Usable(id) /\ Taken(id)
  /\ report' = [report EXCEPT !.skipped = @ \cup {id}]
  /\ UNCHANGED disk

Pretend(id) ==
  /\ Decide(id)
  /\ Usable(id) /\ ~Taken(id) /\ mode.dry
  /\ report' = [report EXCEPT !.mapped = @ \cup {id}]
  /\ UNCHANGED disk

\* fs::rename keeps the write time.
Rename(id) ==
  /\ Decide(id)
  /\ Usable(id) /\ ~Taken(id) /\ ~mode.dry /\ ~mode.copy
  /\ \E i \in Chosen(id) :
       /\ dest' = [dest EXCEPT ![id] = Whole(Rows[i].name)]
       /\ legacy' = legacy \ {Rows[i].name}
  /\ report' = [report EXCEPT !.mapped = @ \cup {id}]

\* fs::copy creates the destination and fills it; its write time is that of the copy.
BeginCopy(id) ==
  /\ stage = "run" /\ InHand(id)
  /\ Usable(id) /\ ~Taken(id) /\ ~mode.dry /\ mode.copy
  /\ \E i \in Chosen(id) :
       dest' = [dest EXCEPT ![id] = [from |-> Rows[i].name, whole |-> FALSE, dated |-> FALSE]]
  /\ stage' = "copy"
  /\ UNCHANGED <<legacy, mode, todo, report, runs, faults, history>>

EndCopy(id) ==
  /\ stage = "copy" /\ InHand(id)
  /\ dest' = [dest EXCEPT ![id].whole = TRUE]
  /\ stage' = "stamp"
  /\ UNCHANGED <<legacy, mode, todo, report, runs, faults, history>>

Copied(id) ==
  /\ stage = "stamp" /\ InHand(id)
  /\ stage' = "run"
  /\ todo' = todo \ {id}
  /\ UNCHANGED <<legacy, mode, runs, history>>

\* preserve_times
Stamp(id) ==
  /\ Copied(id)
  /\ dest' = [dest EXCEPT ![id].dated = TRUE]
  /\ report' = [report EXCEPT !.mapped = @ \cup {id}]
  /\ UNCHANGED faults

\* Seeded fault: the failure is not kept for the report.
StampFailsSilently(id) ==
  /\ Copied(id)
  /\ faults < MaxFaults
  /\ faults' = faults + 1
  /\ report' = [report EXCEPT !.mapped = @ \cup {id}]
  /\ UNCHANGED dest

\* A write time that cannot be set is a warning of the report.
StampFails(id) ==
  /\ Copied(id)
  /\ faults < MaxFaults
  /\ faults' = faults + 1
  /\ report' = [report EXCEPT !.mapped = @ \cup {id}, !.warned = @ \cup {id}]
  /\ UNCHANGED dest

\* The orphans are collected and the report is printed.
EndRun ==
  /\ stage = "run" /\ todo = {}
  /\ stage' = "idle"
  /\ report' = [report EXCEPT !.orphans = Orphans]
  /\ told' = IF mode.dry THEN {report'} ELSE {}
  /\ settled' = (settled \/ ~mode.dry)
  /\ blamed' = blamed \cup report.warned
  /\ UNCHANGED <<disk, mode, todo, runs, faults>>

\* A file operation fails, which ends the run, or the process dies: the files
\* stay as they are and nothing is printed of what the run has done.
Fails ==
  /\ stage # "idle"
  /\ faults < MaxFaults
  /\ faults' = faults + 1
  /\ stage' = "idle"
  /\ todo' = {}
  /\ told' = {}
  /\ blamed' = blamed \cup report.warned \cup
       {id \in Ids : stage \in {"copy", "stamp"} /\ InHand(id)}
  /\ UNCHANGED <<disk, mode, report, runs, settled>>

Next ==
  \/ \E copy, dry \in BOOLEAN : Start(copy, dry)
  \/ \E id \in Ids :
       \/ CountMissing(id) \/ Skip(id) \/ Pretend(id) \/ Rename(id)
       \/ BeginCopy(id) \/ EndCopy(id) \/ Stamp(id) \/ StampFails(id)
  \/ EndRun
  \/ Fails

Spec == Init /\ [][Next]_vars

-----------------------------------------------------------------------------
(* Properties *)

Given == [id \in Ids |-> {Rows[i].name : i \in {j \in DOMAIN Rows : Rows[j].id = id}}]

\* The abstract cache sees the files that are complete.
Keyed == [id \in Ids |-> IF dest[id].whole THEN dest[id].from ELSE Absent]

Keys == INSTANCE CacheKeys WITH keyed <- Keyed

\* Whatever runs follow each other and wherever they stop, every complete file
\* of an id is the one it had or the bytes of one of its own candidates, it is
\* never replaced, and no legacy file is gone unless an id has its bytes.
KeepsEveryStatsbook == Keys!Spec

\* "re-running is safe": once a run has ended well, further runs in any mode
\* touch no file, ids that share a legacy file and ids left without one included.
RerunsChangeNothing == [][settled => UNCHANGED disk]_vars

\* A run that ends well right after a dry run finds the same orphans, maps and
\* skips nothing the dry run has not announced and, unless it renames files that
\* several ids share, does exactly what was announced.
DryRunForetells ==
  [][\A forecast \in told :
       stage = "run" /\ stage' = "idle" /\ told' = {} /\ ~mode.dry /\ faults' = faults =>
         /\ report'.orphans = forecast.orphans
         /\ report'.mapped \subseteq forecast.mapped
         /\ report'.skipped \subseteq forecast.skipped
         /\ mode.copy \/ (\A i, j \in DOMAIN Rows : Rows[i].name = Rows[j].name => Rows[i].id = Rows[j].id)
              => [report' EXCEPT !.warned = {}] = forecast]_vars

\* A destination that is incomplete, or that looks newer than its source and so
\* may pass for a later revision, is one whose stamp failed or that was in hand
\* when its run ended early: a run that has gone on to another id leaves no flaw
\* behind but those it warns of, and a report without warnings vouches for all it
\* has mapped.
FlawsAreReported ==
  stage = "idle" =>
    \A id \in Ids : dest[id].from # Absent /\ ~(dest[id].whole /\ dest[id].dated) => id \in blamed
=============================================================================
