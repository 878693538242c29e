---------------------------- MODULE RekeyProofs -----------------------------
(***************************************************************************)
(* Rekey for every mapping, every number of ids and runs, and every point  *)
(* at which a run may stop: it implements CacheKeys, a good run leaves     *)
(* nothing to later ones, flawed copies are reported, and a dry run        *)
(* foretells the run that follows it.                                      *)
(***************************************************************************)
EXTENDS Rekey, TLAPS

\* The operation on a file is in hand: a copy under way has bytes of a
\* candidate whose legacy file is still there.
CopyInv ==
  /\ todo \subseteq Mapped
  /\ stage = "idle" => todo = {}
  /\ report.warned \subseteq report.mapped
  /\ stage \in {"copy", "stamp"} =>
       \A id \in Ids : InHand(id) =>
         /\ dest[id].from \in Given[id] \cap legacy
         /\ dest[id].whole = (stage = "stamp")

\* Nothing is left to do for id.
Decided(id) == id \in Unsafe \/ Present(id) = {} \/ Taken(id)

\* What a run that writes has passed is decided, and all of it once one has ended well.
SettledInv ==
  /\ stage # "idle" /\ ~mode.dry => \A id \in Mapped \ todo : Decided(id)
  /\ settled => \A id \in Mapped : Decided(id)
  /\ settled => stage \notin {"copy", "stamp"}

Flawed(id) == dest[id].from # Absent /\ ~(dest[id].whole /\ dest[id].dated)

\* A flawed file is blamed already, or will be when the run that wrote it ends.
FlawInv ==
  \A id \in Ids : Flawed(id) =>
    \/ id \in blamed
    \/ stage # "idle" /\ id \in report.warned
    \/ stage \in {"copy", "stamp"} /\ InHand(id)

IInv == TypeOK /\ CopyInv /\ SettledInv /\ FlawInv

LEMMA InHandUnique == ASSUME NEW x \in Ids, NEW y \in Ids, todo \subseteq Ids, InHand(x), InHand(y)
                      PROVE  x = y
  BY RekeyAssumption DEF RekeyAssumption, InHand

LEMMA RowTypes == ASSUME NEW i \in DOMAIN Rows
                  PROVE  Rows[i].id \in Ids /\ Rows[i].name \in Names
<1>1. Rows \in Seq(Row)
  BY RekeyAssumption DEF RekeyAssumption
<1>2. DOMAIN Rows = 1..Len(Rows) /\ Rows[i] \in Row
  BY <1>1
<1> QED BY <1>2 DEF Row

LEMMA MappedTypes == Mapped \subseteq Ids /\ Referenced \subseteq Names
  BY RowTypes DEF Mapped, Referenced

LEMMA ChosenTypes == ASSUME NEW id \in Ids, NEW i \in Chosen(id)
                     PROVE  /\ i \in DOMAIN Rows /\ Rows[i].id = id
                            /\ Rows[i].name \in Given[id] \cap legacy /\ Rows[i].name \in Names
  BY RowTypes DEF Chosen, Present, Given

\* Every variable has its type initially.
LEMMA InitTypeOK == Init => TypeOK
<1> SUFFICES ASSUME Init PROVE TypeOK
  OBVIOUS
<1>1. MaxRuns \in Nat /\ MaxFaults \in Nat
  BY RekeyAssumption DEF RekeyAssumption
<1>2. dest \in [Ids -> File]
  <2>1. NoFile \in File /\ Whole(Own) \in File
    BY DEF File, NoFile, Whole
  <2> QED BY <2>1 DEF Init
<1>3. report \in Report /\ mode \in [copy : BOOLEAN, dry : BOOLEAN]
  BY DEF Init, Empty, Report
<1>4. runs \in 0..MaxRuns /\ faults \in 0..MaxFaults
  BY <1>1 DEF Init
<1> QED BY <1>2, <1>3, <1>4 DEF Init, TypeOK

\* Every step keeps the types.
LEMMA NextTypeOK == TypeOK /\ [Next]_vars => TypeOK'
<1> SUFFICES ASSUME TypeOK, [Next]_vars PROVE TypeOK'
  OBVIOUS
<1> USE DEF TypeOK
<1>1. ASSUME NEW copy \in BOOLEAN, NEW dry \in BOOLEAN, Start(copy, dry) PROVE TypeOK'
  BY <1>1, MappedTypes, RekeyAssumption DEF RekeyAssumption, Start, Empty, Report, disk, history
<1>2. ASSUME NEW id \in Ids, CountMissing(id) \/ Skip(id) \/ Pretend(id) PROVE TypeOK'
  BY <1>2 DEF CountMissing, Skip, Pretend, Decide, Report, disk, history
<1>3. ASSUME NEW id \in Ids, Rename(id) PROVE TypeOK'
  <2>1. PICK i \in Chosen(id) : dest' = [dest EXCEPT ![id] = Whole(Rows[i].name)] /\ legacy' = legacy \ {Rows[i].name}
    BY <1>3 DEF Rename
  <2>2. dest' \in [Ids -> File]
    BY <2>1, ChosenTypes DEF Whole, File
  <2> QED BY <1>3, <2>1, <2>2 DEF Rename, Decide, Report, history
<1>4. ASSUME NEW id \in Ids, BeginCopy(id) PROVE TypeOK'
  <2>1. PICK i \in Chosen(id) : dest' = [dest EXCEPT ![id] = [from |-> Rows[i].name, whole |-> FALSE, dated |-> FALSE]]
    BY <1>4 DEF BeginCopy
  <2>2. dest' \in [Ids -> File]
    BY <2>1, ChosenTypes DEF File
  <2> QED BY <1>4, <2>2 DEF BeginCopy, history
<1>5. ASSUME NEW id \in Ids, EndCopy(id) PROVE TypeOK'
  BY <1>5 DEF EndCopy, File, history
<1>6. ASSUME NEW id \in Ids, Stamp(id) \/ StampFails(id) PROVE TypeOK'
  <2>1. faults' \in 0..MaxFaults
    BY <1>6, RekeyAssumption DEF RekeyAssumption, Stamp, StampFails
  <2>2. report' \in Report
    <3>1. CASE Stamp(id)
      BY <3>1 DEF Stamp, Report
    <3>2. CASE StampFails(id)
      BY <3>2 DEF StampFails, Report
    <3> QED BY <1>6, <3>1, <3>2
  <2>3. dest' \in [Ids -> File]
    <3>1. CASE Stamp(id)
      BY <3>1 DEF Stamp, File
    <3>2. CASE StampFails(id)
      BY <3>2 DEF StampFails
    <3> QED BY <1>6, <3>1, <3>2
  <2> QED BY <1>6, <2>1, <2>2, <2>3 DEF Stamp, StampFails, Copied, history
<1>7. ASSUME EndRun PROVE TypeOK'
  <2>1. Orphans \in SUBSET (Ids \cup Names)
    BY DEF Orphans
  <2>2. report' \in Report
    BY <1>7, <2>1 DEF EndRun, Report
  <2>3. report.warned \subseteq Ids
    BY DEF Report
  <2> QED BY <1>7, <2>2, <2>3 DEF EndRun, disk
<1>8. ASSUME Fails PROVE TypeOK'
  <2>1. report.warned \subseteq Ids
    BY DEF Report
  <2>2. faults' \in 0..MaxFaults
    BY <1>8, RekeyAssumption DEF RekeyAssumption, Fails
  <2>3. blamed' \in SUBSET Ids
    BY <1>8, <2>1 DEF Fails
  <2> QED BY <1>8, <2>2, <2>3 DEF Fails, disk
<1>9. CASE UNCHANGED vars
  BY <1>9 DEF vars, disk, history
<1> QED BY <1>1, <1>2, <1>3, <1>4, <1>5, <1>6, <1>7, <1>8, <1>9 DEF Next

-----------------------------------------------------------------------------

LEMMA InitIInv == Init => IInv
<1> SUFFICES ASSUME Init PROVE IInv
  OBVIOUS
<1>1. TypeOK
  BY InitTypeOK
<1>2. CopyInv
  BY DEF Init, CopyInv, Empty
<1>3. SettledInv
  BY DEF Init, SettledInv
<1>4. FlawInv
  BY DEF Init, FlawInv, Flawed, NoFile, Whole
<1> QED BY <1>1, <1>2, <1>3, <1>4 DEF IInv

\* Legacy files only go and files of ids only come, so what is decided stays so.
LEMMA StaysDecided ==
  ASSUME NEW id \in Ids, legacy' \subseteq legacy, Taken(id) => Taken(id)', Decided(id)
  PROVE  Decided(id)'
  BY DEF Decided, Present

\* Every step keeps what SettledInv and CopyInv say of the directory.
LEMMA DiskMoves ==
  ASSUME IInv, [Next]_vars
  PROVE  /\ legacy' \subseteq legacy
         /\ \A id \in Ids : Taken(id) => Taken(id)'
<1> USE DEF IInv, TypeOK, Taken
<1>1. ASSUME NEW id \in Ids, Rename(id) PROVE legacy' \subseteq legacy /\ \A x \in Ids : Taken(x) => Taken(x)'
  BY <1>1 DEF Rename
<1>2. ASSUME NEW id \in Ids, BeginCopy(id) PROVE legacy' \subseteq legacy /\ \A x \in Ids : Taken(x) => Taken(x)'
  BY <1>2 DEF BeginCopy
<1>3. ASSUME NEW id \in Ids, EndCopy(id) PROVE legacy' \subseteq legacy /\ \A x \in Ids : Taken(x) => Taken(x)'
  BY <1>3 DEF EndCopy, File
<1>4. ASSUME NEW id \in Ids, Stamp(id) PROVE legacy' \subseteq legacy /\ \A x \in Ids : Taken(x) => Taken(x)'
  BY <1>4 DEF Stamp, Copied, File
<1>5. ASSUME UNCHANGED disk PROVE legacy' \subseteq legacy /\ \A x \in Ids : Taken(x) => Taken(x)'
  BY <1>5 DEF disk
<1>6. ASSUME NEW id \in Ids, CountMissing(id) \/ Skip(id) \/ Pretend(id) \/ StampFails(id) PROVE UNCHANGED disk
  BY <1>6 DEF CountMissing, Skip, Pretend, StampFails, Copied, disk
<1>7. ASSUME EndRun \/ Fails \/ (\E copy, dry \in BOOLEAN : Start(copy, dry)) \/ UNCHANGED vars PROVE UNCHANGED disk
  BY <1>7 DEF EndRun, Fails, Start, vars
<1> QED BY <1>1, <1>2, <1>3, <1>4, <1>5, <1>6, <1>7 DEF Next

\* Every step keeps CopyInv.
LEMMA NextCopyInv == IInv /\ [Next]_vars => CopyInv'
<1> SUFFICES ASSUME IInv, [Next]_vars PROVE CopyInv'
  OBVIOUS
<1> USE DEF IInv, TypeOK, CopyInv
<1>1. ASSUME NEW copy \in BOOLEAN, NEW dry \in BOOLEAN, Start(copy, dry) PROVE CopyInv'
  BY <1>1 DEF Start, Empty
<1>2. ASSUME NEW id \in Ids, CountMissing(id) \/ Skip(id) \/ Pretend(id) PROVE CopyInv'
  BY <1>2 DEF CountMissing, Skip, Pretend, Decide, Report
<1>3. ASSUME NEW id \in Ids, Rename(id) PROVE CopyInv'
  BY <1>3 DEF Rename, Decide, Report
<1>4. ASSUME NEW id \in Ids, BeginCopy(id) PROVE CopyInv'
  <2>1. PICK i \in Chosen(id) : dest' = [dest EXCEPT ![id] = [from |-> Rows[i].name, whole |-> FALSE, dated |-> FALSE]]
    BY <1>4 DEF BeginCopy
  <2>2. dest'[id].from \in Given[id] \cap legacy /\ dest'[id].whole = FALSE
    BY <2>1, ChosenTypes
  <2>3. \A x \in Ids : InHand(x)' => x = id
    BY <1>4, InHandUnique DEF BeginCopy, InHand
  <2> QED BY <1>4, <2>2, <2>3 DEF BeginCopy, Given
<1>5. ASSUME NEW id \in Ids, EndCopy(id) PROVE CopyInv'
  <2>1. \A x \in Ids : InHand(x)' => x = id
    BY <1>5, InHandUnique DEF EndCopy, InHand
  <2>2. dest'[id].from = dest[id].from /\ dest'[id].whole = TRUE
    BY <1>5 DEF EndCopy, File
  <2>3. dest[id].from \in Given[id] \cap legacy
    BY <1>5 DEF EndCopy
  <2> QED BY <1>5, <2>1, <2>2, <2>3 DEF EndCopy, Given
<1>6. ASSUME NEW id \in Ids, Stamp(id) \/ StampFails(id) PROVE CopyInv'
  <2>1. CASE Stamp(id)
    BY <2>1 DEF Stamp, Copied, Report
  <2>2. CASE StampFails(id)
    BY <2>2 DEF StampFails, Copied, Report
  <2> QED BY <1>6, <2>1, <2>2
<1>7. ASSUME EndRun \/ Fails PROVE CopyInv'
  BY <1>7 DEF EndRun, Fails, Report
<1>8. CASE UNCHANGED vars
  BY <1>8 DEF vars, disk, InHand, Given
<1> QED BY <1>1, <1>2, <1>3, <1>4, <1>5, <1>6, <1>7, <1>8 DEF Next

\* Every step keeps SettledInv: a run passes an id only when it has become decided.
LEMMA NextSettledInv == IInv /\ [Next]_vars => SettledInv'
<1> SUFFICES ASSUME IInv, [Next]_vars PROVE SettledInv'
  OBVIOUS
<1> USE DEF IInv, TypeOK, SettledInv
<1>0. \A id \in Mapped : id \in Ids /\ (Decided(id) => Decided(id)')
  BY DiskMoves, StaysDecided, MappedTypes
<1>1. ASSUME NEW copy \in BOOLEAN, NEW dry \in BOOLEAN, Start(copy, dry) PROVE SettledInv'
  BY <1>0, <1>1 DEF Start, history
<1>2. ASSUME NEW id \in Ids, CountMissing(id) \/ Skip(id) PROVE SettledInv'
  <2>1. Decided(id)
    BY <1>2 DEF CountMissing, Skip, Decided
  <2> QED BY <1>0, <1>2, <2>1 DEF CountMissing, Skip, Decide, history
<1>3. ASSUME NEW id \in Ids, Pretend(id) PROVE SettledInv'
  BY <1>0, <1>3 DEF Pretend, Decide, history
<1>4. ASSUME NEW id \in Ids, Rename(id) PROVE SettledInv'
  <2>1. PICK i \in Chosen(id) : dest' = [dest EXCEPT ![id] = Whole(Rows[i].name)]
    BY <1>4 DEF Rename
  <2>2. Taken(id)'
    BY <2>1, ChosenTypes, RekeyAssumption DEF RekeyAssumption, Taken, Whole
  <2> QED BY <1>0, <1>4, <2>2 DEF Rename, Decide, Decided, history
<1>5. ASSUME NEW id \in Ids, BeginCopy(id) PROVE SettledInv'
  <2>1. id \in Mapped /\ ~Decided(id)
    BY <1>5 DEF BeginCopy, Usable, Decided, InHand, CopyInv
  <2> QED BY <1>0, <1>5, <2>1 DEF BeginCopy, history
<1>6. ASSUME NEW id \in Ids, EndCopy(id) PROVE SettledInv'
  BY <1>0, <1>6 DEF EndCopy, history
<1>7. ASSUME NEW id \in Ids, Stamp(id) \/ StampFails(id) PROVE SettledInv'
  <2>1. dest[id].from \in Names
    BY <1>7, RowTypes DEF Stamp, StampFails, Copied, CopyInv
  <2>2. Decided(id)
    BY <2>1, RekeyAssumption DEF RekeyAssumption, Decided, Taken
  <2> QED BY <1>0, <1>7, <2>2 DEF Stamp, StampFails, Copied, history
<1>8. ASSUME EndRun PROVE SettledInv'
  BY <1>0, <1>8 DEF EndRun
<1>9. ASSUME Fails PROVE SettledInv'
  BY <1>0, <1>9 DEF Fails
<1>10. CASE UNCHANGED vars
  BY <1>0, <1>10 DEF vars, history
<1> QED BY <1>1, <1>2, <1>3, <1>4, <1>5, <1>6, <1>7, <1>8, <1>9, <1>10 DEF Next

\* Every step keeps FlawInv: the run that leaves a flaw answers for it.
LEMMA NextFlawInv == IInv /\ [Next]_vars => FlawInv'
<1> SUFFICES ASSUME IInv, [Next]_vars, NEW x \in Ids, Flawed(x)'
             PROVE  \/ x \in blamed'
                    \/ stage' # "idle" /\ x \in report'.warned
                    \/ stage' \in {"copy", "stamp"} /\ InHand(x)'
  BY DEF FlawInv
<1> USE DEF IInv, TypeOK
<1>1. ASSUME NEW copy \in BOOLEAN, NEW dry \in BOOLEAN, Start(copy, dry) PROVE x \in blamed'
  BY <1>1 DEF Start, disk, history, FlawInv, Flawed
<1>2. ASSUME NEW id \in Ids, CountMissing(id) \/ Skip(id) \/ Pretend(id)
      PROVE  x \in blamed' \/ (stage' # "idle" /\ x \in report'.warned)
  BY <1>2 DEF CountMissing, Skip, Pretend, Decide, disk, history, FlawInv, Flawed, Report
<1>3. ASSUME NEW id \in Ids, Rename(id) PROVE x \in blamed' \/ (stage' # "idle" /\ x \in report'.warned)
  <2>1. ~Flawed(id)' /\ \A y \in Ids \ {id} : dest'[y] = dest[y]
    BY <1>3 DEF Rename, Flawed, Whole
  <2>2. Flawed(x)
    BY <2>1 DEF Flawed
  <2> QED BY <1>3, <2>2 DEF Rename, Decide, history, FlawInv, Report
<1>4. ASSUME NEW id \in Ids, BeginCopy(id) \/ EndCopy(id)
      PROVE  \/ x \in blamed' \/ (stage' # "idle" /\ x \in report'.warned)
             \/ stage' \in {"copy", "stamp"} /\ InHand(x)'
  <2>1. CASE x = id
    BY <1>4, <2>1 DEF BeginCopy, EndCopy, InHand
  <2>2. CASE x # id
    BY <1>4, <2>2 DEF BeginCopy, EndCopy, InHand, history, FlawInv, Flawed
  <2> QED BY <2>1, <2>2
<1>5. ASSUME NEW id \in Ids, Stamp(id) PROVE x \in blamed' \/ (stage' # "idle" /\ x \in report'.warned)
  <2>1. dest[id].whole = TRUE
    BY <1>5 DEF Stamp, Copied, CopyInv
  <2>2. dest'[id].whole = TRUE /\ dest'[id].dated = TRUE /\ \A y \in Ids \ {id} : dest'[y] = dest[y]
    BY <1>5, <2>1 DEF Stamp, File
  <2>3. x # id /\ Flawed(x) /\ ~InHand(x)
    BY <1>5, <2>2, InHandUnique DEF Flawed, Stamp, Copied
  <2> QED BY <1>5, <2>3 DEF Stamp, Copied, history, FlawInv, Report
<1>6. ASSUME NEW id \in Ids, StampFails(id) PROVE x \in blamed' \/ (stage' # "idle" /\ x \in report'.warned)
  <2>1. x = id \/ ~InHand(x)
    BY <1>6, InHandUnique DEF StampFails, Copied
  <2> QED BY <1>6, <2>1 DEF StampFails, Copied, history, FlawInv, Flawed, Report
<1>7. ASSUME EndRun PROVE x \in blamed'
  BY <1>7 DEF EndRun, disk, FlawInv, Flawed
<1>8. ASSUME Fails PROVE x \in blamed'
  BY <1>8 DEF Fails, disk, FlawInv, Flawed, CopyInv
<1>9. CASE UNCHANGED vars
  BY <1>9 DEF vars, disk, history, InHand, FlawInv, Flawed
<1> QED BY <1>1, <1>2, <1>3, <1>4, <1>5, <1>6, <1>7, <1>8, <1>9 DEF Next

\* The strengthened invariant: types, the copy in hand, what is decided, and who answers for flaws.
THEOREM SpecIInv == Spec => []IInv
<1>1. IInv /\ [Next]_vars => IInv'
  BY NextTypeOK, NextCopyInv, NextSettledInv, NextFlawInv DEF IInv
<1> QED BY <1>1, InitIInv, PTL DEF Spec

\* A report that was printed without warnings vouches for every file it has mapped.
THEOREM FlawsAreAlwaysReported == Spec => []FlawsAreReported
<1>1. IInv => FlawsAreReported
  BY DEF IInv, FlawInv, Flawed, FlawsAreReported
<1> QED BY <1>1, SpecIInv, PTL

\* Once a run has ended well no run touches a file again.
THEOREM RerunsAreIdle == Spec => RerunsChangeNothing
<1>1. ASSUME IInv, [Next]_vars, settled PROVE UNCHANGED disk
  <2> USE <1>1 DEF IInv, TypeOK
  <2>1. ASSUME NEW id \in Ids, Rename(id) \/ BeginCopy(id) PROVE FALSE
    <3>1. id \in Mapped /\ ~Decided(id)
      BY <2>1 DEF Rename, Decide, BeginCopy, Usable, Decided, InHand, CopyInv
    <3> QED BY <3>1 DEF SettledInv
  <2>2. ASSUME NEW id \in Ids, EndCopy(id) \/ Stamp(id) \/ StampFails(id) PROVE FALSE
    BY <2>2 DEF EndCopy, Stamp, StampFails, Copied, SettledInv
  <2>3. ASSUME NEW id \in Ids, CountMissing(id) \/ Skip(id) \/ Pretend(id) PROVE UNCHANGED disk
    BY <2>3 DEF CountMissing, Skip, Pretend
  <2>4. ASSUME EndRun \/ Fails \/ (\E copy, dry \in BOOLEAN : Start(copy, dry)) \/ UNCHANGED vars PROVE UNCHANGED disk
    BY <2>4 DEF EndRun, Fails, Start, vars
  <2> QED BY <2>1, <2>2, <2>3, <2>4 DEF Next
<1>2. IInv /\ [Next]_vars => [settled => UNCHANGED disk]_vars
  BY <1>1
<1> QED BY <1>2, SpecIInv, PTL DEF Spec, RerunsChangeNothing

-----------------------------------------------------------------------------
(* The refinement *)

\* Every step is a step of CacheKeys or changes nothing that it sees.
LEMMA StepMapsToStep == IInv /\ [Next]_vars => [Keys!Next]_(Keys!vars)
<1> SUFFICES ASSUME IInv, [Next]_vars PROVE [Keys!Next]_(Keys!vars)
  OBVIOUS
<1> USE DEF IInv, TypeOK
<1>1. ASSUME NEW id \in Ids, Rename(id) PROVE Keys!Next
  <2>1. PICK i \in Chosen(id) : /\ dest' = [dest EXCEPT ![id] = Whole(Rows[i].name)]
                                /\ legacy' = legacy \ {Rows[i].name}
    BY <1>1 DEF Rename
  <2>2. Keyed[id] = Absent
    BY <1>1 DEF Rename, Taken, Keyed
  <2>3. Keyed' = [Keyed EXCEPT ![id] = Rows[i].name]
    BY <2>1 DEF Keyed, Whole
  <2>4. Keys!Give(id, Rows[i].name)
    BY <2>1, <2>2, <2>3, ChosenTypes DEF Keys!Give
  <2> QED BY <2>4, ChosenTypes DEF Keys!Next
<1>2. ASSUME NEW id \in Ids, BeginCopy(id) PROVE UNCHANGED <<legacy, Keyed>>
  <2>1. PICK i \in Chosen(id) : dest' = [dest EXCEPT ![id] = [from |-> Rows[i].name, whole |-> FALSE, dated |-> FALSE]]
    BY <1>2 DEF BeginCopy
  <2>2. dest[id].from = Absent
    BY <1>2 DEF BeginCopy, Taken
  <2> QED BY <1>2, <2>1, <2>2 DEF BeginCopy, Keyed
<1>3. ASSUME NEW id \in Ids, EndCopy(id) PROVE Keys!Next
  <2>1. dest[id].from \in Given[id] \cap legacy /\ dest[id].from \in Names /\ dest[id].whole = FALSE
    BY <1>3 DEF EndCopy, CopyInv
  <2>2. Keyed[id] = Absent
    BY <2>1 DEF Keyed
  <2>3. Keyed' = [Keyed EXCEPT ![id] = dest[id].from]
    BY <1>3 DEF EndCopy, Keyed, File
  <2>4. Keys!Give(id, dest[id].from)
    BY <1>3, <2>1, <2>2, <2>3 DEF EndCopy, Keys!Give
  <2> QED BY <2>1, <2>4 DEF Keys!Next
<1>4. ASSUME NEW id \in Ids, Stamp(id) PROVE UNCHANGED <<legacy, Keyed>>
  BY <1>4 DEF Stamp, Copied, Keyed, File
<1>5. ASSUME UNCHANGED disk PROVE UNCHANGED <<legacy, Keyed>>
  BY <1>5 DEF disk, Keyed
<1>6. ASSUME NEW id \in Ids, CountMissing(id) \/ Skip(id) \/ Pretend(id) \/ StampFails(id) PROVE UNCHANGED disk
  BY <1>6 DEF CountMissing, Skip, Pretend, StampFails, Copied, disk
<1>7. ASSUME EndRun \/ Fails \/ (\E copy, dry \in BOOLEAN : Start(copy, dry)) \/ UNCHANGED vars PROVE UNCHANGED disk
  BY <1>7 DEF EndRun, Fails, Start, vars
<1> QED BY <1>1, <1>2, <1>3, <1>4, <1>5, <1>6, <1>7 DEF Next, Keys!vars

\* The tool implements CacheKeys: bytes reach an id once, from one of its own
\* candidates, and none are lost, wherever its runs are cut short.
THEOREM RekeyKeepsEveryStatsbook == Spec => KeepsEveryStatsbook
<1>1. ASSUME Init, NEW id \in Ids PROVE Keyed[id] \notin Names
  <2>1. dest[id] = NoFile \/ dest[id] = Whole(Own)
    BY <1>1 DEF Init
  <2> QED BY <2>1, RekeyAssumption DEF RekeyAssumption, Keyed, NoFile, Whole
<1>2. Init => Keys!Init
  BY <1>1 DEF Init, Keys!Init
<1> QED BY <1>2, SpecIInv, StepMapsToStep, PTL DEF Spec, KeepsEveryStatsbook, Keys!Spec

-----------------------------------------------------------------------------
(* Dry runs *)

\* The heading id belongs under as the directory is now.
Classified(id, r) ==
  /\ id \in r.missing <=> ~Usable(id)
  /\ id \in r.skipped <=> Usable(id) /\ Taken(id)
  /\ id \in r.mapped <=> Usable(id) /\ ~Taken(id)

Listed(r) == r.missing \cup r.skipped \cup r.mapped

Copying(id) == stage \in {"copy", "stamp"} /\ InHand(id)

\* The report in hand lists ids that are passed; that of a dry run, rightly.
ReportInv ==
  /\ Listed(report) \subseteq Mapped \ todo
  /\ stage \in {"copy", "stamp"} => mode.copy /\ ~mode.dry
  /\ stage # "idle" /\ mode.dry =>
       report.warned = {} /\ \A id \in Mapped \ todo : Classified(id, report)

\* No row takes the file of another id away.
Undivided == mode.copy \/ \A i, j \in DOMAIN Rows : Rows[i].name = Rows[j].name => Rows[i].id = Rows[j].id

\* The run in hand, which writes, keeps within a forecast.
Within(r) ==
  /\ report.mapped \subseteq r.mapped /\ report.skipped \subseteq r.skipped
  /\ \A id \in todo :
       IF Copying(id) THEN id \in r.mapped
       ELSE Usable(id) => IF Taken(id) THEN id \in r.skipped ELSE id \in r.mapped

\* It does just what is forecast.
Exactly(r) ==
  /\ \A id \in todo :
       IF Copying(id) THEN id \in r.mapped /\ id \notin r.missing /\ id \notin r.skipped
       ELSE Classified(id, r)
  /\ \A id \in Mapped \ todo :
       /\ id \in report.missing <=> id \in r.missing
       /\ id \in report.skipped <=> id \in r.skipped
       /\ id \in report.mapped <=> id \in r.mapped

\* A forecast fits the directory until a run that writes makes it come true.
ForecastInv ==
  \A r \in told :
    /\ r.warned = {} /\ Listed(r) \subseteq Mapped /\ r.orphans = Orphans
    /\ stage = "idle" \/ mode.dry => \A id \in Mapped : Classified(id, r)
    /\ stage # "idle" /\ ~mode.dry => Within(r) /\ (Undivided => Exactly(r))

ForetellInv == ReportInv /\ ForecastInv

\* Orphans stay as they are: a run only touches what the mapping names.
LEMMA OrphansStay == IInv /\ [Next]_vars => Orphans' = Orphans
<1> SUFFICES ASSUME IInv, [Next]_vars PROVE Orphans' = Orphans
  OBVIOUS
<1> USE DEF IInv, TypeOK, Orphans, Taken
<1>1. ASSUME NEW id \in Ids, Rename(id) PROVE Orphans' = Orphans
  <2>1. PICK i \in Chosen(id) : /\ dest' = [dest EXCEPT ![id] = Whole(Rows[i].name)]
                                /\ legacy' = legacy \ {Rows[i].name}
    BY <1>1 DEF Rename
  <2>2. Rows[i].name \in Referenced
    BY ChosenTypes DEF Referenced
  <2>3. id \in Mapped
    BY <1>1 DEF Rename, Decide, InHand, CopyInv
  <2> QED BY <2>1, <2>2, <2>3
<1>2. ASSUME NEW id \in Ids, BeginCopy(id) \/ EndCopy(id) \/ Stamp(id) PROVE Orphans' = Orphans
  <2>1. id \in Mapped /\ legacy' = legacy
    BY <1>2 DEF BeginCopy, EndCopy, Stamp, Copied, InHand, CopyInv
  <2>2. \A x \in Ids \ {id} : dest'[x] = dest[x]
    BY <1>2 DEF BeginCopy, EndCopy, Stamp
  <2> QED BY <2>1, <2>2
<1>3. ASSUME UNCHANGED disk PROVE Orphans' = Orphans
  BY <1>3 DEF disk
<1>4. ASSUME NEW id \in Ids, CountMissing(id) \/ Skip(id) \/ Pretend(id) \/ StampFails(id) PROVE UNCHANGED disk
  BY <1>4 DEF CountMissing, Skip, Pretend, StampFails, Copied, disk
<1>5. ASSUME EndRun \/ Fails \/ (\E copy, dry \in BOOLEAN : Start(copy, dry)) \/ UNCHANGED vars PROVE UNCHANGED disk
  BY <1>5 DEF EndRun, Fails, Start, vars
<1> QED BY <1>1, <1>2, <1>3, <1>4, <1>5 DEF Next

\* What a heading depends on.
LEMMA DiskGivesHeadings ==
  ASSUME UNCHANGED disk, NEW id
  PROVE  (Usable(id)' <=> Usable(id)) /\ (Taken(id)' <=> Taken(id))
  BY DEF disk, Usable, Present, Taken

\* Every step keeps ReportInv.
LEMMA NextReportInv == IInv /\ ReportInv /\ [Next]_vars => ReportInv'
<1> SUFFICES ASSUME IInv, ReportInv, [Next]_vars PROVE ReportInv'
  OBVIOUS
<1> USE DEF IInv, TypeOK, ReportInv
<1>1. ASSUME NEW copy \in BOOLEAN, NEW dry \in BOOLEAN, Start(copy, dry) PROVE ReportInv'
  BY <1>1 DEF Start, Empty, Listed
<1>2. ASSUME NEW id \in Ids, CountMissing(id) \/ Skip(id) \/ Pretend(id) PROVE ReportInv'
  <2>1. id \in Mapped /\ id \in todo /\ todo' = todo \ {id} /\ UNCHANGED <<stage, mode>> /\ stage = "run"
    BY <1>2 DEF CountMissing, Skip, Pretend, Decide, InHand, CopyInv
  <2>2. UNCHANGED disk
    BY <1>2 DEF CountMissing, Skip, Pretend
  <2>3. Listed(report') \subseteq Listed(report) \cup {id} /\ report'.warned = report.warned
    BY <1>2 DEF CountMissing, Skip, Pretend, Listed, Report
  <2>4. ASSUME mode.dry, NEW x \in Mapped \ todo' PROVE Classified(x, report)' 
    <3>1. CASE x = id
      <4>1. id \notin Listed(report)
        BY <2>1
      <4>2. Classified(id, report')
        BY <1>2, <4>1 DEF CountMissing, Skip, Pretend, Listed, Classified, Report, Usable
      <4> QED BY <3>1, <4>2, <2>2, DiskGivesHeadings DEF Classified
    <3>2. CASE x # id
      <4>1. Classified(x, report)
        BY <2>1, <2>4, <3>2
      <4>2. Classified(x, report')
        BY <1>2, <3>2, <4>1 DEF CountMissing, Skip, Pretend, Classified, Report
      <4> QED BY <4>2, <2>2, DiskGivesHeadings DEF Classified
    <3> QED BY <3>1, <3>2
  <2>5. Listed(report)' \subseteq Mapped \ todo'
    BY <2>1, <2>3 DEF Listed
  <2> QED BY <2>1, <2>3, <2>4, <2>5 DEF Mapped
<1>3. ASSUME NEW id \in Ids, Rename(id) \/ Stamp(id) \/ StampFails(id) PROVE ReportInv'
  <2>1. id \in Mapped /\ id \in todo /\ todo' = todo \ {id} /\ stage' = "run" /\ ~mode.dry /\ mode' = mode
    BY <1>3 DEF Rename, Stamp, StampFails, Copied, Decide, InHand, CopyInv
  <2>2. Listed(report') \subseteq Listed(report) \cup {id}
    BY <1>3 DEF Rename, Stamp, StampFails, Listed, Report
  <2> QED BY <2>1, <2>2 DEF Listed, Mapped
<1>4. ASSUME NEW id \in Ids, BeginCopy(id) \/ EndCopy(id) PROVE ReportInv'
  <2>1. mode.copy /\ ~mode.dry /\ UNCHANGED <<report, todo, mode>>
    BY <1>4 DEF BeginCopy, EndCopy
  <2> QED BY <2>1 DEF Listed, Mapped
<1>5. ASSUME EndRun \/ Fails PROVE ReportInv'
  <2>1. stage' = "idle" /\ todo' \subseteq todo /\ Listed(report') = Listed(report)
    BY <1>5 DEF EndRun, Fails, Listed, Report
  <2> QED BY <2>1 DEF Listed, Mapped
<1>6. CASE UNCHANGED vars
  BY <1>6, DiskGivesHeadings DEF vars, Listed, Mapped, Classified, disk, Usable, Present, Taken
<1> QED BY <1>1, <1>2, <1>3, <1>4, <1>5, <1>6 DEF Next

\* The files of other ids: their headings change only if they share the legacy
\* file that id takes away.
LEMMA OthersHeadings ==
  ASSUME IInv, NEW id \in Ids,
         Rename(id) \/ BeginCopy(id) \/ EndCopy(id) \/ Stamp(id) \/ StampFails(id),
         NEW x \in Ids, x # id
  PROVE  /\ Taken(x)' <=> Taken(x)
         /\ Usable(x)' => Usable(x)
         /\ Undivided => (Usable(x)' <=> Usable(x))
<1> USE DEF IInv, TypeOK
<1>1. Taken(x)' <=> Taken(x)
  BY DEF Rename, BeginCopy, EndCopy, Stamp, StampFails, Taken
<1>2. CASE Rename(id)
  <2>1. PICK i \in Chosen(id) : legacy' = legacy \ {Rows[i].name}
    BY <1>2 DEF Rename
  <2>2. i \in DOMAIN Rows /\ Rows[i].id = id
    BY ChosenTypes
  <2>3. Present(x)' \subseteq Present(x)
    BY <2>1 DEF Present
  <2>4. ASSUME Undivided PROVE Present(x)' = Present(x)
    <3>1. ~mode.copy
      BY <1>2 DEF Rename
    <3>2. \A j \in Present(x) : Rows[j].name # Rows[i].name
      BY <2>2, <2>4, <3>1 DEF Undivided, Present
    <3> QED BY <2>1, <3>2 DEF Present
  <2> QED BY <1>1, <2>3, <2>4 DEF Usable
<1>3. CASE BeginCopy(id) \/ EndCopy(id) \/ Stamp(id) \/ StampFails(id)
  <2>1. legacy' = legacy
    BY <1>3 DEF BeginCopy, EndCopy, Stamp, StampFails, Copied
  <2>2. Present(x)' = Present(x)
    BY <2>1 DEF Present
  <2> QED BY <1>1, <2>2 DEF Usable
<1> QED BY <1>2, <1>3

\* Every step keeps ForecastInv.
LEMMA NextForecastInv == IInv /\ ForetellInv /\ [Next]_vars => ForecastInv'
<1> SUFFICES ASSUME IInv, ForetellInv, [Next]_vars, NEW r \in told'
             PROVE  /\ r.warned = {} /\ Listed(r) \subseteq Mapped /\ r.orphans = Orphans'
                    /\ stage' = "idle" \/ mode'.dry => \A id \in Mapped : Classified(id, r)'
                    /\ stage' # "idle" /\ ~mode'.dry => Within(r)' /\ (Undivided' => Exactly(r)')
  BY DEF ForecastInv, Listed, Mapped, Classified, Within, Exactly
<1> USE DEF IInv, TypeOK, ForetellInv
<1>o. Orphans' = Orphans
  BY OrphansStay
<1>f. ASSUME r \in told
      PROVE  /\ r.warned = {} /\ Listed(r) \subseteq Mapped /\ r.orphans = Orphans'
             /\ stage = "idle" \/ mode.dry => \A id \in Mapped : Classified(id, r)
             /\ stage # "idle" /\ ~mode.dry => Within(r) /\ (Undivided => Exactly(r))
  BY <1>f, <1>o DEF ForecastInv
<1>1. ASSUME NEW copy \in BOOLEAN, NEW dry \in BOOLEAN, Start(copy, dry)
      PROVE  /\ r \in told
             /\ \A id \in Mapped : Classified(id, r)'
             /\ Within(r)' /\ Exactly(r)'
  <2>1. r \in told /\ stage = "idle" /\ stage' = "run" /\ todo' = Mapped /\ report' = Empty /\ UNCHANGED disk
    BY <1>1 DEF Start, history
  <2>2. \A id \in Mapped : Classified(id, r) /\ Classified(id, r)' /\ ~Copying(id)'
    BY <1>f, <2>1, DiskGivesHeadings DEF Classified, Copying
  <2> QED BY <2>1, <2>2 DEF Within, Exactly, Classified, Empty, Mapped
<1>2. ASSUME NEW id \in Ids, CountMissing(id) \/ Skip(id) \/ Pretend(id)
      PROVE  /\ r \in told /\ mode' = mode /\ stage = "run"
             /\ mode.dry => \A x \in Mapped : Classified(x, r)'
             /\ ~mode.dry => Within(r)' /\ (Undivided => Exactly(r)')
  <2>1. /\ r \in told /\ mode' = mode /\ stage = "run" /\ stage' = "run" /\ todo' = todo \ {id}
        /\ id \in todo /\ id \in Mapped /\ UNCHANGED disk
    BY <1>2 DEF CountMissing, Skip, Pretend, Decide, InHand, CopyInv, history
  <2>2. \A x : (Classified(x, r)' <=> Classified(x, r)) /\ ~Copying(x) /\ ~Copying(x)'
    BY <2>1, DiskGivesHeadings DEF Classified, Copying
  <2>3. ASSUME ~mode.dry PROVE Within(r)'
    <3>1. Within(r)
      BY <1>f, <2>1, <2>3
    <3>2. /\ report'.mapped \subseteq r.mapped
          /\ report'.skipped \subseteq r.skipped
      BY <1>2, <2>1, <2>2, <2>3, <3>1 DEF CountMissing, Skip, Pretend, Within, Report
    <3> QED BY <2>1, <2>2, <3>1, <3>2, DiskGivesHeadings DEF Within
  <2>4. ASSUME ~mode.dry, Undivided PROVE Exactly(r)'
    <3>1. Exactly(r)
      BY <1>f, <2>1, <2>4
    <3>2. id \notin Listed(report) /\ Classified(id, r)
      BY <2>1, <2>2, <3>1 DEF ReportInv, Exactly
    <3>3. \A x \in Mapped \ todo' :
            /\ x \in report'.missing <=> x \in r.missing
            /\ x \in report'.skipped <=> x \in r.skipped
            /\ x \in report'.mapped <=> x \in r.mapped
      BY <1>2, <2>1, <2>4, <3>1, <3>2
         DEF CountMissing, Skip, Pretend, Exactly, Report, Classified, Usable, Listed
    <3> QED BY <2>1, <2>2, <3>1, <3>3 DEF Exactly, Mapped
  <2> QED BY <1>f, <2>1, <2>2, <2>3, <2>4
<1>3. ASSUME NEW id \in Ids, BeginCopy(id) \/ EndCopy(id)
      PROVE  Within(r)' /\ (Undivided => Exactly(r)')
  <2>1. /\ r \in told /\ ~mode.dry /\ stage # "idle" /\ UNCHANGED <<todo, report>>
        /\ id \in todo /\ id \in Ids /\ todo \subseteq Ids
    BY <1>3 DEF BeginCopy, EndCopy, InHand, history, ReportInv
  <2>2. \A x \in todo : (Copying(x)' <=> x = id) /\ (x # id => ~Copying(x))
    BY <1>3, <2>1, InHandUnique DEF BeginCopy, EndCopy, Copying, InHand
  <2>3. Within(r)
    BY <1>f, <2>1
  <2>4. id \in r.mapped
    BY <1>3, <2>1, <2>3 DEF BeginCopy, EndCopy, Within, Copying
  <2>5. \A x \in todo \ {id} : (Taken(x)' <=> Taken(x)) /\ (Usable(x)' => Usable(x))
                               /\ (Undivided => (Usable(x)' <=> Usable(x)))
    BY <1>3, <2>1, OthersHeadings
  <2>6. Within(r)'
    BY <2>1, <2>2, <2>3, <2>4, <2>5 DEF Within
  <2>7. ASSUME Undivided PROVE Exactly(r)'
    <3>1. Exactly(r)
      BY <1>f, <2>1, <2>7
    <3>2. id \notin r.missing /\ id \notin r.skipped
      BY <1>3, <2>1, <3>1 DEF BeginCopy, EndCopy, Exactly, Copying, Classified
    <3>3. \A x \in todo \ {id} : Classified(x, r)'
      BY <2>1, <2>2, <2>5, <2>7, <3>1 DEF Exactly, Classified
    <3> QED BY <2>1, <2>2, <2>4, <3>1, <3>2, <3>3 DEF Exactly, Mapped
  <2> QED BY <2>6, <2>7
<1>4. ASSUME NEW id \in Ids, Rename(id) \/ Stamp(id) \/ StampFails(id)
      PROVE  Within(r)' /\ (Undivided => Exactly(r)')
  <2>1. /\ r \in told /\ ~mode.dry /\ stage # "idle" /\ stage' = "run"
        /\ id \in todo /\ todo \subseteq Ids /\ todo' = todo \ {id}
    BY <1>4 DEF Rename, Stamp, StampFails, Copied, Decide, InHand, history, ReportInv
  <2>2. \A x \in todo' : ~Copying(x) /\ ~Copying(x)'
    BY <1>4, <2>1, InHandUnique DEF Rename, Stamp, StampFails, Copied, Decide, Copying
  <2>3. Within(r)
    BY <1>f, <2>1
  <2>4. id \in r.mapped
    BY <1>4, <2>1, <2>3 DEF Rename, Stamp, StampFails, Copied, Decide, Within, Copying
  <2>5. \A x \in todo' : (Taken(x)' <=> Taken(x)) /\ (Usable(x)' => Usable(x))
                         /\ (Undivided => (Usable(x)' <=> Usable(x)))
    BY <1>4, <2>1, OthersHeadings
  <2>r. /\ report'.mapped = report.mapped \cup {id}
        /\ report'.skipped = report.skipped /\ report'.missing = report.missing
    BY <1>4 DEF Rename, Stamp, StampFails, Report
  <2>6. Within(r)'
    BY <2>1, <2>2, <2>3, <2>4, <2>5, <2>r DEF Within
  <2>7. ASSUME Undivided PROVE Exactly(r)'
    <3>1. Exactly(r)
      BY <1>f, <2>1, <2>7
    <3>2. id \notin r.missing /\ id \notin r.skipped
      BY <1>4, <2>1, <2>4, <3>1 DEF Rename, Stamp, StampFails, Copied, Decide, Exactly, Copying, Classified
    <3>3. \A x \in todo' : Classified(x, r)'
      BY <2>1, <2>2, <2>5, <2>7, <3>1 DEF Exactly, Classified
    <3>4. id \notin Listed(report)
      BY <2>1 DEF ReportInv
    <3> QED BY <2>1, <2>2, <2>4, <2>r, <3>1, <3>2, <3>3, <3>4 DEF Exactly, Mapped, Listed
  <2> QED BY <2>6, <2>7
<1>5. ASSUME EndRun
      PROVE  /\ stage' = "idle" /\ r.warned = {} /\ Listed(r) \subseteq Mapped /\ r.orphans = Orphans'
             /\ \A id \in Mapped : Classified(id, r)'
  <2>1. mode.dry /\ r = report' /\ stage = "run" /\ todo = {} /\ UNCHANGED disk
    BY <1>5 DEF EndRun
  <2>2. /\ r.mapped = report.mapped /\ r.skipped = report.skipped /\ r.missing = report.missing
        /\ r.warned = report.warned /\ r.orphans = Orphans
    BY <1>5, <2>1 DEF EndRun, Report
  <2>3. \A id \in Mapped : Classified(id, r)
    BY <2>1, <2>2 DEF ReportInv, Classified
  <2>4. r.warned = {} /\ Listed(r) \subseteq Mapped
    BY <2>1, <2>2 DEF ReportInv, Listed
  <2> QED BY <1>5, <1>o, <2>1, <2>2, <2>3, <2>4, DiskGivesHeadings DEF EndRun, Classified
<1>6. ASSUME Fails PROVE FALSE
  BY <1>6 DEF Fails
<1>7. ASSUME UNCHANGED vars
      PROVE  /\ r \in told /\ UNCHANGED <<stage, mode>>
             /\ \A id : Classified(id, r) <=> Classified(id, r)'
             /\ Within(r) <=> Within(r)'
             /\ (Undivided => Exactly(r)) <=> (Undivided' => Exactly(r)')
  <2>1. r \in told /\ UNCHANGED <<stage, mode, todo, report>> /\ UNCHANGED disk
    BY <1>7 DEF vars, history
  <2>2. \A id : Copying(id) <=> Copying(id)'
    BY <2>1 DEF Copying, InHand
  <2> QED BY <2>1, <2>2, DiskGivesHeadings DEF Classified, Within, Exactly, Undivided, Mapped
<1>8. ASSUME NEW id \in Ids, \/ Rename(id) \/ BeginCopy(id) \/ EndCopy(id) \/ Stamp(id) \/ StampFails(id)
      PROVE  r \in told /\ ~mode.dry /\ stage' # "idle" /\ mode' = mode
  BY <1>8 DEF Rename, Decide, BeginCopy, EndCopy, Stamp, StampFails, Copied, history, ReportInv
<1>9. (mode' = mode) => (Undivided' <=> Undivided)
  BY DEF Undivided
<1>10. CASE \E copy, dry \in BOOLEAN : Start(copy, dry)
  BY <1>f, <1>1, <1>10
<1>11. CASE \E id \in Ids : CountMissing(id) \/ Skip(id) \/ Pretend(id)
  BY <1>f, <1>2, <1>9, <1>11 DEF CountMissing, Skip, Pretend, Decide
<1>12. CASE \E id \in Ids : BeginCopy(id) \/ EndCopy(id) \/ Rename(id) \/ Stamp(id) \/ StampFails(id)
  BY <1>f, <1>3, <1>4, <1>8, <1>9, <1>12
<1>13. CASE EndRun
  BY <1>5, <1>13 DEF EndRun
<1>14. CASE UNCHANGED vars
  BY <1>f, <1>7, <1>14
<1> QED
  BY <1>6, <1>10, <1>11, <1>12, <1>13, <1>14 DEF Next

\* A dry run foretells the report of the run that follows it.
THEOREM ForecastsComeTrue == Spec => DryRunForetells
<1>1. Init => ForetellInv
  BY DEF Init, ForetellInv, ReportInv, ForecastInv, Empty, Listed
<1>2. IInv /\ ForetellInv /\ [Next]_vars => ForetellInv'
  BY NextReportInv, NextForecastInv DEF ForetellInv
<1>3. ASSUME IInv, ForetellInv, [Next]_vars, NEW r \in told,
             stage = "run", stage' = "idle", told' = {}, ~mode.dry, faults' = faults
      PROVE  /\ report'.orphans = r.orphans
             /\ report'.mapped \subseteq r.mapped
             /\ report'.skipped \subseteq r.skipped
             /\ Undivided => [report' EXCEPT !.warned = {}] = r
  <2> USE <1>3 DEF IInv, TypeOK, ForetellInv
  <2>1. EndRun
    <3>1. ~Fails
      BY DEF Fails
    <3>2. \A copy, dry \in BOOLEAN : ~Start(copy, dry)
      BY DEF Start
    <3>3. \A id \in Ids : /\ ~CountMissing(id) /\ ~Skip(id) /\ ~Pretend(id) /\ ~Rename(id)
                           /\ ~BeginCopy(id) /\ ~EndCopy(id) /\ ~Stamp(id) /\ ~StampFails(id)
      BY DEF CountMissing, Skip, Pretend, Rename, Decide, BeginCopy, EndCopy, Stamp, StampFails, Copied
    <3>4. ~UNCHANGED vars
      BY DEF vars
    <3> QED BY <3>1, <3>2, <3>3, <3>4 DEF Next
  <2>2. todo = {} /\ report' = [report EXCEPT !.orphans = Orphans]
    BY <2>1 DEF EndRun
  <2>3. r.warned = {} /\ Listed(r) \subseteq Mapped /\ r.orphans = Orphans
        /\ Within(r) /\ (Undivided => Exactly(r))
    BY DEF ForecastInv
  <2>4. report'.orphans = r.orphans /\ report'.mapped \subseteq r.mapped /\ report'.skipped \subseteq r.skipped
    BY <2>2, <2>3 DEF Within, Report
  <2>5. ASSUME Undivided PROVE [report' EXCEPT !.warned = {}] = r
    <3>1. Listed(report) \subseteq Mapped
      BY DEF ReportInv
    <3>2. report.missing = r.missing /\ report.skipped = r.skipped /\ report.mapped = r.mapped
      BY <2>2, <2>3, <2>5, <3>1 DEF Exactly, Listed
    <3>3. r \in Report /\ report \in Report
      OBVIOUS
    <3> QED BY <2>2, <2>3, <3>2, <3>3 DEF Report
  <2> QED BY <2>4, <2>5
<1>4. IInv /\ ForetellInv /\ [Next]_vars =>
        [\A forecast \in told :
           stage = "run" /\ stage' = "idle" /\ told' = {} /\ ~mode.dry /\ faults' = faults =>
             /\ report'.orphans = forecast.orphans
             /\ report'.mapped \subseteq forecast.mapped
             /\ report'.skipped \subseteq forecast.skipped
             /\ mode.copy \/ (\A i, j \in DOMAIN Rows : Rows[i].name = Rows[j].name => Rows[i].id = Rows[j].id)
                  => [report' EXCEPT !.warned = {}] = forecast]_vars
  BY <1>3 DEF Undivided
<1> QED BY <1>1, <1>2, <1>4, SpecIInv, PTL DEF Spec, DryRunForetells
=============================================================================
