-------------------------- MODULE MCStatsbookParser -------------------------
(***************************************************************************)
(* StatsbookParser with a roster that lists a number twice, has a starred  *)
(* skater who skates all the same, one who does not, and a blank row above *)
(* its last skater; a jam without a star pass, a jam with one, and a jam   *)
(* whose line-up names a starred skater.                                   *)
(***************************************************************************)
EXTENDS StatsbookParser

N(n) == <<n, FALSE>>
Starred(n) == <<n, TRUE>>

MCRosters == {[home |-> <<N(1), Starred(2), N(1), Starred(3)>>, away |-> <<N(1), N(2), N(3), Blank, N(4)>>]}

MCPlays == {[jammer |-> N(1), points |-> 2, to |-> Blank, after |-> 0, others |-> <<N(2), Starred(3)>>],
            [jammer |-> N(2), points |-> 0, to |-> N(1), after |-> 1, others |-> <<N(1), Blank, N(4)>>]}

MCDates == {[y |-> 2024, m |-> 8, d |-> 6], [y |-> 2024, m |-> 6, d |-> 25], [y |-> 2023, m |-> 5, d |-> 5]}
=============================================================================
