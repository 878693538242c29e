------------------------------ MODULE MCRekey -------------------------------
(***************************************************************************)
(* Four ids and three legacy files: 1 has two candidates, 2 shares one of  *)
(* them, 3 has two of the same version, 4 is no file name; id 5 and the    *)
(* file c4 are in no row.                                                  *)
(***************************************************************************)
EXTENDS Rekey

CONSTANTS c1, c2, c3, c4

Line(id, name, version) == [kind |-> "row", id |-> id, name |-> name, version |-> version]

MCLines == <<
  [kind |-> "skip"], [kind |-> "header"],
  Line(1, c1, <<2>>), Line(1, c2, <<1>>), Line(2, c1, <<1>>),
  [kind |-> "skip"],
  Line(3, c2, <<>>), Line(3, c3, <<0>>), Line(4, c3, <<1>>) >>

MCRows == LoadCsv(MCLines)
=============================================================================
