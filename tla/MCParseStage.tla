---------------------------- MODULE MCParseStage ----------------------------
(***************************************************************************)
(* ParseStage with up to three uploads: the first cannot be parsed, the    *)
(* third is an unfilled placeholder.  The race of an upload with the write   *)
(* of a cache entry needs two games.                                       *)
(***************************************************************************)
EXTENDS ParseStage

MCHistories == {<<"bad", "game", "empty">>}

TwoGames == {<<"game", "game">>}
=============================================================================
