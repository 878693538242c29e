----------------------------- MODULE MCPipeline -----------------------------
(***************************************************************************)
(* Pipeline on two files and two games: content a is of game g1 and of no  *)
(* other; b is of g1 too, and fits g2 better once that game is known with  *)
(* the result r2, which WFTDA may have to correct from r1 or to r1.        *)
(***************************************************************************)
EXTENDS PipelineProperties

CONSTANTS g1, g2, r1, r2, a, b, empty, junk

\* g1 is never corrected.
MCFeeds == {rows \in GameRows : rows[g1] # r2}

MCMatchOf ==
  [content \in {a, b} |-> [rows \in GameRows |->
     IF content = b /\ rows[g2] = r2 THEN g2
     ELSE IF rows[g1] # "absent" THEN g1 ELSE "none"]]
=============================================================================
