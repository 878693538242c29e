---------------------------- MODULE MCHttpCache ----------------------------
(***************************************************************************)
(* HttpCache with a page that grows past the limit of a body, a page that  *)
(* shrinks, and a limit that does not hold both at their largest.          *)
(***************************************************************************)
EXTENDS HttpCache

CONSTANTS p1, p2

MCBodySize == [p \in {p1, p2} |-> [n \in States |->
                 IF p = p1 THEN 1 + n ELSE IF n = 1 THEN 3 ELSE 2]]

MCOversized == [p \in {p1, p2} |-> IF p = p1 THEN States \ 1..3 ELSE {}]
=============================================================================
