------------------------------ MODULE MCApiPage ------------------------------
(***************************************************************************)
(* Visits for model checking ApiPage: documents that follow each other     *)
(* while operations are opened, and calls of the operations of one.        *)
(***************************************************************************)
EXTENDS ApiPage

CONSTANTS u1, u2, p1, p2, t1, t2

\* A tag for each operation, so that one can be folded without the other.
OwnTag == [p \in Operation |-> IF p = p1 THEN t1 ELSE t2]

Visit(d, c, ts, ss, ordered) ==
  [downloads |-> d, calls |-> c, tags |-> ts, slots |-> ss, inOrder |-> ordered]

ManyVisits == {Visit(2, 0, {t1}, {1, 2}, TRUE), Visit(2, 1, {t1}, {1}, TRUE),
               Visit(1, 3, {t1}, {1}, TRUE), Visit(1, 3, {t1}, {1}, FALSE)}
=============================================================================
