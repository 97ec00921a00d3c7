-------------------------- MODULE MCCatastoProgress --------------------------
(* The batches of MCCatastoBatches with one client that follows them.      *)
EXTENDS CatastoProgress

CONSTANTS u1, b1, r1, r2, h1

OneUser == {u1}
OneBatch == {b1}
TwoRows == {r1, r2}
OneHandler == {h1}

OwnedByUser == [b \in Batches |-> u1]
AllInFirst == [r \in Requests |-> b1]
RowNumber == [r \in Requests |-> IF r = r1 THEN 1 ELSE 2]
=============================================================================
