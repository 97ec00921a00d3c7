-------------------------- MODULE MCCatastoBatches --------------------------
(* Small instances of CatastoBatches for TLC: two users are not needed for *)
(* any hazard but the choice of the next batch, so one user owns all.      *)
EXTENDS CatastoBatches, TLC

CONSTANTS u1, b1, b2, r1, r2, h1, h2

OneUser == {u1}
OneBatch == {b1}
TwoBatches == {b1, b2}
TwoRows == {r1, r2}
OneHandler == {h1}
TwoHandlers == {h1, h2}

OwnedByUser == [b \in Batches |-> u1]
AllInFirst == [r \in Requests |-> b1]
OneEach == [r \in Requests |-> IF r = r1 THEN b1 ELSE b2]
RowNumber == [r \in Requests |-> IF r = r1 THEN 1 ELSE 2]

HandlerSymmetry == Permutations(Handlers)
=============================================================================
