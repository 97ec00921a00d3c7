------------------------- MODULE MCSisterConnections -------------------------
(* One user with a right pair and a wrong one, and two handlers: enough    *)
(* for a row to be edited, dropped or saved anew under a test.             *)
EXTENDS SisterConnections, TLC

CONSTANTS u1, good, bad, h1, h2

OneUser == {u1}
TwoSecrets == {good, bad}
OnlyGood == {good}
TwoHandlers == {h1, h2}
==============================================================================
