----------------------------- MODULE MCNasSync -----------------------------
(* Small instances of the synchronisation: one account and two shares, the *)
(* second a folder inside the first.                                       *)
EXTENDS NasSync, TLC

CONSTANTS l1, l2, p1, account, root, folder

OneLive == {l1}
TwoLive == {l1, l2}
NoJob == {}
OnePayload == {p1}

OneAccount == {account}
NoAccount == {}
NestedShares == {root, folder}

Paths == (root :> {}) @@ (folder :> {root})
=============================================================================
