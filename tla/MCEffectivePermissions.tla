----------------------- MODULE MCEffectivePermissions -----------------------
(* One user, one group of which it may be a member, and two shares; up to  *)
(* two ACL texts, or one of up to three lines: enough for a denial and two *)
(* permissions to meet in any order, in one text or in two of one share.   *)
EXTENDS EffectivePermissions, FiniteSets

CONSTANTS u1, g1, s1, s2

OneUser == {u1}
OneGroup == {g1}
TwoShares == {s1, s2}

AtMost(n, S) == UNION {[1..k -> S] : k \in 0..n}

(* g1 may be listed with u1, without it, twice, or not at all.             *)
Listings == SUBSET [name : OneGroup, members : SUBSET OneUser]

MCLine == [subject : {u1, g1}, level : {"read", "write", "none"}, deny : BOOLEAN]

SmallPayloads ==
  [shares : {<<s1, s2>>, <<s1, s1>>, <<s2>>},
   acls : AtMost(2, AtMost(1, MCLine)),
   groups : Listings]
  \cup [shares : {<<s1>>}, acls : AtMost(1, AtMost(3, MCLine)), groups : Listings]
=============================================================================
