------------------------- MODULE MCSectionPermissions -------------------------
(* Three accounts, two of them rows of one name at different times, and    *)
(* three sections, two of them rows of one key.                            *)
EXTENDS SectionPermissions, TLC

CONSTANTS root, ada, ada2, s1, s2, s3, t1, t2

ThreeUsers == {root, ada, ada2}
Names == [u \in ThreeUsers |-> IF u = root THEN "root" ELSE "ada"]
ThreeSections == {s1, s2, s3}
SectionKeys == [s \in ThreeSections |-> IF s = s1 THEN "sync" ELSE "scan"]
SectionModules == [s \in ThreeSections |-> IF s = s1 THEN "accessi" ELSE "rete"]
TwoModules == {"accessi", "rete"}
OneOther == {"guest"}
Form(role, active, modules) == [state |-> "present", role |-> role,
                                active |-> active, modules |-> modules]
ThreeForms == {Form("viewer", TRUE, {"accessi"}), Form("admin", TRUE, {"accessi", "rete"}),
               Form("guest", FALSE, {"rete"})}
TwoMinRoles == {"viewer", "admin"}
TwoBulkRoles == {"admin", "guest"}
TwoThreads == {t1, t2}
Alike == Permutations(TwoThreads)
==============================================================================
