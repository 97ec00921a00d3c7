----------------------- MODULE SectionPermissions_proofs -----------------------
(***************************************************************************)
(* Proofs about who may open which section, for every set of accounts,     *)
(* sections, roles and threads.  Four of the invariants are inductive      *)
(* together (Tables); what the two readers answer follows from them.       *)
(***************************************************************************)
EXTENDS SectionPermissions, TLAPS

USE PermissionsAssumption

(* The invariants of the tables: no other one is needed. *)
Tables == OverridesHaveOwners /\ NamesAreUnique /\ EverySectionIsSeeded
Inductive == TypeOK /\ Tables

(* What a call holds is typed in the next state if the calls of the other  *)
(* threads are as they were and its own is typed.                          *)
LEMMA OwnCall ==
  ASSUME TypeOK, NEW r \in Requests, NEW q, request' = [request EXCEPT ![r] = q],
         RequestTypeOK(r)'
  PROVE  DOMAIN request' = Requests /\ \A x \in Requests : RequestTypeOK(x)'
  <1>1. DOMAIN request' = Requests /\ \A x \in Requests : x # r => request'[x] = request[x]
    BY DEF TypeOK
  <1>2. ASSUME NEW x \in Requests, x # r
        PROVE  RequestTypeOK(x)'
    BY <1>1, <1>2 DEF TypeOK, RequestTypeOK
  <1> QED
    BY <1>1, <1>2

(* A call that ends holds nothing. *)
LEMMA EndedCall ==
  ASSUME TypeOK, NEW r \in Requests, Ends(r)
  PROVE  DOMAIN request' = Requests /\ \A x \in Requests : RequestTypeOK(x)'
  <1>1. request'[r] = Waiting
    BY DEF TypeOK, Ends
  <1>2. NoUser \in UserRow
    BY DEF NoUser, UserRow, Roles, Ranked
  <1>3. RequestTypeOK(r)'
    BY <1>1, <1>2 DEF RequestTypeOK, Waiting, Steps
  <1> QED
    BY <1>3, OwnCall DEF Ends

(* A call that has read holds its author as it was, the operation, what it *)
(* is about and the two values.                                            *)
LEMMA ReadCall ==
  ASSUME TypeOK, NEW r \in Requests, NEW op, NEW about, NEW was, NEW wants,
         Reads(r, op, about, was, wants)
  PROVE  /\ request'[r].pc = op /\ request'[r].about = about
         /\ request'[r].was = was /\ request'[r].wants = wants
         /\ request'[r].author = request[r].author
         /\ request'[r].as = request[r].as
         /\ DOMAIN request'[r] = DOMAIN Waiting
  BY DEF TypeOK, RequestTypeOK, Reads, Waiting

(* The tables are sound in the next state if they are as they were. *)
LEMMA TablesStay ==
  ASSUME Inductive, TablesUntouched, begun' \in 0 .. MaxRequests,
         DOMAIN request' = Requests, \A x \in Requests : RequestTypeOK(x)'
  PROVE  Inductive'
  BY DEF Inductive, Tables, TypeOK, TablesUntouched, OverridesHaveOwners, NamesAreUnique,
         EverySectionIsSeeded, Present

------------------------------------------------------------------------------
(* The look-ups: each leaves a typed call behind. *)

(* Admission and the look-ups of calls and scripts keep the invariant. *)
LEMMA LookingKeeps ==
  ASSUME Inductive, NEW r \in Requests,
         (\E u \in Users : Admit(r, u)) \/ Look(r) \/ Script(r)
  PROVE  Inductive'
  <1> USE DEF Steps
  <1>0. /\ TypeOK /\ users \in [Users -> UserRow] /\ sections \in [Sections -> SectionRow]
        /\ defaults \in [Sections -> [Roles -> Grants]]
        /\ overrides \in [Users -> [Sections -> Grants]]
        /\ request[r].author \in Users \cup {None} /\ request[r].as \in UserRow
        /\ request[r].author # None => request[r].as.state = "present"
        /\ begun \in 0 .. MaxRequests
    BY DEF Inductive, TypeOK, RequestTypeOK
  <1>1. ASSUME RequestTypeOK(r)', TablesUntouched, begun' \in 0 .. MaxRequests,
               NEW q, request' = [request EXCEPT ![r] = q]
        PROVE  Inductive'
    BY <1>0, <1>1, OwnCall, TablesStay
  <1>2. ASSUME NEW op, NEW about, NEW was, NEW wants, Reads(r, op, about, was, wants),
               RequestTypeOK(r)', TablesUntouched, begun' \in 0 .. MaxRequests
        PROVE  Inductive'
    BY <1>1, <1>2 DEF Reads
  <1>3. ASSUME NEW u \in Users, Admit(r, u)
        PROVE  Inductive'
    <2>1. /\ request'[r].pc = "admitted" /\ request'[r].author = u
          /\ request'[r].as = users[u] /\ request'[r].about = request[r].about
          /\ DOMAIN request'[r] = DOMAIN Waiting
      BY <1>0, <1>3 DEF Admit, TypeOK, RequestTypeOK, Waiting
    <2>2. /\ request[r].about = None /\ users[u] \in UserRow
          /\ users[u].state = "present"
      BY <1>0, <1>3 DEF Admit, TypeOK, RequestTypeOK, Present
    <2>3. RequestTypeOK(r)'
      <3> DEFINE q == request'[r]
      <3>1. /\ DOMAIN q = DOMAIN Waiting /\ q.pc \in Steps
            /\ q.author \in Users \cup {None} /\ q.as \in UserRow
            /\ q.author # None => q.as.state = "present"
            /\ q.about = None
        BY <2>1, <2>2
      <3>2. q.pc = "admitted"
        BY <2>1
      <3> HIDE DEF q
      <3>3. q = request'[r]
        BY DEF q
      <3> QED
        BY <3>1, <3>2, <3>3 DEF RequestTypeOK
    <2>4. begun' \in 0 .. MaxRequests
      <3>1. begun < MaxRequests /\ begun' = begun + 1
        BY <1>3 DEF Admit
      <3> QED
        BY <1>0, <3>1
    <2> QED
      BY <1>1, <1>3, <2>3, <2>4 DEF Admit
  <1>4. ASSUME NEW u \in Users, NEW op \in {"create_user", "update_user"},
               NEW was \in UserRow, NEW wants \in UserRow, wants.state = "present",
               Reads(r, op, u, was, wants), TablesUntouched, begun' \in 0 .. MaxRequests
        PROVE  Inductive'
    <2>1. RequestTypeOK(r)'
      BY <1>0, <1>4, ReadCall DEF RequestTypeOK
    <2> QED
      BY <1>2, <1>4, <2>1
  <1>5. ASSUME NEW s \in Sections, NEW op \in {"create_section", "update_section"},
               NEW was \in SectionRow, NEW wants \in SectionRow, wants.present,
               Reads(r, op, s, was, wants), TablesUntouched, begun' \in 0 .. MaxRequests
        PROVE  Inductive'
    <2>1. RequestTypeOK(r)'
      BY <1>0, <1>5, ReadCall DEF RequestTypeOK
    <2> QED
      BY <1>2, <1>5, <2>1
  <1>6. \A row \in Forms : row \in UserRow /\ row.state = "present"
    OBVIOUS
  <1>7. NoUser \in UserRow /\ RootRow \in UserRow /\ RootRow.state = "present"
    BY DEF NoUser, RootRow, UserRow, Roles, Ranked
  <1>8. \A u \in Users : RowSeen(r, u) \in UserRow
    BY <1>0 DEF RowSeen
  <1>9. \A minRole \in MinRoles : /\ NewSection(minRole) \in SectionRow
                                  /\ NewSection(minRole).present
    BY DEF NewSection, SectionRow
  <1>11. ASSUME NEW u \in Users, NEW row \in Forms,
                LookCreateUser(r, u, row) \/ LookUpdateUser(r, u, row)
         PROVE  Inductive'
    BY <1>0, <1>4, <1>6, <1>7, <1>8, <1>11 DEF LookCreateUser, LookUpdateUser, Looking
  <1>12. ASSUME NEW u \in Users, NEW enabled \in SUBSET Modules,
                LookPatchModules(r, u, enabled)
         PROVE  Inductive'
    <2> DEFINE row == RowSeen(r, u)
               new == [row EXCEPT !.modules = enabled]
    <2>1. /\ Reads(r, "update_user", u, row, new) /\ TablesUntouched /\ begun' = begun
      BY <1>12 DEF LookPatchModules, Looking
    <2>2. row \in UserRow /\ new \in UserRow /\ new.state = row.state
      BY <1>8 DEF UserRow
    <2>3. RequestTypeOK(r)'
      <3>1. row.state = "present"
        BY <1>0, <1>12 DEF LookPatchModules, RowSeen, Present
      <3> HIDE DEF row, new
      <3> QED
        BY <1>0, <2>1, <2>2, <3>1, ReadCall DEF RequestTypeOK
    <2> HIDE DEF row, new
    <2> QED
      BY <1>0, <1>2, <2>1, <2>3
  <1>13. ASSUME NEW u \in Users, LookDeleteUser(r, u)
         PROVE  Inductive'
    <2>1. /\ Reads(r, "delete_user", u, users[u], None) /\ TablesUntouched
          /\ begun' = begun
      BY <1>13 DEF LookDeleteUser, Looking
    <2>2. RequestTypeOK(r)'
      BY <1>0, <2>1, ReadCall DEF RequestTypeOK
    <2> QED
      BY <1>0, <1>2, <2>1, <2>2
  <1>14. ASSUME NEW s \in Sections, NEW minRole \in MinRoles, LookCreateSection(r, s, minRole)
         PROVE  Inductive'
    BY <1>0, <1>5, <1>9, <1>14 DEF LookCreateSection, Looking
  <1>15. ASSUME NEW s \in Sections, NEW active \in BOOLEAN, NEW minRole \in MinRoles,
                LookUpdateSection(r, s, [present |-> TRUE, active |-> active,
                                         minRole |-> minRole])
         PROVE  Inductive'
    <2> DEFINE row == [present |-> TRUE, active |-> active, minRole |-> minRole]
    <2>1. row \in SectionRow /\ row.present
      BY DEF SectionRow
    <2> HIDE DEF row
    <2>2. LookUpdateSection(r, s, row)
      BY <1>15 DEF row
    <2> QED
      BY <1>0, <1>5, <2>1, <2>2 DEF LookUpdateSection, Looking
  <1>16. ASSUME NEW s \in Sections, NEW named \in [BulkRoles -> Grants],
                LookDefaults(r, s, named)
         PROVE  Inductive'
    <2> DEFINE wants == [role \in Roles |-> IF role \in BulkRoles THEN named[role]
                                            ELSE defaults[s][role]]
    <2>1. /\ Reads(r, "set_defaults", s, defaults[s], wants) /\ TablesUntouched
          /\ begun' = begun /\ BulkOver(defaults[s], wants)
      BY <1>16 DEF LookDefaults, Looking
    <2>2. wants \in [Roles -> Grants]
      BY <1>0
    <2> HIDE DEF wants
    <2>3. RequestTypeOK(r)'
      BY <1>0, <2>1, <2>2, ReadCall DEF RequestTypeOK
    <2> QED
      BY <1>0, <1>2, <2>1, <2>3
  <1>17. ASSUME NEW u \in Users, NEW wants \in [Sections -> Grants], LookOverrides(r, u, wants)
         PROVE  Inductive'
    <2>1. /\ Reads(r, "set_overrides", u, overrides[u], wants) /\ TablesUntouched
          /\ begun' = begun /\ BulkOver(overrides[u], wants)
      BY <1>17 DEF LookOverrides, Looking
    <2>2. RequestTypeOK(r)'
      BY <1>0, <2>1, ReadCall DEF RequestTypeOK
    <2> QED
      BY <1>0, <1>2, <2>1, <2>2
  <1>18. ASSUME NEW u \in Users, NEW s \in Sections, LookOverrideToDrop(r, u, s)
         PROVE  Inductive'
    <2> DEFINE wants == [overrides[u] EXCEPT ![s] = "none"]
    <2>1. /\ Reads(r, "drop_override", u, overrides[u], wants) /\ TablesUntouched
          /\ begun' = begun
      BY <1>18 DEF LookOverrideToDrop, Looking
    <2>2. /\ wants \in [Sections -> Grants]
          /\ \A x \in Sections : wants[x] # overrides[u][x] => wants[x] = "none"
      BY <1>0 DEF Grants
    <2> HIDE DEF wants
    <2>3. RequestTypeOK(r)'
      BY <1>0, <2>1, <2>2, ReadCall DEF RequestTypeOK
    <2> QED
      BY <1>0, <1>2, <2>1, <2>3
  <1>19. ASSUME NEW u \in Users, BootstrapAdmin(r, u)
         PROVE  Inductive'
    BY <1>0, <1>4, <1>7, <1>19 DEF BootstrapAdmin
  <1>20. ASSUME NEW s \in Sections, NEW minRole \in MinRoles, BootstrapSection(r, s, minRole)
         PROVE  Inductive'
    BY <1>0, <1>5, <1>9, <1>20 DEF BootstrapSection
  <1> QED
    BY <1>3, <1>11, <1>12, <1>13, <1>14, <1>15, <1>16, <1>17, <1>18, <1>19, <1>20
    DEF Look, Script

------------------------------------------------------------------------------
(* The commits. *)

(* Rows of accounts that are committed are typed, and one that was there   *)
(* is there.                                                               *)
LEMMA FlushedUser ==
  ASSUME NEW current \in UserRow, NEW was \in UserRow, NEW wants \in UserRow
  PROVE  /\ FlushUser(current, was, wants) \in UserRow
         /\ FlushUser(current, was, wants).state = current.state
         /\ was.role = wants.role => FlushUser(current, was, wants).role = current.role
         /\ was.active = wants.active
              => FlushUser(current, was, wants).active = current.active
         /\ was.modules = wants.modules
              => FlushUser(current, was, wants).modules = current.modules
  <1> DEFINE role == IF wants.role = was.role THEN current.role ELSE wants.role
             active == IF wants.active = was.active THEN current.active ELSE wants.active
             modules == {m \in Modules :
                           IF (m \in wants.modules) = (m \in was.modules)
                           THEN m \in current.modules ELSE m \in wants.modules}
  <1>1. FlushUser(current, was, wants)
          = [state |-> current.state, role |-> role, active |-> active, modules |-> modules]
    BY DEF FlushUser
  <1>2. role \in Roles /\ active \in BOOLEAN /\ modules \in SUBSET Modules
    BY DEF UserRow
  <1>3. was.modules = wants.modules => modules = current.modules
    BY DEF UserRow
  <1>4. current.state \in {"free", "present", "gone"}
    BY DEF UserRow
  <1>5. /\ was.role = wants.role => role = current.role
        /\ was.active = wants.active => active = current.active
    OBVIOUS
  <1> HIDE DEF role, active, modules
  <1> QED
    BY <1>1, <1>2, <1>3, <1>4, <1>5 DEF UserRow

(* The defaults a section is created with are typed and name every role of *)
(* the hierarchy.                                                          *)
LEMMA SeededDefaults ==
  ASSUME NEW minRole \in Roles
  PROVE  /\ SeedRoleDefaults(minRole) \in [Roles -> Grants]
         /\ \A role \in Ranked : SeedRoleDefaults(minRole)[role] # "none"
  <1>1. Ranked \subseteq Roles
    BY DEF Roles
  <1> QED
    BY <1>1 DEF SeedRoleDefaults, Grants

(* Each commit keeps the invariant. *)
LEMMA CommitKeeps ==
  ASSUME Inductive, NEW r \in Requests, Commit(r)
  PROVE  Inductive'
  <1> DEFINE q == request[r]
  <1>0. /\ TypeOK /\ OverridesHaveOwners /\ NamesAreUnique /\ EverySectionIsSeeded
        /\ users \in [Users -> UserRow] /\ sections \in [Sections -> SectionRow]
        /\ defaults \in [Sections -> [Roles -> Grants]]
        /\ overrides \in [Users -> [Sections -> Grants]]
        /\ begun \in 0 .. MaxRequests
    BY DEF Inductive, Tables, TypeOK
  <1>1. Ends(r) /\ begun' = begun
    BY DEF Commit, CommitCreateUser, CommitUpdateUser, CommitDeleteUser,
           CommitCreateSection, CommitUpdateSection, CommitDefaults, CommitOverrides,
           CommitDrop
  <1>2. /\ DOMAIN request' = Requests /\ \A x \in Requests : RequestTypeOK(x)'
        /\ begun' \in 0 .. MaxRequests
    BY <1>0, <1>1, EndedCall
  <1>3. ASSUME users' \in [Users -> UserRow], sections' \in [Sections -> SectionRow],
               defaults' \in [Sections -> [Roles -> Grants]],
               overrides' \in [Users -> [Sections -> Grants]],
               OverridesHaveOwners', NamesAreUnique', EverySectionIsSeeded'
        PROVE  Inductive'
    BY <1>2, <1>3 DEF Inductive, Tables, TypeOK
  <1>4. CASE CommitCreateUser(r) \/ CommitUpdateUser(r)
    <2> DEFINE u == q.about
    <2>1. /\ UNCHANGED <<sections, defaults, overrides>> /\ u \in Users
          /\ q.wants \in UserRow /\ q.was \in UserRow /\ q.wants.state = "present"
      BY <1>0, <1>4 DEF CommitCreateUser, CommitUpdateUser, TypeOK, RequestTypeOK
    <2>2. /\ users' \in [Users -> UserRow]
          /\ \A v \in Users : v # u => users'[v] = users[v]
          /\ users'[u].state = "present"
          /\ Present(u) \/ ~NameTaken(Username[u])
      <3>1. CASE CommitCreateUser(r)
        BY <1>0, <2>1, <3>1 DEF CommitCreateUser
      <3>2. CASE CommitUpdateUser(r)
        <4>1. users' = [users EXCEPT ![u] = FlushUser(users[u], q.was, q.wants)] /\ Present(u)
          BY <3>2 DEF CommitUpdateUser
        <4> QED
          BY <1>0, <2>1, <4>1, FlushedUser DEF Present
      <3> QED
        BY <1>4, <3>1, <3>2
    <2>3. OverridesHaveOwners'
      BY <1>0, <2>1, <2>2 DEF OverridesHaveOwners, Present
    <2>4. NamesAreUnique'
      BY <1>0, <2>1, <2>2 DEF NamesAreUnique, Present, NameTaken
    <2>5. EverySectionIsSeeded'
      BY <1>0, <2>1 DEF EverySectionIsSeeded
    <2> QED
      BY <1>0, <1>3, <2>1, <2>2, <2>3, <2>4, <2>5
  <1>5. CASE CommitDeleteUser(r)
    <2> DEFINE u == q.about
    <2>1. /\ UNCHANGED <<sections, defaults>> /\ u \in Users
          /\ users' = [users EXCEPT ![u].state = "gone"]
          /\ overrides' = [overrides EXCEPT ![u] = NoOverride]
      BY <1>0, <1>5 DEF CommitDeleteUser, TypeOK, RequestTypeOK
    <2>2. /\ users' \in [Users -> UserRow] /\ users'[u].state = "gone"
          /\ \A v \in Users : v # u => users'[v] = users[v]
      <3> DEFINE gone == [users[u] EXCEPT !.state = "gone"]
      <3>0. \A row \in UserRow : LET dead == [row EXCEPT !.state = "gone"]
                                IN  dead \in UserRow /\ dead.state = "gone"
        BY DEF UserRow
      <3>1. gone \in UserRow /\ gone.state = "gone"
        BY <1>0, <2>1, <3>0
      <3>2. users' = [users EXCEPT ![u] = gone]
        BY <2>1
      <3> HIDE DEF gone
      <3> QED
        BY <1>0, <2>1, <3>1, <3>2
    <2>3. /\ overrides' \in [Users -> [Sections -> Grants]]
          /\ \A v \in Users : v # u => overrides'[v] = overrides[v]
          /\ \A s \in Sections : overrides'[u][s] = "none"
      BY <1>0, <2>1 DEF NoOverride, Grants
    <2>4. OverridesHaveOwners'
      BY <1>0, <2>1, <2>2, <2>3 DEF OverridesHaveOwners, Present
    <2>5. NamesAreUnique'
      BY <1>0, <2>1, <2>2 DEF NamesAreUnique, Present
    <2>6. EverySectionIsSeeded'
      BY <1>0, <2>1 DEF EverySectionIsSeeded
    <2> QED
      BY <1>0, <1>3, <2>1, <2>2, <2>3, <2>4, <2>5, <2>6
  <1>6. CASE CommitCreateSection(r)
    <2> DEFINE s == q.about
    <2>1. /\ UNCHANGED <<users, overrides>> /\ s \in Sections
          /\ q.wants \in SectionRow /\ q.wants.present = TRUE
          /\ ~KeyTaken(SectionKey[s])
          /\ sections' = [sections EXCEPT ![s] = q.wants]
          /\ defaults' = [defaults EXCEPT ![s] = SeedRoleDefaults(q.wants.minRole)]
      BY <1>0, <1>6 DEF CommitCreateSection, TypeOK, RequestTypeOK, SectionRow
    <2>2. q.wants.minRole \in Roles
      BY <2>1 DEF SectionRow
    <2>3. /\ sections' \in [Sections -> SectionRow] /\ sections'[s].present = TRUE
          /\ \A t \in Sections : t # s => sections'[t] = sections[t]
      BY <1>0, <2>1
    <2>4. /\ defaults' \in [Sections -> [Roles -> Grants]]
          /\ \A t \in Sections : t # s => defaults'[t] = defaults[t]
          /\ \A role \in Ranked : defaults'[s][role] # "none"
      BY <1>0, <2>1, <2>2, SeededDefaults
    <2>5. OverridesHaveOwners'
      BY <1>0, <2>1, <2>3 DEF OverridesHaveOwners, Present
    <2>6. NamesAreUnique'
      BY <1>0, <2>1, <2>3 DEF NamesAreUnique, Present, KeyTaken
    <2>7. EverySectionIsSeeded'
      BY <1>0, <2>3, <2>4 DEF EverySectionIsSeeded
    <2> QED
      BY <1>0, <1>3, <2>1, <2>3, <2>4, <2>5, <2>6, <2>7
  <1>7. CASE CommitUpdateSection(r)
    <2> DEFINE s == q.about
               new == FlushSection(sections[s], q.was, q.wants)
    <2>1. /\ UNCHANGED <<users, defaults, overrides>> /\ s \in Sections
          /\ q.wants \in SectionRow /\ q.was \in SectionRow
          /\ sections' = [sections EXCEPT ![s] = new]
      BY <1>0, <1>7 DEF CommitUpdateSection, TypeOK, RequestTypeOK
    <2>2. new \in SectionRow /\ new.present = sections[s].present
      <3>1. sections[s] \in SectionRow
        BY <1>0, <2>1
      <3> QED
        BY <2>1, <3>1 DEF FlushSection, SectionRow
    <2> HIDE DEF new
    <2>3. /\ sections' \in [Sections -> SectionRow]
          /\ \A t \in Sections : sections'[t].present = sections[t].present
      BY <1>0, <2>1, <2>2
    <2>4. OverridesHaveOwners' /\ NamesAreUnique' /\ EverySectionIsSeeded'
      BY <1>0, <2>1, <2>3
      DEF OverridesHaveOwners, NamesAreUnique, EverySectionIsSeeded, Present
    <2> QED
      BY <1>0, <1>3, <2>1, <2>3, <2>4
  <1>8. CASE CommitDefaults(r)
    <2> DEFINE s == q.about
               new == FlushGrants(defaults[s], q.was, q.wants)
    <2>1. /\ UNCHANGED <<users, sections, overrides>> /\ s \in Sections
          /\ q.wants \in [Roles -> Grants] /\ q.was \in [Roles -> Grants]
          /\ \A k \in Roles : q.wants[k] = "none" => q.was[k] = "none"
          /\ defaults' = [defaults EXCEPT ![s] = new]
      BY <1>0, <1>8 DEF CommitDefaults, TypeOK, RequestTypeOK, BulkOver
    <2>2. /\ new \in [Roles -> Grants]
          /\ \A k \in Roles : new[k] = IF q.wants[k] = q.was[k] THEN defaults[s][k]
                                       ELSE q.wants[k]
      <3>1. defaults[s] \in [Roles -> Grants]
        BY <1>0, <2>1
      <3> QED
        BY <2>1, <3>1 DEF FlushGrants
    <2> HIDE DEF new
    <2>3. \A k \in Roles : new[k] = "none" => defaults[s][k] = "none"
      BY <2>1, <2>2
    <2>4. /\ defaults' \in [Sections -> [Roles -> Grants]]
          /\ \A t \in Sections : t # s => defaults'[t] = defaults[t]
          /\ defaults'[s] = new
      BY <1>0, <2>1, <2>2
    <2>5. EverySectionIsSeeded'
      BY <1>0, <2>1, <2>3, <2>4 DEF EverySectionIsSeeded, Roles
    <2>6. OverridesHaveOwners' /\ NamesAreUnique'
      BY <1>0, <2>1 DEF OverridesHaveOwners, NamesAreUnique, Present
    <2> QED
      BY <1>0, <1>3, <2>1, <2>4, <2>5, <2>6
  <1>9. CASE CommitOverrides(r) \/ CommitDrop(r)
    <2> DEFINE u == q.about
               new == FlushGrants(overrides[u], q.was, q.wants)
    <2>1. /\ UNCHANGED <<users, sections, defaults>> /\ u \in Users
          /\ q.wants \in [Sections -> Grants]
          /\ overrides' = [overrides EXCEPT ![u] = new]
          /\ \A s \in Sections : q.wants[s] # q.was[s]
               => q.wants[s] = "none" \/ (Present(u) /\ sections[s].present)
      <3>1. CASE CommitOverrides(r)
        BY <1>0, <3>1 DEF CommitOverrides, OverridesAllowed, TypeOK, RequestTypeOK
      <3>2. CASE CommitDrop(r)
        BY <1>0, <3>2 DEF CommitDrop, TypeOK, RequestTypeOK
      <3> QED
        BY <1>9, <3>1, <3>2
    <2>2. /\ new \in [Sections -> Grants]
          /\ \A k \in Sections : new[k] = IF q.wants[k] = q.was[k] THEN overrides[u][k]
                                          ELSE q.wants[k]
      <3>1. overrides[u] \in [Sections -> Grants]
        BY <1>0, <2>1
      <3> QED
        BY <2>1, <3>1 DEF FlushGrants
    <2> HIDE DEF new
    <2>3. /\ overrides' \in [Users -> [Sections -> Grants]]
          /\ \A v \in Users : v # u => overrides'[v] = overrides[v]
          /\ overrides'[u] = new
      BY <1>0, <2>1, <2>2
    <2>4. OverridesHaveOwners'
      BY <1>0, <2>1, <2>2, <2>3 DEF OverridesHaveOwners, Present
    <2>5. NamesAreUnique' /\ EverySectionIsSeeded'
      BY <1>0, <2>1 DEF NamesAreUnique, EverySectionIsSeeded, Present
    <2> QED
      BY <1>0, <1>3, <2>1, <2>3, <2>4, <2>5
  <1> QED
    BY <1>4, <1>5, <1>6, <1>7, <1>8, <1>9 DEF Commit

------------------------------------------------------------------------------
(* The theorems. *)

(* The invariant holds in an installation as the scripts leave it. *)
LEMMA PermissionsInit == Init => Inductive
  <1> SUFFICES ASSUME Init PROVE Inductive
    OBVIOUS
  <1>1. NoUser \in UserRow /\ RootRow \in UserRow /\ NoSection \in SectionRow
    BY DEF NoUser, RootRow, UserRow, NoSection, SectionRow, Roles, Ranked
  <1>2. \A minRole \in MinRoles : NewSection(minRole) \in SectionRow
    BY DEF NewSection, SectionRow
  <1>3. users \in [Users -> UserRow] /\ sections \in [Sections -> SectionRow]
    BY <1>1, <1>2 DEF Init
  <1>4. \A s \in Sections : sections[s].minRole \in Roles
    BY <1>3 DEF SectionRow
  <1>5. /\ defaults \in [Sections -> [Roles -> Grants]]
        /\ \A s \in Sections : sections[s].present
             => \A role \in Ranked : defaults[s][role] # "none"
    BY <1>4, SeededDefaults DEF Init, Grants
  <1>6. /\ overrides \in [Users -> [Sections -> Grants]]
        /\ \A u \in Users, s \in Sections : overrides[u][s] = "none"
    BY DEF Init, NoOverride, Grants
  <1>7. \A r \in Requests : RequestTypeOK(r)
    BY <1>1 DEF Init, RequestTypeOK, Waiting, Steps
  <1>8. TypeOK
    BY <1>3, <1>5, <1>6, <1>7 DEF Init, TypeOK
  <1>9. OverridesHaveOwners /\ EverySectionIsSeeded
    BY <1>5, <1>6 DEF OverridesHaveOwners, EverySectionIsSeeded
  <1>10. NamesAreUnique
    BY DEF Init, NamesAreUnique
  <1> QED
    BY <1>8, <1>9, <1>10 DEF Inductive, Tables

(* Every step keeps it. *)
LEMMA PermissionsStep == Inductive /\ [Next]_vars => Inductive'
  <1> SUFFICES ASSUME Inductive, [Next]_vars PROVE Inductive'
    OBVIOUS
  <1>1. CASE UNCHANGED vars
    <2>1. TypeOK'
      BY <1>1 DEF Inductive, TypeOK, RequestTypeOK, vars
    <2>2. Tables'
      BY <1>1 DEF Inductive, Tables, OverridesHaveOwners, NamesAreUnique,
                  EverySectionIsSeeded, Present, vars
    <2> QED
      BY <2>1, <2>2 DEF Inductive
  <1>2. ASSUME NEW r \in Requests, Fail(r)
        PROVE  Inductive'
    BY <1>2, EndedCall, TablesStay DEF Fail, Inductive, TypeOK
  <1> QED
    BY <1>1, <1>2, LookingKeeps, CommitKeeps DEF Next

(* The tables stay typed, and sound, however the calls overlap. *)
LEMMA PermissionsInvariant == Spec => []Inductive
  BY PermissionsInit, PermissionsStep, PTL DEF Spec

(* Tables and calls keep their types. *)
THEOREM PermissionTypes == Spec => []TypeOK
  <1>1. Inductive => TypeOK
    BY DEF Inductive
  <1> QED
    BY <1>1, PermissionsInvariant, PTL

(* No override outlives its account or precedes its section. *)
THEOREM OverridesOwned == Spec => []OverridesHaveOwners
  <1>1. Inductive => OverridesHaveOwners
    BY DEF Inductive, Tables
  <1> QED
    BY <1>1, PermissionsInvariant, PTL

(* No two rows hold one name or one key. *)
THEOREM NamesUnique == Spec => []NamesAreUnique
  <1>1. Inductive => NamesAreUnique
    BY DEF Inductive, Tables
  <1> QED
    BY <1>1, PermissionsInvariant, PTL

(* Every section has the defaults of the four roles, whatever the bulk     *)
(* requests changed.                                                       *)
THEOREM SectionsSeeded == Spec => []EverySectionIsSeeded
  <1>1. Inductive => EverySectionIsSeeded
    BY DEF Inductive, Tables
  <1> QED
    BY <1>1, PermissionsInvariant, PTL

(* Names and keys are unique, overrides have owners and sections have      *)
(* defaults, whatever overlaps.                                            *)
THEOREM TablesAlwaysAgree == Spec => []TablesAgree
  BY NamesUnique, OverridesOwned, SectionsSeeded, PTL DEF TablesAgree

(* For accounts of the hierarchy min_role is never what decides. *)
THEOREM MinRoleSeedsOnly == Spec => []MinRoleOnlySeeds
  <1>1. Inductive => MinRoleOnlySeeds
    <2> SUFFICES ASSUME Inductive, NEW u \in Users, NEW s \in Sections,
                        users[u].role \in Ranked, sections[s].present
                 PROVE  Source(u, s) \notin {"min_role", "denied"}
      BY DEF MinRoleOnlySeeds
    <2>1. defaults[s][users[u].role] # "none"
      BY DEF Inductive, Tables, EverySectionIsSeeded
    <2>2. CASE IsSuper(users[u])
      BY <2>2 DEF Source
    <2>3. CASE ~IsSuper(users[u]) /\ overrides[u][s] # "none"
      BY <2>3 DEF Source
    <2>4. CASE ~IsSuper(users[u]) /\ overrides[u][s] = "none"
      BY <2>1, <2>4 DEF Source
    <2> QED
      BY <2>2, <2>3, <2>4
  <1> QED
    BY <1>1, PermissionsInvariant, PTL

(* The menu and the guard give every account the same answer for every     *)
(* section of its modules: no two rows have the key, so that both decide   *)
(* on the same row.                                                        *)
THEOREM MenuAndGuardAgree == Spec => []MenuAgreesWithGuard
  <1>1. Inductive => MenuAgreesWithGuard
    <2> SUFFICES ASSUME Inductive, NEW u \in Users, NEW s \in Sections, sections[s].present
                 PROVE  (SectionKey[s] \in GrantedKeys(u))
                          = (ModuleOf[s] \in EnabledModules(users[u])
                             /\ CanAccess(u, SectionKey[s]))
      BY DEF MenuAgreesWithGuard
    <2>1. \A t \in Sections : sections[t].present /\ SectionKey[t] = SectionKey[s] => t = s
      BY DEF Inductive, Tables, NamesAreUnique
    <2>2. SectionKey[s] \in GrantedKeys(u)
            <=> sections[s].active /\ ModuleOf[s] \in EnabledModules(users[u])
                /\ IsGranted(u, s)
      BY <2>1 DEF GrantedKeys, Listed
    <2>3. CanAccess(u, SectionKey[s]) <=> sections[s].active /\ IsGranted(u, s)
      BY <2>1 DEF CanAccess
    <2>4. (SectionKey[s] \in GrantedKeys(u)) \in BOOLEAN /\ CanAccess(u, SectionKey[s]) \in BOOLEAN
      BY DEF CanAccess
    <2> QED
      BY <2>2, <2>3, <2>4
  <1> QED
    BY <1>1, PermissionsInvariant, PTL

(* What a commit over an account touches was asked for by its call. *)
THEOREM OtherColumnsKept == Spec => OtherColumnsStay
  <1>1. ASSUME Inductive, [Next]_vars, NEW u \in Users, Present(u),
               users'[u].state = "present",
               NEW column \in {"role", "active", "modules"},
               users'[u][column] # users[u][column]
        PROVE  \E r \in Requests : Asks(r, u, column)
    <2>0. TypeOK /\ users \in [Users -> UserRow]
      BY <1>1 DEF Inductive, TypeOK
    <2>1. ASSUME NEW r \in Requests, CommitUpdateUser(r)
          PROVE  Asks(r, u, column)
      <3> DEFINE q == request[r]
      <3>1. /\ q.about \in Users /\ q.was \in UserRow /\ q.wants \in UserRow
            /\ q.pc = "update_user"
            /\ users' = [users EXCEPT ![q.about] =
                           FlushUser(users[q.about], q.was, q.wants)]
        BY <2>0, <2>1 DEF CommitUpdateUser, TypeOK, RequestTypeOK
      <3>2. u = q.about
        BY <1>1, <2>0, <3>1
      <3>3. users'[u] = FlushUser(users[u], q.was, q.wants) /\ users[u] \in UserRow
        BY <2>0, <3>1, <3>2
      <3>4. q.was[column] # q.wants[column]
        <4>1. CASE column = "role"
          BY <1>1, <3>1, <3>3, <4>1, FlushedUser
        <4>2. CASE column = "active"
          BY <1>1, <3>1, <3>3, <4>2, FlushedUser
        <4>3. CASE column = "modules"
          BY <1>1, <3>1, <3>3, <4>3, FlushedUser
        <4> QED
          BY <4>1, <4>2, <4>3
      <3> QED
        BY <3>1, <3>2, <3>4 DEF Asks
    <2>2. ASSUME NEW r \in Requests, CommitCreateUser(r) \/ CommitDeleteUser(r)
          PROVE  FALSE
      <3>1. request[r].about \in Users
        BY <2>0, <2>2 DEF CommitCreateUser, CommitDeleteUser, TypeOK, RequestTypeOK
      <3>2. CASE CommitCreateUser(r)
        <4>1. u # request[r].about
          BY <1>1, <3>2 DEF CommitCreateUser, Present
        <4> QED
          BY <1>1, <2>0, <3>2, <4>1 DEF CommitCreateUser
      <3>3. CASE CommitDeleteUser(r)
        <4>1. users' = [users EXCEPT ![request[r].about].state = "gone"]
          BY <3>3 DEF CommitDeleteUser
        <4>2. u # request[r].about
          BY <1>1, <2>0, <3>1, <4>1 DEF UserRow
        <4> QED
          BY <1>1, <2>0, <4>1, <4>2
      <3> QED
        BY <2>2, <3>2, <3>3
    <2>3. ~TablesUntouched /\ users' # users
      BY <1>1 DEF TablesUntouched
    <2>4. PICK r \in Requests : Commit(r)
      BY <1>1, <2>3 DEF Next, Admit, Look, Script, Fail, LookCreateUser, LookUpdateUser,
        LookPatchModules, LookDeleteUser, LookCreateSection, LookUpdateSection,
        LookDefaults, LookOverrides, LookOverrideToDrop, BootstrapAdmin,
        BootstrapSection, Looking, vars
    <2> QED
      BY <2>1, <2>2, <2>3, <2>4 DEF Commit, CommitCreateSection, CommitUpdateSection,
        CommitDefaults, CommitOverrides, CommitDrop
  <1>2. Inductive /\ [Next]_vars
          => [\A u \in Users : Present(u) /\ users'[u].state = "present"
                => \A column \in {"role", "active", "modules"} :
                     users'[u][column] # users[u][column]
                       => \E r \in Requests : Asks(r, u, column)]_vars
    BY <1>1
  <1> QED
    BY <1>2, PermissionsInvariant, PTL DEF Spec, OtherColumnsStay

(* A bulk of overrides is written whole or not at all. *)
THEOREM OverridesTogether == Spec => OverridesLandTogether
  <1>1. ASSUME Inductive, [Next]_vars, NEW u \in Users, overrides'[u] # overrides[u],
               users'[u].state = "present"
        PROVE  \E r \in Requests :
                 /\ request[r].pc \in {"set_overrides", "drop_override"}
                 /\ request[r].about = u
                 /\ \A s \in Sections : request[r].wants[s] # request[r].was[s]
                      => overrides'[u][s] = request[r].wants[s]
    <2>0. /\ TypeOK /\ users \in [Users -> UserRow]
          /\ overrides \in [Users -> [Sections -> Grants]]
      BY <1>1 DEF Inductive, TypeOK
    <2>1. ~TablesUntouched /\ overrides' # overrides
      BY <1>1 DEF TablesUntouched
    <2>2. PICK r \in Requests : Commit(r)
      BY <1>1, <2>1 DEF Next, Admit, Look, Script, Fail, LookCreateUser, LookUpdateUser,
        LookPatchModules, LookDeleteUser, LookCreateSection, LookUpdateSection,
        LookDefaults, LookOverrides, LookOverrideToDrop, BootstrapAdmin,
        BootstrapSection, Looking, vars
    <2> DEFINE q == request[r]
    <2>3. ~CommitDeleteUser(r)
      <3> SUFFICES ASSUME CommitDeleteUser(r) PROVE FALSE
        OBVIOUS
      <3>1. /\ users' = [users EXCEPT ![q.about].state = "gone"]
            /\ overrides' = [overrides EXCEPT ![q.about] = NoOverride]
            /\ q.about \in Users
        BY <2>0 DEF CommitDeleteUser, TypeOK, RequestTypeOK
      <3>2. u = q.about
        BY <1>1, <2>0, <3>1
      <3> QED
        BY <1>1, <2>0, <3>1, <3>2 DEF UserRow
    <2>4. CommitOverrides(r) \/ CommitDrop(r)
      BY <2>1, <2>2, <2>3 DEF Commit, CommitCreateUser, CommitUpdateUser,
        CommitCreateSection, CommitUpdateSection, CommitDefaults
    <2>5. /\ q.pc \in {"set_overrides", "drop_override"} /\ q.about \in Users
          /\ overrides' = [overrides EXCEPT ![q.about] =
                             FlushGrants(overrides[q.about], q.was, q.wants)]
      BY <2>0, <2>4 DEF CommitOverrides, CommitDrop, TypeOK, RequestTypeOK
    <2>6. u = q.about
      BY <1>1, <2>0, <2>5
    <2>7. overrides'[u] = FlushGrants(overrides[u], q.was, q.wants)
          /\ overrides[u] \in [Sections -> Grants]
      BY <2>0, <2>5, <2>6
    <2>8. \A s \in Sections : q.wants[s] # q.was[s] => overrides'[u][s] = q.wants[s]
      BY <2>7 DEF FlushGrants
    <2> QED
      BY <2>5, <2>6, <2>8
  <1>2. Inductive /\ [Next]_vars
          => [\A u \in Users : overrides'[u] # overrides[u] /\ users'[u].state = "present"
                => \E r \in Requests :
                     /\ request[r].pc \in {"set_overrides", "drop_override"}
                     /\ request[r].about = u
                     /\ \A s \in Sections : request[r].wants[s] # request[r].was[s]
                          => overrides'[u][s] = request[r].wants[s]]_vars
    BY <1>1
  <1> QED
    BY <1>2, PermissionsInvariant, PTL DEF Spec, OverridesLandTogether
==============================================================================
