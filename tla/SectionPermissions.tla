-------------------------- MODULE SectionPermissions --------------------------
(***************************************************************************)
(* The accounts of the application, the sections of its interface, and who *)
(* may open which: the tables application_users, sections,                 *)
(* role_section_permissions and user_section_permissions, the calls that   *)
(* administer them (routes/admin_users.py, routes/section_permissions.py)  *)
(* and the two bootstrap scripts, and the two readers that answer from     *)
(* them, GET /auth/my-permissions and the dependency require_section.      *)
(*                                                                         *)
(* A call reads its author (api/deps.py), then what it is about, then      *)
(* commits: three steps of one READ COMMITTED transaction that locks       *)
(* nothing it reads, so that any other call may commit between them.  The  *)
(* ORM writes the columns whose value the call changed from the one it     *)
(* read.                                                                   *)
(*                                                                         *)
(* Abstracted away: e-mail addresses, passwords and tokens (any active     *)
(* account may hold one; the role and the modules a token carries are      *)
(* never read back), labels, sort order, who granted what and when.  The   *)
(* look-ups of one bulk request are one step.                              *)
(***************************************************************************)
EXTENDS Naturals

CONSTANTS
  Users,        \* application_users rows that may come to exist
  Username,     \* the name of each row
  Root,         \* the name in BOOTSTRAP_ADMIN_USERNAME
  Sections,     \* sections rows that may come to exist
  SectionKey,   \* the key of each row
  ModuleOf,     \* the module of each row
  Modules,      \* the modules of the platform
  OtherRoles,   \* role names outside the hierarchy (the column is free text)
  Forms,        \* what the calls on accounts submit
  MinRoles,     \* min_role values the calls on sections submit
  BulkRoles,    \* roles the bulk requests on a section name
  Requests,     \* threads serving a call or running a script
  None,
  MaxRequests   \* bound: calls begun in one behaviour

VARIABLES
  users,        \* application_users
  sections,     \* sections
  defaults,     \* role_section_permissions
  overrides,    \* user_section_permissions
  request,      \* per thread: the call it serves and what it has read
  begun         \* calls begun so far

vars == <<users, sections, defaults, overrides, request, begun>>

Ranked == {"viewer", "reviewer", "admin", "super_admin"}
Roles == Ranked \cup OtherRoles
Grants == {"granted", "denied", "none"}     \* "none": there is no such row

UserRow == [state : {"free", "present", "gone"},
            role : Roles, active : BOOLEAN, modules : SUBSET Modules]
SectionRow == [present : BOOLEAN, active : BOOLEAN, minRole : Roles]

ASSUME PermissionsAssumption ==
  /\ None \notin Users \cup Sections
  /\ ModuleOf \in [Sections -> Modules]
  /\ "accessi" \in Modules
  /\ OtherRoles \cap Ranked = {}
  /\ Forms \subseteq {row \in UserRow : row.state = "present"}
  /\ MinRoles \subseteq Roles
  /\ BulkRoles \subseteq Roles
  /\ MaxRequests \in Nat

Present(u) == users[u].state = "present"
NameTaken(name) == \E u \in Users : Present(u) /\ Username[u] = name
KeyTaken(key) == \E s \in Sections : sections[s].present /\ SectionKey[s] = key

------------------------------------------------------------------------------
(* services/permission_resolver.py, over the tables of one moment. *)

Rank == [r \in Roles |-> CASE r = "viewer" -> 1
                           [] r = "reviewer" -> 2
                           [] r = "admin" -> 3
                           [] r = "super_admin" -> 4
                           [] OTHER -> 0]
MinRank(r) == IF r \in Ranked THEN Rank[r] ELSE 999
Reaches(role, minRole) == Rank[role] >= MinRank(minRole)

IsSuper(row) == row.role = "super_admin"
EnabledModules(row) == IF IsSuper(row) THEN Modules ELSE row.modules

(* The rule that settles a section for a user, and what it says. *)
Source(u, s) ==
  CASE IsSuper(users[u]) -> "super_admin"
    [] ~IsSuper(users[u]) /\ overrides[u][s] # "none" -> "user_override"
    [] ~IsSuper(users[u]) /\ overrides[u][s] = "none"
         /\ defaults[s][users[u].role] # "none" -> "role_default"
    [] OTHER -> IF Reaches(users[u].role, sections[s].minRole)
                  THEN "min_role" ELSE "denied"

IsGranted(u, s) ==
  LET source == Source(u, s)
  IN  \/ source \in {"super_admin", "min_role"}
      \/ source = "user_override" /\ overrides[u][s] = "granted"
      \/ source = "role_default" /\ defaults[s][users[u].role] = "granted"

(* GET /auth/my-permissions: the sections listed, and those of granted_keys. *)
Listed(u) == {s \in Sections : /\ sections[s].present /\ sections[s].active
                               /\ ModuleOf[s] \in EnabledModules(users[u])}
GrantedKeys(u) == {SectionKey[s] : s \in {x \in Listed(u) : IsGranted(u, x)}}

(* require_section(key), for an account that is logged in. *)
CanAccess_Inactive(u, key) ==
  \E s \in Sections : SectionKey[s] = key /\ sections[s].present /\ IsGranted(u, s)
CanAccess(u, key) == \E s \in Sections : /\ SectionKey[s] = key
                                         /\ sections[s].present /\ sections[s].active
                                         /\ IsGranted(u, s)

------------------------------------------------------------------------------
(* The calls.  "was" is what a call read of the rows it is about, "wants"  *)
(* what it sets them to; a column set to the value it had is not written.  *)

NoSection == [present |-> FALSE, active |-> FALSE, minRole |-> "admin"]
NewSection(minRole) == [present |-> TRUE, active |-> TRUE, minRole |-> minRole]
NoUser == [state |-> "free", role |-> "viewer", active |-> FALSE, modules |-> {}]
Waiting == [pc |-> "idle", author |-> None, as |-> NoUser, about |-> None,
            was |-> None, wants |-> None]

Steps == {"idle", "admitted", "create_user", "update_user", "delete_user",
          "create_section", "update_section", "set_defaults", "set_overrides",
          "drop_override"}

Reads(r, op, about, was, wants) ==
  request' = [request EXCEPT ![r] = [@ EXCEPT !.pc = op, !.about = about,
                                              !.was = was, !.wants = wants]]
Ends(r) == request' = [request EXCEPT ![r] = Waiting]

TablesUntouched == UNCHANGED <<users, sections, defaults, overrides>>
Looking == TablesUntouched /\ UNCHANGED begun

(* get_current_user, require_active_user and the role guard that every     *)
(* changing call has at least: super_admin or admin.                       *)
Admit(r, u) ==
  /\ request[r].pc = "idle"
  /\ begun < MaxRequests
  /\ Present(u) /\ users[u].active
  /\ users[u].role \in {"super_admin", "admin"}
  /\ request' = [request EXCEPT ![r] = [@ EXCEPT !.pc = "admitted", !.author = u,
                                                 !.as = users[u]]]
  /\ begun' = begun + 1
  /\ TablesUntouched

BySuper(r) == IsSuper(request[r].as)
InAccessi(r) == "accessi" \in EnabledModules(request[r].as)

(* The session keeps one object per row: a call about its own author finds *)
(* the row as it was when the author was read.                             *)
RowSeen(r, u) == IF u = request[r].author THEN request[r].as ELSE users[u]

LookCreateUser(r, u, row) ==
  /\ request[r].pc = "admitted"
  /\ InAccessi(r)
  /\ IsSuper(row) => BySuper(r)
  /\ users[u].state = "free" /\ ~NameTaken(Username[u])
  /\ Reads(r, "create_user", u, NoUser, row)
  /\ Looking

(* PUT /admin/users/{id}. *)
LookUpdateUser(r, u, row) ==
  /\ request[r].pc = "admitted"
  /\ InAccessi(r)
  /\ Present(u)
  /\ IsSuper(RowSeen(r, u)) => BySuper(r)
  /\ Reads(r, "update_user", u, RowSeen(r, u), row)
  /\ Looking

(* PATCH /admin/users/{id}/modules. *)
LookPatchModules(r, u, enabled) ==
  /\ request[r].pc = "admitted"
  /\ InAccessi(r)
  /\ Present(u)
  /\ Reads(r, "update_user", u, RowSeen(r, u),
           [RowSeen(r, u) EXCEPT !.modules = enabled])
  /\ Looking

LookDeleteUser(r, u) ==
  /\ request[r].pc = "admitted"
  /\ BySuper(r)
  /\ u # request[r].author
  /\ Present(u)
  /\ Reads(r, "delete_user", u, users[u], None)
  /\ Looking

LookCreateSection(r, s, minRole) ==
  /\ request[r].pc = "admitted"
  /\ BySuper(r)
  /\ ~sections[s].present /\ ~KeyTaken(SectionKey[s])
  /\ Reads(r, "create_section", s, sections[s], NewSection(minRole))
  /\ Looking

(* PUT and DELETE /sections/{id}; the latter sets is_active to false. *)
LookUpdateSection(r, s, row) ==
  /\ request[r].pc = "admitted"
  /\ BySuper(r)
  /\ sections[s].present
  /\ Reads(r, "update_section", s, sections[s], row)
  /\ Looking

(* A bulk request names some rows of its table and gives each a value. *)
BulkOver(was, wants) ==
  /\ wants # was
  /\ \A k \in DOMAIN was : wants[k] = "none" => was[k] = "none"

LookDefaults(r, s, named) ==
  LET wants == [role \in Roles |-> IF role \in BulkRoles THEN named[role]
                                   ELSE defaults[s][role]]
  IN  /\ request[r].pc = "admitted"
      /\ BySuper(r)
      /\ BulkOver(defaults[s], wants)
      /\ Reads(r, "set_defaults", s, defaults[s], wants)
      /\ Looking

LookOverrides(r, u, wants) ==
  /\ request[r].pc = "admitted"
  /\ Present(u)
  /\ BySuper(r) \/ RowSeen(r, u).role \notin {"super_admin", "admin"}
  /\ BulkOver(overrides[u], wants)
  /\ Reads(r, "set_overrides", u, overrides[u], wants)
  /\ Looking

LookOverrideToDrop(r, u, s) ==
  /\ request[r].pc = "admitted"
  /\ overrides[u][s] # "none"
  /\ Reads(r, "drop_override", u, overrides[u], [overrides[u] EXCEPT ![s] = "none"])
  /\ Looking

(* The scripts need no author.  ensure_bootstrap_admin looks its row up by *)
(* name, and updates or inserts it.                                        *)
RootRow == [state |-> "present", role |-> "super_admin", active |-> TRUE,
            modules |-> Modules]

BootstrapAdmin(r, u) ==
  /\ request[r].pc = "idle"
  /\ begun < MaxRequests /\ begun' = begun + 1
  /\ Username[u] = Root
  /\ \/ Present(u) /\ Reads(r, "update_user", u, users[u], RootRow)
     \/ /\ ~NameTaken(Root) /\ users[u].state = "free"
        /\ Reads(r, "create_user", u, NoUser, RootRow)
  /\ TablesUntouched

(* bootstrap_sections creates the sections of its list it does not find,   *)
(* each in a transaction of its own.                                       *)
BootstrapSection(r, s, minRole) ==
  /\ request[r].pc = "idle"
  /\ begun < MaxRequests /\ begun' = begun + 1
  /\ ~sections[s].present /\ ~KeyTaken(SectionKey[s])
  /\ Reads(r, "create_section", s, sections[s], NewSection(minRole))
  /\ TablesUntouched

------------------------------------------------------------------------------
(* The commits.  One that a constraint of the database refuses, or that    *)
(* finds no row where it read one, changes nothing: the call fails.        *)

FlushUser_WholeRow(current, was, wants) == wants
FlushUser(current, was, wants) ==
  [state   |-> current.state,
   role    |-> IF wants.role = was.role THEN current.role ELSE wants.role,
   active  |-> IF wants.active = was.active THEN current.active ELSE wants.active,
   modules |-> {m \in Modules : IF (m \in wants.modules) = (m \in was.modules)
                                  THEN m \in current.modules ELSE m \in wants.modules}]

FlushSection_WritesUnset(current, was, wants) ==
  [present |-> current.present, active |-> wants.active,
   minRole |-> IF wants.minRole = was.minRole THEN None ELSE wants.minRole]
FlushSection(current, was, wants) ==
  [present |-> current.present,
   active  |-> IF wants.active = was.active THEN current.active ELSE wants.active,
   minRole |-> IF wants.minRole = was.minRole THEN current.minRole ELSE wants.minRole]

(* Rows of a bulk: an insert needs the row absent, an update needs it there. *)
Applies(current, was, wants) ==
  \A k \in DOMAIN wants : wants[k] # was[k]
                            => (was[k] = "none") = (current[k] = "none")
FlushGrants(current, was, wants) ==
  [k \in DOMAIN current |-> IF wants[k] = was[k] THEN current[k] ELSE wants[k]]

SeedRoleDefaults(minRole) ==
  [role \in Roles |-> IF role \notin Ranked THEN "none"
                      ELSE IF role = "super_admin" \/ Reaches(role, minRole)
                        THEN "granted" ELSE "denied"]

NoOverride == [s \in Sections |-> "none"]

CommitCreateUser(r) ==
  LET u == request[r].about
  IN  /\ request[r].pc = "create_user"
      /\ users[u].state = "free" /\ ~NameTaken(Username[u])
      /\ users' = [users EXCEPT ![u] = request[r].wants]
      /\ Ends(r)
      /\ UNCHANGED <<sections, defaults, overrides, begun>>

CommitUpdateUser(r) ==
  LET u == request[r].about
  IN  /\ request[r].pc = "update_user"
      /\ Present(u)
      /\ users' = [users EXCEPT ![u] = FlushUser(@, request[r].was, request[r].wants)]
      /\ Ends(r)
      /\ UNCHANGED <<sections, defaults, overrides, begun>>

(* The overrides of the account go with it (ON DELETE CASCADE). *)
CommitDeleteUser(r) ==
  LET u == request[r].about
  IN  /\ request[r].pc = "delete_user"
      /\ Present(u)
      /\ users' = [users EXCEPT ![u].state = "gone"]
      /\ overrides' = [overrides EXCEPT ![u] = NoOverride]
      /\ Ends(r)
      /\ UNCHANGED <<sections, defaults, begun>>

CommitCreateSection_SeedsLater(r) ==
  LET s == request[r].about
  IN  /\ request[r].pc = "create_section"
      /\ ~sections[s].present /\ ~KeyTaken(SectionKey[s])
      /\ sections' = [sections EXCEPT ![s] = request[r].wants]
      /\ Ends(r)
      /\ UNCHANGED <<users, defaults, overrides, begun>>

CommitCreateSection(r) ==
  LET s == request[r].about
  IN  /\ request[r].pc = "create_section"
      /\ ~sections[s].present /\ ~KeyTaken(SectionKey[s])
      /\ sections' = [sections EXCEPT ![s] = request[r].wants]
      /\ defaults' = [defaults EXCEPT ![s] = SeedRoleDefaults(request[r].wants.minRole)]
      /\ Ends(r)
      /\ UNCHANGED <<users, overrides, begun>>

CommitUpdateSection(r) ==
  LET s == request[r].about
  IN  /\ request[r].pc = "update_section"
      /\ sections' = [sections EXCEPT ![s] = FlushSection(@, request[r].was,
                                                             request[r].wants)]
      /\ Ends(r)
      /\ UNCHANGED <<users, defaults, overrides, begun>>

CommitDefaults(r) ==
  LET s == request[r].about
  IN  /\ request[r].pc = "set_defaults"
      /\ sections[s].present
      /\ Applies(defaults[s], request[r].was, request[r].wants)
      /\ defaults' = [defaults EXCEPT ![s] = FlushGrants(@, request[r].was,
                                                            request[r].wants)]
      /\ Ends(r)
      /\ UNCHANGED <<users, sections, overrides, begun>>

(* Both foreign keys of an inserted row are checked. *)
OverridesAllowed(r) ==
  LET u == request[r].about
  IN  /\ Present(u)
      /\ Applies(overrides[u], request[r].was, request[r].wants)
      /\ \A s \in Sections : request[r].wants[s] # request[r].was[s]
                               => sections[s].present

CommitOverrides(r) ==
  LET u == request[r].about
  IN  /\ request[r].pc = "set_overrides"
      /\ OverridesAllowed(r)
      /\ overrides' = [overrides EXCEPT ![u] = FlushGrants(@, request[r].was,
                                                              request[r].wants)]
      /\ Ends(r)
      /\ UNCHANGED <<users, sections, defaults, begun>>

(* A DELETE that finds the row gone already is no error. *)
CommitDrop(r) ==
  LET u == request[r].about
  IN  /\ request[r].pc = "drop_override"
      /\ overrides' = [overrides EXCEPT ![u] = FlushGrants(@, request[r].was,
                                                              request[r].wants)]
      /\ Ends(r)
      /\ UNCHANGED <<users, sections, defaults, begun>>

(* Refused by a guard (401, 403, 404, 409), by the database, or the        *)
(* connection lost before the commit.                                      *)
Fail(r) ==
  /\ request[r].pc # "idle"
  /\ Ends(r)
  /\ TablesUntouched /\ UNCHANGED begun

------------------------------------------------------------------------------
(* An installation as the bootstrap scripts leave it, and then as its      *)
(* administrators made it: an account for the bootstrap administrator,     *)
(* others of any role, some sections seeded.                               *)
Init ==
  /\ users \in [Users -> Forms \cup {RootRow, NoUser}]
  /\ \A u, v \in Users : Present(u) /\ Present(v) /\ Username[u] = Username[v] => u = v
  /\ \A u \in Users : users[u] = RootRow <=> Username[u] = Root
  /\ sections \in [Sections -> {NewSection(minRole) : minRole \in MinRoles}
                                 \cup {NoSection}]
  /\ \A s, t \in Sections : sections[s].present /\ sections[t].present
                              /\ SectionKey[s] = SectionKey[t] => s = t
  /\ defaults = [s \in Sections |->
                   IF sections[s].present THEN SeedRoleDefaults(sections[s].minRole)
                   ELSE [role \in Roles |-> "none"]]
  /\ overrides = [u \in Users |-> NoOverride]
  /\ request = [r \in Requests |-> Waiting]
  /\ begun = 0

Look(r) ==
  \/ \E u \in Users, row \in Forms : LookCreateUser(r, u, row)
  \/ \E u \in Users, row \in Forms : LookUpdateUser(r, u, row)
  \/ \E u \in Users, enabled \in SUBSET Modules : LookPatchModules(r, u, enabled)
  \/ \E u \in Users : LookDeleteUser(r, u)
  \/ \E s \in Sections, minRole \in MinRoles : LookCreateSection(r, s, minRole)
  \/ \E s \in Sections, active \in BOOLEAN, minRole \in MinRoles :
       LookUpdateSection(r, s, [present |-> TRUE, active |-> active, minRole |-> minRole])
  \/ \E s \in Sections, named \in [BulkRoles -> Grants] : LookDefaults(r, s, named)
  \/ \E u \in Users, wants \in [Sections -> Grants] : LookOverrides(r, u, wants)
  \/ \E u \in Users, s \in Sections : LookOverrideToDrop(r, u, s)

Script(r) ==
  \/ \E u \in Users : BootstrapAdmin(r, u)
  \/ \E s \in Sections, minRole \in MinRoles : BootstrapSection(r, s, minRole)

Commit(r) ==
  \/ CommitCreateUser(r)
  \/ CommitUpdateUser(r)
  \/ CommitDeleteUser(r)
  \/ CommitCreateSection(r)
  \/ CommitUpdateSection(r)
  \/ CommitDefaults(r)
  \/ CommitOverrides(r)
  \/ CommitDrop(r)

Next ==
  \E r \in Requests :
    \/ \E u \in Users : Admit(r, u)
    \/ Look(r) \/ Script(r) \/ Commit(r) \/ Fail(r)

Spec == Init /\ [][Next]_vars

------------------------------------------------------------------------------
RequestTypeOK(r) ==
  LET q == request[r]
  IN  /\ DOMAIN q = DOMAIN Waiting
      /\ q.pc \in Steps
      /\ q.author \in Users \cup {None} /\ q.as \in UserRow
      /\ q.author # None => q.as.state = "present"
      /\ q.pc \in {"idle", "admitted"} => q.about = None
      /\ q.pc \in {"create_user", "update_user"}
           => /\ q.about \in Users /\ q.was \in UserRow
              /\ q.wants \in UserRow /\ q.wants.state = "present"
      /\ q.pc = "delete_user" => q.about \in Users
      /\ q.pc \in {"create_section", "update_section"}
           => /\ q.about \in Sections /\ q.was \in SectionRow
              /\ q.wants \in SectionRow /\ q.wants.present
      /\ q.pc = "set_defaults" => /\ q.about \in Sections
                                  /\ q.was \in [Roles -> Grants]
                                  /\ q.wants \in [Roles -> Grants]
                                  /\ BulkOver(q.was, q.wants)
      /\ q.pc \in {"set_overrides", "drop_override"}
           => /\ q.about \in Users
              /\ q.was \in [Sections -> Grants] /\ q.wants \in [Sections -> Grants]
      /\ q.pc = "set_overrides" => BulkOver(q.was, q.wants)
      /\ q.pc = "drop_override"
           => \A s \in Sections : q.wants[s] # q.was[s] => q.wants[s] = "none"

(* The tables and the calls are of the types the code gives them. *)
TypeOK ==
  /\ users \in [Users -> UserRow]
  /\ sections \in [Sections -> SectionRow]
  /\ defaults \in [Sections -> [Roles -> Grants]]
  /\ overrides \in [Users -> [Sections -> Grants]]
  /\ DOMAIN request = Requests
  /\ \A r \in Requests : RequestTypeOK(r)
  /\ begun \in 0 .. MaxRequests

(* No override outlives its account or precedes its section, even when the *)
(* account is deleted between the look-up and the commit of a call that    *)
(* grants it something.                                                    *)
OverridesHaveOwners ==
  \A u \in Users, s \in Sections :
    overrides[u][s] # "none" => Present(u) /\ sections[s].present

(* The look-up that answers 409 comes before the insert, and another call  *)
(* or script may insert in between: still no name and no key is held by    *)
(* two rows, so that the single-row reads of the login and of the guards   *)
(* never meet two.                                                         *)
NamesAreUnique ==
  /\ \A u, v \in Users : Present(u) /\ Present(v) /\ Username[u] = Username[v] => u = v
  /\ \A s, t \in Sections : sections[s].present /\ sections[t].present
                              /\ SectionKey[s] = SectionKey[t] => s = t

(* A section is never seen without the defaults of the four roles: they    *)
(* come in the transaction of the section and no bulk request removes one. *)
EverySectionIsSeeded ==
  \A s \in Sections : sections[s].present
    => \A role \in Ranked : defaults[s][role] # "none"

(* What reads rely on and no call asks again when it commits: single-row   *)
(* reads meet one row, what applies to an account or a section names one   *)
(* that is there, and every section has its defaults, whatever was         *)
(* inserted or deleted between a look-up and its commit.                   *)
TablesAgree == NamesAreUnique /\ OverridesHaveOwners /\ EverySectionIsSeeded

(* For an account with a role of the hierarchy the last two rules of the   *)
(* resolver are never reached: a section is seeded for the four roles when *)
(* it is created, so a later change of min_role changes nobody's access.   *)
MinRoleOnlySeeds ==
  \A u \in Users, s \in Sections :
    Present(u) /\ users[u].role \in Ranked /\ sections[s].present
      => Source(u, s) \notin {"min_role", "denied"}

(* The two readers agree: a key is among granted_keys exactly when the     *)
(* account has the module and require_section would let it in.             *)
MenuAgreesWithGuard ==
  \A u \in Users, s \in Sections :
    Present(u) /\ sections[s].present
      => (SectionKey[s] \in GrantedKeys(u))
           = (ModuleOf[s] \in EnabledModules(users[u]) /\ CanAccess(u, SectionKey[s]))

Asks(r, u, column) ==
  /\ request[r].pc = "update_user" /\ request[r].about = u
  /\ request[r].was[column] # request[r].wants[column]

(* A PUT or PATCH that commits over an account others changed since the    *)
(* call itself read the row writes only the columns in which what was      *)
(* asked differs from what it read.  Nothing is said of what was read      *)
(* before the call: the edit page sends every column of the account it     *)
(* loaded, and what others committed before the call reads the row is then *)
(* a difference the call is asked to make.                                 *)
OtherColumnsStay ==
  [][\A u \in Users : Present(u) /\ users'[u].state = "present"
       => \A column \in {"role", "active", "modules"} :
            users'[u][column] # users[u][column]
              => \E r \in Requests : Asks(r, u, column)]_vars

(* A bulk of overrides takes effect whole or not at all, although its rows *)
(* were looked up one by one before others inserted or removed some.       *)
OverridesLandTogether ==
  [][\A u \in Users : overrides'[u] # overrides[u] /\ users'[u].state = "present"
       => \E r \in Requests :
            /\ request[r].pc \in {"set_overrides", "drop_override"}
            /\ request[r].about = u
            /\ \A s \in Sections : request[r].wants[s] # request[r].was[s]
                 => overrides'[u][s] = request[r].wants[s]]_vars
==============================================================================
