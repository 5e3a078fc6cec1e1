----------------------------- MODULE AdminUsers -----------------------------
(***************************************************************************)
(* The users of the administration, the roles they are assigned on the     *)
(* platform, a legal entity or a business unit, what these allow, and the  *)
(* guard that one active platform administrator remains: it counts before  *)
(* the statement that disables a user or removes a role, not in it.        *)
(***************************************************************************)
EXTENDS Integers, FiniteSets

CONSTANTS
  Users,
  Root,       \* the user the bootstrap names
  Entities,   \* legal_entities
  Units,      \* business_units
  EntityOf,   \* the legal entity of a unit
  Platform,   \* what a role of the platform is assigned on
  Removals,   \* requests that disable a user or remove a role
  MaxAssigned,\* bound: assignments at a time
  None

VARIABLES
  user,       \* users.status
  assigned,   \* user_role_assignments: user, role, target
  removal,    \* requests under way that have passed the guard
  raced       \* history: whether two of these overlapped

vars == <<user, assigned, removal, raced>>

\* The users are counted; a unit belongs to an entity, and the platform is neither.
ASSUME UsersAssumption == IsFiniteSet(Users) /\ Root \in Users
ASSUME TargetsAssumption ==
  /\ EntityOf \in [Units -> Entities]
  /\ Entities \intersect Units = {} /\ Platform \notin Entities \union Units

Scope ==
  [platform_admin |-> "platform", entity_admin |-> "legal_entity", business_admin |-> "business_unit"]

Permissions ==
  [platform_admin |-> {"users.read", "users.write", "roles.read"}, entity_admin |-> {"users.read", "users.write", "roles.read"},
   business_admin |-> {"users.read"}]

Roles == DOMAIN Scope

\* authorizeAssignment and the trigger on the table allow no other target.
Targets(role) ==
  CASE Scope[role] = "platform" -> {Platform}
    [] Scope[role] = "legal_entity" -> Entities
    [] OTHER -> Units

---------------------------------------------------------------------------
(* What roles allow.                                                        *)

Grants(u, permission) == {a \in assigned : a[1] = u /\ permission \in Permissions[a[2]]}

\* An assignment on t holds for t and, on an entity, for its units.
Covers(t, target) == t = Platform \/ t = target \/ (target \in Units /\ t = EntityOf[target])

HasPermission(u, permission, target) ==
  \E a \in Grants(u, permission) : Covers(a[3], target)

\* requireSitePermission, for a site of the given scope and owner
SitePermission(u, permission, scope, owner) ==
  \E a \in Grants(u, permission) :
    \/ a[3] = Platform
    \/ scope = "legal_entity" /\ Scope[a[2]] = "legal_entity" /\ a[3] = owner
    \/ /\ scope = "business_unit"
       /\ \/ Scope[a[2]] = "business_unit" /\ a[3] = owner
          \/ Scope[a[2]] = "legal_entity" /\ a[3] = EntityOf[owner]

\* listVisibleRoleAssignments
VisibleAssignments(actor, u) ==
  {b \in assigned :
     /\ b[1] = u
     /\ \/ HasPermission(actor, "users.read", Platform)
        \/ \E a \in Grants(actor, "users.read") :
             \/ Scope[b[2]] = "legal_entity" /\ Scope[a[2]] = "legal_entity" /\ a[3] = b[3]
             \/ Scope[b[2]] = "business_unit" /\ Scope[a[2]] = "business_unit" /\ a[3] = b[3]
             \/ Scope[b[2]] = "business_unit" /\ Scope[a[2]] = "legal_entity" /\ a[3] = EntityOf[b[3]]}

\* listAccessibleRoles: the scopes of the roles shown to the reader of roles
RoleScopes(actor) ==
  LET scopes == {Scope[a[2]] : a \in Grants(actor, "roles.read")}
  IN  IF "platform" \in scopes THEN {"platform", "legal_entity", "business_unit"}
      ELSE IF "legal_entity" \in scopes THEN {"legal_entity", "business_unit"}
      ELSE IF scopes # {} THEN {"business_unit"} ELSE {}

\* assertUserVisible asks for each role of the actor whether it reaches the user ...
Visible(actor, u, permission) ==
  \E a \in Grants(actor, permission) :
    \/ Scope[a[2]] = "platform" /\ a[3] = Platform
    \/ \E b \in assigned :
         /\ b[1] = u
         /\ \/ Scope[a[2]] = "legal_entity" /\ Covers(a[3], b[3]) /\ b[3] # Platform
            \/ Scope[a[2]] = "business_unit" /\ a[3] = b[3]

AccessibleUsersOfUnit(actor) ==
  LET scopes == {<<Scope[a[2]], a[3]>> : a \in Grants(actor, "users.read")}
  IN  {u \in Users : user[u] # "absent" /\
         ( \/ \E s \in scopes : s[1] = "platform"
           \/ \E b \in assigned, s \in scopes : b[1] = u /\ b[3] = s[2] )}

\* ... and listAccessibleUsers for each user whether a scope of the actor holds it.
AccessibleUsers(actor) ==
  LET scopes == {<<Scope[a[2]], a[3]>> : a \in Grants(actor, "users.read")}
      entities == {s[2] : s \in {t \in scopes : t[1] = "legal_entity"}}
      units == {s[2] : s \in {t \in scopes : t[1] = "business_unit"}}
  IN  {u \in Users : user[u] # "absent" /\
         ( \/ \E s \in scopes : s[1] = "platform"
           \/ \E b \in assigned : b[1] = u /\
                (b[3] \in entities \union units \/ (b[3] \in Units /\ EntityOf[b[3]] \in entities)) )}

---------------------------------------------------------------------------
(* The administration. The caller of a request has a session, so is active. *)

Admins == {u \in Users : user[u] = "active" /\ <<u, "platform_admin", Platform>> \in assigned}
IsAdmin(u) == <<u, "platform_admin", Platform>> \in assigned
May(permission, target) == \E u \in Users : user[u] = "active" /\ HasPermission(u, permission, target)

Init ==
  /\ user = [u \in Users |-> IF u = Root THEN "active" ELSE "absent"]
  /\ assigned = {<<Root, "platform_admin", Platform>>}
  /\ removal = [r \in Removals |-> None]
  /\ raced = FALSE

BootstrapAdmin ==
  /\ user' = [user EXCEPT ![Root] = "active"]
  /\ assigned' = assigned \union {<<Root, "platform_admin", Platform>>}
  /\ UNCHANGED <<removal, raced>>

\* With an initial assignment, permission on its target is enough.
CreateUser(u, role, target) ==
  /\ user[u] = "absent" /\ May("users.write", target)
  /\ role # None => Cardinality(assigned) < MaxAssigned
  /\ user' = [user EXCEPT ![u] = "active"]
  /\ assigned' = IF role = None THEN assigned ELSE assigned \union {<<u, role, target>>}
  /\ UNCHANGED <<removal, raced>>

EnableUser(u) ==
  /\ user[u] # "absent" /\ May("users.write", Platform)
  /\ user' = [user EXCEPT ![u] = "active"]
  /\ UNCHANGED <<assigned, removal, raced>>

AssignRole(u, role, target) ==
  /\ user[u] # "absent" /\ May("users.write", target)
  /\ <<u, role, target>> \notin assigned /\ Cardinality(assigned) < MaxAssigned
  /\ assigned' = assigned \union {<<u, role, target>>}
  /\ UNCHANGED <<user, removal, raced>>

Start(r, what) ==
  /\ removal[r] = None
  /\ removal' = [removal EXCEPT ![r] = what]
  /\ raced' = (raced \/ \E q \in Removals : removal[q] # None)
  /\ UNCHANGED <<user, assigned>>

DisableCheckAny(r, u) ==
  /\ user[u] # "absent" /\ May("users.write", Platform)
  /\ user[u] = "active" => Cardinality(Admins) > 0
  /\ Start(r, [disable |-> TRUE, of |-> <<u, None, None>>])

\* updateUser, up to its statement
DisableCheck(r, u) ==
  /\ user[u] # "absent" /\ May("users.write", Platform)
  /\ user[u] = "active" /\ IsAdmin(u) => Cardinality(Admins) > 1
  /\ Start(r, [disable |-> TRUE, of |-> <<u, None, None>>])

\* removeRoleAssignment, up to its statement
RemoveCheck(r, a) ==
  /\ a \in assigned /\ May("users.write", a[3])
  /\ a[2] = "platform_admin" => Cardinality(Admins) > 1
  /\ Start(r, [disable |-> FALSE, of |-> a])

RemovalWrite(r) ==
  /\ removal[r] # None
  /\ LET q == removal[r] IN
       /\ user' = IF q.disable THEN [user EXCEPT ![q.of[1]] = "disabled"] ELSE user
       /\ assigned' = IF q.disable THEN assigned ELSE assigned \ {q.of}
  /\ removal' = [removal EXCEPT ![r] = None]
  /\ UNCHANGED raced

Next ==
  \/ BootstrapAdmin
  \/ \E u \in Users :
       \/ EnableUser(u)
       \/ CreateUser(u, None, Platform)
       \/ \E role \in Roles : \E target \in Targets(role) :
            CreateUser(u, role, target) \/ AssignRole(u, role, target)
  \/ \E r \in Removals :
       \/ \E u \in Users : DisableCheck(r, u)
       \/ \E a \in assigned : RemoveCheck(r, a)
       \/ RemovalWrite(r)

Spec == Init /\ [][Next]_vars

---------------------------------------------------------------------------
(* Properties.                                                              *)

\* An active platform administrator remains, unless two requests overlapped that
\* each counted the other's user (countActivePlatformAdmins in updateUser and
\* removeRoleAssignment).
AdminRemains == raced \/ Admins # {}

\* Five queries, written differently, decide who may see what, and they agree: the
\* list of users shows those the single lookup admits; the assignments shown are
\* those whose target the actor may read, of roles the actor is shown; and a site
\* admits whom its owner admits (listAccessibleUsers, assertUserVisible,
\* hasPermission, listVisibleRoleAssignments, listAccessibleRoles, requireSitePermission).
ListsAgree ==
  \A actor \in Users :
    /\ AccessibleUsers(actor) = {u \in Users : user[u] # "absent" /\ Visible(actor, u, "users.read")}
    /\ \A b \in assigned :
         /\ (b \in VisibleAssignments(actor, b[1])) = HasPermission(actor, "users.read", b[3])
         /\ b \in VisibleAssignments(actor, b[1]) =>
              /\ b[1] \in AccessibleUsers(actor)
              /\ RoleScopes(actor) # {} => Scope[b[2]] \in RoleScopes(actor)
    /\ \A role \in Roles : \A owner \in Targets(role) :
         SitePermission(actor, "users.write", Scope[role], owner) = HasPermission(actor, "users.write", owner)
=============================================================================
