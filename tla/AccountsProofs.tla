--------------------------- MODULE AccountsProofs ----------------------------
(***************************************************************************)
(* What holds of the accounts for any number of users, customers, requests, *)
(* sessions, addresses and attempts. AdminUsers, of which the module of the *)
(* composition is an extension, comes first: as long as no two requests     *)
(* that passed the guard overlap, the administrator they counted on is      *)
(* still there when they write. Then each part as the composition names it, *)
(* its invariant and why every action keeps it; and last the whole.         *)
(***************************************************************************)
EXTENDS MCAccounts, FiniteSetTheorems, TLAPS

---------------------------------------------------------------------------
(* Users of the administration, and who remains one.                        *)

Types ==
  /\ user \in [Users -> {"absent", "active", "disabled"}]
  /\ removal = [r \in Removals |-> removal[r]]
  /\ raced \in BOOLEAN

\* The user a request takes an administrator away from, and another is left.
AnotherLeft(q) ==
  q.disable \/ q.of[2] = "platform_admin" => Admins \ {q.of[1]} # {}

\* A request that is alone has counted an administrator it does not touch.
GuardsHold ==
  raced \/ \A r \in Removals : removal[r] # None =>
             /\ AnotherLeft(removal[r])
             /\ \A q \in Removals : removal[q] # None => q = r

IInv == Types /\ AdminRemains /\ GuardsHold

---------------------------------------------------------------------------
\* In the beginning Root is the administrator, and nothing is under way.
LEMMA InitIInv ==
  ASSUME Init
  PROVE  IInv
<1>1. Types /\ GuardsHold
  BY UsersAssumption DEF Init, Types, GuardsHold
<1>2. Root \in Admins
  BY UsersAssumption DEF Init, Admins
<1>3. QED BY <1>1, <1>2 DEF IInv, AdminRemains

\* More than one administrator: another than any given one.
LEMMA AnotherThan ==
  ASSUME NEW u, Cardinality(Admins) > 1
  PROVE  Admins \ {u} # {}
<1>1. IsFiniteSet(Admins)
  BY FS_Subset, UsersAssumption DEF Admins
<1>2. SUFFICES ASSUME Admins \subseteq {u}
               PROVE  FALSE
  OBVIOUS
<1>3. Admins = {} \/ Admins = {u}
  BY <1>2
<1>4. Cardinality(Admins) = 0 \/ Cardinality(Admins) = 1
  BY <1>3, FS_EmptySet, FS_Singleton
<1>5. QED BY <1>4

\* Whatever makes no administrator less preserves the invariant.
LEMMA GrowingIInv ==
  ASSUME IInv, Admins \subseteq Admins', Types', UNCHANGED <<removal, raced>>
  PROVE  IInv'
<1>1. AdminRemains'
  BY DEF IInv, AdminRemains
<1>2. \A r \in Removals : AnotherLeft(removal[r]) => AnotherLeft(removal[r])'
  BY DEF AnotherLeft
<1>3. GuardsHold'
  BY <1>2 DEF IInv, GuardsHold
<1>4. QED BY <1>1, <1>3 DEF IInv

\* A request that passes the guard is alone, or the race is recorded.
LEMMA StartIInv ==
  ASSUME IInv, NEW r \in Removals, NEW what, Start(r, what), AdminRemains => AnotherLeft(what) \/ raced
  PROVE  IInv'
<1>1. /\ removal' = [removal EXCEPT ![r] = what]
      /\ raced' = (raced \/ \E q \in Removals : removal[q] # None)
      /\ UNCHANGED <<user, assigned>>
  BY DEF Start
<1>2. Admins' = Admins
  BY <1>1 DEF Admins
<1>3. Types'
  BY <1>1 DEF IInv, Types
<1>4. AdminRemains'
  BY <1>1, <1>2 DEF IInv, AdminRemains
<1>5. ASSUME ~ raced'
      PROVE  \A p \in Removals : removal'[p] # None =>
               /\ AnotherLeft(removal[p])'
               /\ \A q \in Removals : removal'[q] # None => q = p
  <2>1. ~ raced /\ \A q \in Removals : removal[q] = None
    BY <1>1, <1>5
  <2>2. \A p \in Removals : removal'[p] # None => p = r
    BY <1>1, <2>1 DEF IInv, Types
  <2>3. removal'[r] = what /\ AnotherLeft(what)
    BY <1>1, <2>1 DEF IInv, Types
  <2>4. AnotherLeft(removal[r])'
    BY <1>2, <2>3 DEF AnotherLeft
  <2>5. QED BY <2>2, <2>4
<1>6. QED BY <1>3, <1>4, <1>5 DEF IInv, GuardsHold

\* The statement of a request: the administrator it counted on is another than the one
\* it takes away.
LEMMA RemovalWriteIInv ==
  ASSUME IInv, NEW r \in Removals, RemovalWrite(r)
  PROVE  IInv'
<1> DEFINE q == removal[r]
<1>1. /\ q # None
      /\ user' = IF q.disable THEN [user EXCEPT ![q.of[1]] = "disabled"] ELSE user
      /\ assigned' = IF q.disable THEN assigned ELSE assigned \ {q.of}
      /\ removal' = [removal EXCEPT ![r] = None]
      /\ raced' = raced
  BY DEF RemovalWrite
<1>2. Types'
  BY <1>1 DEF IInv, Types
<1>3. CASE raced
  BY <1>1, <1>2, <1>3 DEF IInv, AdminRemains, GuardsHold
<1>4. CASE ~ raced
  <2>1. AnotherLeft(q) /\ \A p \in Removals : removal[p] # None => p = r
    BY <1>1, <1>4 DEF IInv, GuardsHold
  <2>2. GuardsHold'
    BY <1>1, <2>1 DEF IInv, Types, GuardsHold
  <2>3. Admins' # {}
    <3>1. CASE q.disable \/ q.of[2] = "platform_admin"
      <4>1. PICK u \in Admins : u # q.of[1]
        BY <2>1, <3>1 DEF AnotherLeft
      <4>2. user'[u] = user[u] /\ <<u, "platform_admin", Platform>> \in assigned'
        BY <1>1, <4>1 DEF IInv, Types, Admins
      <4>3. u \in Admins'
        BY <4>1, <4>2 DEF Admins
      <4>4. QED BY <4>3
    <3>2. CASE ~ (q.disable \/ q.of[2] = "platform_admin")
      <4>1. PICK u : u \in Admins
        BY <1>4 DEF IInv, AdminRemains
      <4>2. user'[u] = user[u] /\ <<u, "platform_admin", Platform>> \in assigned'
        BY <1>1, <3>2, <4>1 DEF Admins
      <4>3. QED BY <4>1, <4>2 DEF Admins
    <3>3. QED BY <3>1, <3>2
  <2>4. QED BY <1>2, <2>2, <2>3 DEF IInv, AdminRemains
<1>5. QED BY <1>3, <1>4

\* Every step preserves the invariant.
LEMMA NextIInv ==
  ASSUME IInv, [Next]_vars
  PROVE  IInv'
<1>1. CASE UNCHANGED vars
  BY <1>1, GrowingIInv DEF vars, IInv, Types, Admins
<1>2. CASE BootstrapAdmin
  BY <1>2, GrowingIInv DEF BootstrapAdmin, IInv, Types, Admins
<1>3. ASSUME NEW u \in Users, EnableUser(u)
      PROVE  IInv'
  BY <1>3, GrowingIInv DEF EnableUser, IInv, Types, Admins
<1>4. ASSUME NEW u \in Users, NEW role, NEW target, CreateUser(u, role, target)
      PROVE  IInv'
  BY <1>4, GrowingIInv DEF CreateUser, IInv, Types, Admins
<1>5. ASSUME NEW u \in Users, NEW role, NEW target, AssignRole(u, role, target)
      PROVE  IInv'
  BY <1>5, GrowingIInv DEF AssignRole, IInv, Types, Admins
<1>6. ASSUME NEW r \in Removals, NEW u \in Users, DisableCheck(r, u)
      PROVE  IInv'
  <2> DEFINE what == [disable |-> TRUE, of |-> <<u, None, None>>]
  <2>1. what.of[1] = u /\ Start(r, what)
    BY <1>6 DEF DisableCheck
  <2>2. ASSUME AdminRemains, ~ raced
        PROVE  Admins \ {u} # {}
    <3>1. CASE user[u] = "active" /\ IsAdmin(u)
      BY <1>6, <3>1, AnotherThan DEF DisableCheck
    <3>2. CASE ~ (user[u] = "active" /\ IsAdmin(u))
      BY <2>2, <3>2 DEF AdminRemains, Admins, IsAdmin
    <3>3. QED BY <3>1, <3>2
  <2>3. AdminRemains => AnotherLeft(what) \/ raced
    BY <2>1, <2>2 DEF AnotherLeft
  <2> HIDE DEF what
  <2>4. QED BY <2>1, <2>3, StartIInv
<1>7. ASSUME NEW r \in Removals, NEW a \in assigned, RemoveCheck(r, a)
      PROVE  IInv'
  <2> DEFINE what == [disable |-> FALSE, of |-> a]
  <2>1. what.of = a /\ ~ what.disable /\ Start(r, what)
    BY <1>7 DEF RemoveCheck
  <2>2. a[2] = "platform_admin" => Admins \ {a[1]} # {}
    BY <1>7, AnotherThan DEF RemoveCheck
  <2>3. AdminRemains => AnotherLeft(what) \/ raced
    BY <2>1, <2>2 DEF AnotherLeft
  <2> HIDE DEF what
  <2>4. QED BY <2>1, <2>3, StartIInv
<1>8. QED
  BY <1>1, <1>2, <1>3, <1>4, <1>5, <1>6, <1>7, RemovalWriteIInv DEF Next

\* An active administrator of the platform remains, for any number of users and requests,
\* unless two of these overlapped (countActivePlatformAdmins).
THEOREM AdminAlwaysRemains == Spec => []AdminRemains
<1>1. Init => IInv
  BY InitIInv
<1>2. IInv /\ [Next]_vars => IInv'
  BY NextIInv
<1>3. IInv => AdminRemains
  BY DEF IInv
<1>4. QED BY <1>1, <1>2, <1>3, PTL DEF Spec

---------------------------------------------------------------------------
(* The queries.                                                             *)

\* A role is assigned to a user there is, on a target of its kind.
AssignedWell ==
  \A b \in assigned :
    b[1] \in Users /\ user[b[1]] # "absent" /\ b[2] \in Roles /\ b[3] \in Targets(b[2])

\* The three roles, what they are assigned on and what they allow.
LEMMA RolesAre ==
  /\ Roles = {"platform_admin", "entity_admin", "business_admin"}
  /\ Scope["platform_admin"] = "platform" /\ Scope["entity_admin"] = "legal_entity"
  /\ Scope["business_admin"] = "business_unit"
  /\ Targets("platform_admin") = {Platform} /\ Targets("entity_admin") = Entities
  /\ Targets("business_admin") = Units
  BY DEF Roles, Scope, Targets

LEMMA RolesAllow ==
  /\ \A role \in Roles : "users.read" \in Permissions[role]
  /\ \A role \in Roles : "roles.read" \in Permissions[role] <=> role # "business_admin"
  /\ \A role \in Roles : "users.write" \in Permissions[role] <=> role # "business_admin"
  BY RolesAre DEF Permissions

\* The target of an assignment says of which kind its role is.
LEMMA KindOfTarget ==
  ASSUME AssignedWell, NEW b \in assigned
  PROVE  /\ \/ b[2] = "platform_admin" /\ Scope[b[2]] = "platform" /\ b[3] = Platform
            \/ b[2] = "entity_admin" /\ Scope[b[2]] = "legal_entity" /\ b[3] \in Entities
            \/ b[2] = "business_admin" /\ Scope[b[2]] = "business_unit" /\ b[3] \in Units
         /\ b[3] = Platform <=> Scope[b[2]] = "platform"
         /\ b[3] \in Entities <=> Scope[b[2]] = "legal_entity"
         /\ b[3] \in Units <=> Scope[b[2]] = "business_unit"
  BY RolesAre, TargetsAssumption DEF AssignedWell

\* The list of users shows those whom the single lookup admits.
LEMMA UsersAgree ==
  ASSUME AssignedWell, NEW actor \in Users, NEW u \in Users
  PROVE  (u \in AccessibleUsers(actor)) <=> (user[u] # "absent" /\ Visible(actor, u, "users.read"))
<1> DEFINE G == Grants(actor, "users.read")
           scopes == {<<Scope[a[2]], a[3]>> : a \in G}
           entities == {s[2] : s \in {t \in scopes : t[1] = "legal_entity"}}
           units == {s[2] : s \in {t \in scopes : t[1] = "business_unit"}}
<1>1. G \subseteq assigned
  BY DEF Grants
<1>2. /\ (\E s \in scopes : s[1] = "platform") <=> (\E a \in G : Scope[a[2]] = "platform")
      /\ \A e : e \in entities <=> \E a \in G : Scope[a[2]] = "legal_entity" /\ a[3] = e
      /\ \A m : m \in units <=> \E a \in G : Scope[a[2]] = "business_unit" /\ a[3] = m
  <2>1. \A s \in scopes : \E a \in G : s[1] = Scope[a[2]] /\ s[2] = a[3]
    OBVIOUS
  <2>2. \A a \in G : \E s \in scopes : s[1] = Scope[a[2]] /\ s[2] = a[3]
    <3>1. TAKE a \in G
    <3>2. WITNESS <<Scope[a[2]], a[3]>> \in scopes
    <3>3. QED OBVIOUS
  <2>3. \A e : e \in entities <=> \E s \in scopes : s[1] = "legal_entity" /\ s[2] = e
    OBVIOUS
  <2>4. \A m : m \in units <=> \E s \in scopes : s[1] = "business_unit" /\ s[2] = m
    OBVIOUS
  <2> HIDE DEF G, scopes, entities, units
  <2>5. QED BY <2>1, <2>2, <2>3, <2>4
<1>3. (u \in AccessibleUsers(actor)) <=>
        /\ user[u] # "absent"
        /\ \/ \E s \in scopes : s[1] = "platform"
           \/ \E b \in assigned : b[1] = u /\
                (b[3] \in entities \union units \/ (b[3] \in Units /\ EntityOf[b[3]] \in entities))
  BY DEF AccessibleUsers
<1>4. Visible(actor, u, "users.read") <=>
        \E a \in G :
          \/ Scope[a[2]] = "platform" /\ a[3] = Platform
          \/ \E b \in assigned :
               /\ b[1] = u
               /\ \/ Scope[a[2]] = "legal_entity" /\ Covers(a[3], b[3]) /\ b[3] # Platform
                  \/ Scope[a[2]] = "business_unit" /\ a[3] = b[3]
  BY DEF Visible
<1> HIDE DEF G, scopes, entities, units
<1>5. ASSUME NEW a \in G, NEW b \in assigned
      PROVE  /\ Scope[a[2]] = "platform" => a[3] = Platform
             /\ Scope[a[2]] = "legal_entity" =>
                  ((Covers(a[3], b[3]) /\ b[3] # Platform)
                   <=> (a[3] = b[3] \/ (b[3] \in Units /\ a[3] = EntityOf[b[3]])))
  BY <1>1, KindOfTarget, TargetsAssumption DEF Covers
<1>6. QED BY <1>1, <1>2, <1>3, <1>4, <1>5, KindOfTarget

\* The assignments that are shown are those whose target the actor may read.
LEMMA AssignmentsAgree ==
  ASSUME AssignedWell, NEW actor \in Users, NEW b \in assigned
  PROVE  (b \in VisibleAssignments(actor, b[1])) <=> HasPermission(actor, "users.read", b[3])
<1> DEFINE G == Grants(actor, "users.read")
<1>1. G \subseteq assigned
  BY DEF Grants
<1>2. HasPermission(actor, "users.read", b[3]) <=>
        \E a \in G : a[3] = Platform \/ a[3] = b[3] \/ (b[3] \in Units /\ a[3] = EntityOf[b[3]])
  BY DEF HasPermission, Covers
<1>3. HasPermission(actor, "users.read", Platform) <=> \E a \in G : a[3] = Platform
  BY TargetsAssumption DEF HasPermission, Covers
<1>4. (b \in VisibleAssignments(actor, b[1])) <=>
        \/ HasPermission(actor, "users.read", Platform)
        \/ \E a \in G :
             \/ Scope[b[2]] = "legal_entity" /\ Scope[a[2]] = "legal_entity" /\ a[3] = b[3]
             \/ Scope[b[2]] = "business_unit" /\ Scope[a[2]] = "business_unit" /\ a[3] = b[3]
             \/ Scope[b[2]] = "business_unit" /\ Scope[a[2]] = "legal_entity" /\ a[3] = EntityOf[b[3]]
  BY DEF VisibleAssignments
<1> HIDE DEF G
<1>5. QED BY <1>1, <1>2, <1>3, <1>4, KindOfTarget, TargetsAssumption

\* A shown assignment is of a listed user, and of a role that is shown if any is.
LEMMA ShownIsListed ==
  ASSUME AssignedWell, NEW actor \in Users, NEW b \in assigned,
         b \in VisibleAssignments(actor, b[1])
  PROVE  /\ b[1] \in AccessibleUsers(actor)
         /\ RoleScopes(actor) # {} => Scope[b[2]] \in RoleScopes(actor)
<1>1. PICK a \in Grants(actor, "users.read") : Covers(a[3], b[3])
  BY AssignmentsAgree DEF HasPermission
<1>2. a \in assigned /\ a[1] = actor
  BY DEF Grants
<1>3. Visible(actor, b[1], "users.read")
  <2>1. CASE a[3] = Platform
    BY <1>2, <2>1, KindOfTarget DEF Visible
  <2>2. CASE a[3] # Platform
    <3>1. b[3] # Platform
      BY <1>1, <1>2, <2>2, KindOfTarget, TargetsAssumption DEF Covers
    <3>2. Scope[a[2]] = "legal_entity" \/ (Scope[a[2]] = "business_unit" /\ a[3] = b[3])
      BY <1>1, <1>2, <2>2, KindOfTarget, TargetsAssumption DEF Covers
    <3>3. QED BY <1>1, <3>1, <3>2 DEF Visible
  <2>3. QED BY <2>1, <2>2
<1>4. b[1] \in AccessibleUsers(actor)
  BY <1>3, UsersAgree DEF AssignedWell
<1>5. ASSUME RoleScopes(actor) # {}
      PROVE  Scope[b[2]] \in RoleScopes(actor)
  <2> DEFINE scopes == {Scope[c[2]] : c \in Grants(actor, "roles.read")}
  <2>1. scopes \subseteq {"platform", "legal_entity"}
    BY KindOfTarget, RolesAllow, RolesAre DEF Grants, AssignedWell
  <2>2. RoleScopes(actor) =
          IF "platform" \in scopes THEN {"platform", "legal_entity", "business_unit"}
          ELSE IF "legal_entity" \in scopes THEN {"legal_entity", "business_unit"}
          ELSE IF scopes # {} THEN {"business_unit"} ELSE {}
    BY DEF RoleScopes
  <2>3. Scope[b[2]] = "platform" => "platform" \in scopes
    <3>1. SUFFICES ASSUME Scope[b[2]] = "platform"
                   PROVE  "platform" \in scopes
      OBVIOUS
    <3>2. a[3] = Platform
      BY <1>1, <1>2, <3>1, KindOfTarget, TargetsAssumption DEF Covers
    <3>3. a[2] = "platform_admin" /\ Scope[a[2]] = "platform"
      BY <1>2, <3>2, KindOfTarget
    <3>4. a \in Grants(actor, "roles.read")
      BY <1>2, <3>3, RolesAllow, RolesAre DEF Grants
    <3>5. QED BY <3>3, <3>4
  <2>4. Scope[b[2]] \in {"platform", "legal_entity", "business_unit"}
    BY KindOfTarget
  <2> HIDE DEF scopes
  <2>5. QED BY <1>5, <2>1, <2>2, <2>3, <2>4
<1>6. QED BY <1>4, <1>5

\* A site admits whom its owner admits.
LEMMA SitesAgree ==
  ASSUME AssignedWell, NEW actor \in Users,
         NEW role \in Roles, NEW owner \in Targets(role)
  PROVE  SitePermission(actor, "users.write", Scope[role], owner)
           <=> HasPermission(actor, "users.write", owner)
<1> DEFINE G == Grants(actor, "users.write")
<1>1. G \subseteq assigned
  BY DEF Grants
<1>2. SitePermission(actor, "users.write", Scope[role], owner) <=>
        \E a \in G :
          \/ a[3] = Platform
          \/ Scope[role] = "legal_entity" /\ Scope[a[2]] = "legal_entity" /\ a[3] = owner
          \/ /\ Scope[role] = "business_unit"
             /\ \/ Scope[a[2]] = "business_unit" /\ a[3] = owner
                \/ Scope[a[2]] = "legal_entity" /\ a[3] = EntityOf[owner]
  BY DEF SitePermission
<1>3. HasPermission(actor, "users.write", owner) <=>
        \E a \in G : a[3] = Platform \/ a[3] = owner \/ (owner \in Units /\ a[3] = EntityOf[owner])
  BY DEF HasPermission, Covers
<1>4. \/ Scope[role] = "platform" /\ owner = Platform
      \/ Scope[role] = "legal_entity" /\ owner \in Entities
      \/ Scope[role] = "business_unit" /\ owner \in Units
  BY RolesAre
<1> HIDE DEF G
<1>5. QED BY <1>1, <1>2, <1>3, <1>4, KindOfTarget, TargetsAssumption

\* Together: the queries agree in any state whose assignments are well formed.
LEMMA QueriesAgree ==
  ASSUME AssignedWell
  PROVE  ListsAgree
<1>1. SUFFICES ASSUME NEW actor \in Users
               PROVE  /\ AccessibleUsers(actor) = {u \in Users : user[u] # "absent" /\ Visible(actor, u, "users.read")}
                      /\ \A b \in assigned :
                           /\ (b \in VisibleAssignments(actor, b[1])) = HasPermission(actor, "users.read", b[3])
                           /\ b \in VisibleAssignments(actor, b[1]) =>
                                /\ b[1] \in AccessibleUsers(actor)
                                /\ RoleScopes(actor) # {} => Scope[b[2]] \in RoleScopes(actor)
                      /\ \A role \in Roles : \A owner \in Targets(role) :
                           SitePermission(actor, "users.write", Scope[role], owner) = HasPermission(actor, "users.write", owner)
  BY DEF ListsAgree
<1>2. AccessibleUsers(actor) = {u \in Users : user[u] # "absent" /\ Visible(actor, u, "users.read")}
  <2>1. AccessibleUsers(actor) \subseteq Users
    BY DEF AccessibleUsers
  <2>2. QED BY <2>1, UsersAgree
<1>3. ASSUME NEW b \in assigned
      PROVE  (b \in VisibleAssignments(actor, b[1])) = HasPermission(actor, "users.read", b[3])
  <2>1. HasPermission(actor, "users.read", b[3]) \in BOOLEAN
    BY DEF HasPermission
  <2>2. QED BY <2>1, AssignmentsAgree
<1>4. ASSUME NEW role \in Roles, NEW owner \in Targets(role)
      PROVE  SitePermission(actor, "users.write", Scope[role], owner) = HasPermission(actor, "users.write", owner)
  <2>1. /\ HasPermission(actor, "users.write", owner) \in BOOLEAN
        /\ SitePermission(actor, "users.write", Scope[role], owner) \in BOOLEAN
    BY DEF HasPermission, SitePermission
  <2>2. QED BY <2>1, SitesAgree
<1>5. QED BY <1>2, <1>3, <1>4, ShownIsListed

\* No step makes an assignment ill formed.
LEMMA NextAssignedWell ==
  ASSUME IInv, AssignedWell, [Next]_vars
  PROVE  AssignedWell'
<1>1. CASE UNCHANGED vars
  BY <1>1 DEF vars, AssignedWell
<1>2. CASE BootstrapAdmin
  BY <1>2, RolesAre, UsersAssumption DEF BootstrapAdmin, IInv, Types, AssignedWell
<1>3. ASSUME NEW u \in Users, EnableUser(u)
      PROVE  AssignedWell'
  BY <1>3 DEF EnableUser, IInv, Types, AssignedWell
<1>4. ASSUME NEW u \in Users, CreateUser(u, None, Platform)
      PROVE  AssignedWell'
  BY <1>4 DEF CreateUser, IInv, Types, AssignedWell
<1>5. ASSUME NEW u \in Users, NEW role \in Roles, NEW target \in Targets(role),
             CreateUser(u, role, target) \/ AssignRole(u, role, target)
      PROVE  AssignedWell'
  BY <1>5 DEF CreateUser, AssignRole, IInv, Types, AssignedWell
<1>6. ASSUME NEW r \in Removals, RemovalWrite(r)
      PROVE  AssignedWell'
  BY <1>6 DEF RemovalWrite, IInv, Types, AssignedWell
<1>7. ASSUME NEW r \in Removals,
             (\E u \in Users : DisableCheck(r, u)) \/ (\E a \in assigned : RemoveCheck(r, a))
      PROVE  AssignedWell'
  BY <1>7 DEF DisableCheck, RemoveCheck, Start, AssignedWell
<1>8. QED
  BY <1>1, <1>2, <1>3, <1>4, <1>5, <1>6, <1>7 DEF Next

\* The five queries agree on who may see what, for any users, entities, units and
\* assignments (listAccessibleUsers, assertUserVisible, hasPermission,
\* listVisibleRoleAssignments, listAccessibleRoles, requireSitePermission).
THEOREM QueriesAlwaysAgree == Spec => []ListsAgree
<1>1. Init => IInv /\ AssignedWell
  <2>1. Init => AssignedWell
    BY RolesAre, UsersAssumption DEF Init, AssignedWell
  <2>2. QED BY <2>1, InitIInv
<1>2. IInv /\ AssignedWell /\ [Next]_vars => IInv' /\ AssignedWell'
  BY NextIInv, NextAssignedWell
<1>3. IInv /\ AssignedWell => ListsAgree
  BY QueriesAgree
<1>4. QED BY <1>1, <1>2, <1>3, PTL DEF Spec

---------------------------------------------------------------------------
(* Passwords, sessions and mailed tokens.                                   *)

SessionRow == [state : {"absent", "live", "revoked"}, on : Nat \union {None}, late : BOOLEAN]
TokenRow == [state : {"absent", "live", "consumed"}, on : Nat \union {None}, late : BOOLEAN]

CredentialTypeOK ==
  /\ password \in Nat
  /\ session \in [Sessions -> SessionRow]
  /\ token \in [Tokens -> TokenRow]
  /\ access \in [Requests -> [kind : {"idle", "login", "change", "mail"}, session : Sessions \union {None},
                              token : Tokens \union {None}, checked : Nat \union {None}]]

SessionsStand ==
  \A s \in Sessions : session[s].state = "live" => session[s].on = password \/ session[s].late

\* A token that no other came between is alone, so that it is the one a reset consumes.
TokensStand ==
  \A t \in Tokens : token[t].state = "live" /\ ~token[t].late =>
    /\ token[t].on = password
    /\ \A u \in Tokens : token[u].state = "live" => u = t

CredentialIInv == CredentialTypeOK /\ SessionsStand /\ TokensStand

LEMMA CredentialInit == Credential!Init => CredentialIInv
BY DEF SessionRow, TokenRow, Credential!Init, Credential!NoSession, Credential!NoToken, Credential!Idle, CredentialIInv,
       CredentialTypeOK, SessionsStand, TokensStand

\* What ends sessions and tokens, and leaves the password, disturbs none that remain.
LEMMA CredentialEnds ==
  ASSUME CredentialIInv, UNCHANGED <<password, access>>,
         \A s \in Sessions : session'[s] = session[s] \/ session'[s] = Credential!NoSession
                             \/ session'[s] = [session[s] EXCEPT !.state = "revoked"],
         \A t \in Tokens : token'[t] = token[t] \/ token'[t] = Credential!NoToken
                           \/ token'[t] = [token[t] EXCEPT !.state = "consumed"],
         session' = [s \in Sessions |-> session'[s]], token' = [t \in Tokens |-> token'[t]]
  PROVE  CredentialIInv'
<1> USE DEF SessionRow, TokenRow, CredentialIInv, CredentialTypeOK, Credential!NoSession, Credential!NoToken
<1>1. CredentialTypeOK'
  <2>1. ASSUME NEW s \in Sessions PROVE session'[s] \in SessionRow
    <3>1. CASE session'[s] = session[s]
      BY <3>1
    <3>2. CASE session'[s] = Credential!NoSession
      BY <3>2
    <3>3. CASE session'[s] = [session[s] EXCEPT !.state = "revoked"]
      BY <3>3
    <3>4. QED BY <3>1, <3>2, <3>3
  <2>2. ASSUME NEW t \in Tokens PROVE token'[t] \in TokenRow
    <3>1. CASE token'[t] = token[t]
      BY <3>1
    <3>2. CASE token'[t] = Credential!NoToken
      BY <3>2
    <3>3. CASE token'[t] = [token[t] EXCEPT !.state = "consumed"]
      BY <3>3
    <3>4. QED BY <3>1, <3>2, <3>3
  <2>3. QED BY <2>1, <2>2
<1>2. \A s \in Sessions : session'[s].state = "live" => session'[s] = session[s]
  OBVIOUS
<1>3. \A t \in Tokens : token'[t].state = "live" => token'[t] = token[t]
  OBVIOUS
<1>4. SessionsStand'
  BY <1>2 DEF SessionsStand
<1>5. TokensStand'
  BY <1>3 DEF TokensStand
<1>6. QED BY <1>1, <1>4, <1>5

\* A login inserts its session as what it checked, late when that was replaced since.
LEMMA CredentialLogin ==
  ASSUME CredentialIInv, NEW r \in Requests, Credential!LoginInsert(r)
  PROVE  CredentialIInv'
<1> USE DEF SessionRow, TokenRow, CredentialIInv, CredentialTypeOK
<1> DEFINE late == access[r].checked # password
           new == [state |-> "live", on |-> access[r].checked, late |-> late]
<1>1. /\ session' = [session EXCEPT ![access[r].session] = new]
      /\ access' = [access EXCEPT ![r] = Credential!Idle]
      /\ UNCHANGED <<password, token>>
  BY DEF Credential!LoginInsert, Credential!Late, Credential!End
<1>2. /\ new.state = "live" /\ new.on = access[r].checked /\ new.late = (access[r].checked # password)
      /\ new \in SessionRow
  OBVIOUS
<1> HIDE DEF new, late
<1>3. CredentialTypeOK'
  BY <1>1, <1>2 DEF Credential!Idle
<1>4. \A s \in Sessions : session'[s] = session[s] \/ session'[s] = new
  BY <1>1
<1>5. SessionsStand'
  BY <1>1, <1>2, <1>4 DEF SessionsStand
<1>6. TokensStand'
  BY <1>1 DEF TokensStand
<1>7. QED BY <1>3, <1>5, <1>6

\* A change spares the session it came through, which stands on the new password.
LEMMA CredentialChange ==
  ASSUME CredentialIInv, NEW r \in Requests, Credential!ChangeWrite(r)
  PROVE  CredentialIInv'
<1> USE DEF SessionRow, TokenRow, CredentialIInv, CredentialTypeOK
<1> DEFINE kept == access[r].session
           others == Credential!Revoked(Sessions \ {kept})
<1>1. /\ password' = password + 1
      /\ session' = [others EXCEPT ![kept].on = IF @ = None THEN None ELSE password']
      /\ token' = Credential!Consumed(Tokens)
      /\ access' = [access EXCEPT ![r] = Credential!Idle]
  BY DEF Credential!ChangeWrite, Credential!End
<1>2. /\ others \in [Sessions -> SessionRow]
      /\ \A s \in Sessions : others[s].state = "live" => s = kept
  BY DEF Credential!Revoked
<1> HIDE DEF others, kept
<1>3. password' \in Nat
  BY <1>1
<1>4. session' \in [Sessions -> SessionRow]
  <2> DEFINE on == IF others[kept].on = None THEN None ELSE password'
  <2>1. on \in Nat \union {None}
    BY <1>3
  <2>2. session' = [others EXCEPT ![kept].on = on]
    BY <1>1
  <2> HIDE DEF on
  <2>3. \A s \in Sessions : [others[s] EXCEPT !.on = on] \in SessionRow
    BY <1>2, <2>1
  <2>4. QED BY <1>2, <2>2, <2>3
<1>5. CredentialTypeOK'
  BY <1>1, <1>3, <1>4 DEF Credential!Idle, Credential!Consumed
<1>6. ASSUME NEW s \in Sessions, session'[s].state = "live"
      PROVE  session'[s].on = password' \/ session'[s].late
  <2>1. s = kept /\ others[s].state = "live"
    BY <1>1, <1>2, <1>6
  <2>2. others[s] = session[s]
    BY <2>1 DEF others, Credential!Revoked
  <2>3. session'[s].late = others[s].late /\ session'[s].on = IF others[s].on = None THEN None ELSE password'
    BY <1>1, <1>2, <2>1
  <2>4. others[s].on = None => others[s].late
    BY <2>1, <2>2, AccountsAssumption DEF SessionsStand
  <2>5. QED BY <2>3, <2>4
<1>7. SessionsStand'
  BY <1>6 DEF SessionsStand
<1>8. TokensStand'
  BY <1>1 DEF TokensStand, Credential!Consumed
<1>9. QED BY <1>5, <1>7, <1>8

\* Of the tokens live when one is inserted, none is alone, and neither is that one.
LEMMA CredentialMail ==
  ASSUME CredentialIInv, NEW r \in Requests, Credential!ResetInsert(r)
  PROVE  CredentialIInv'
<1> USE DEF SessionRow, TokenRow, CredentialIInv, CredentialTypeOK
<1> DEFINE live == {t \in Tokens : token[t].state = "live"}
           its == access[r].token
           late == access[r].checked # password \/ live # {}
           new == [state |-> "live", on |-> access[r].checked, late |-> late]
<1>1. /\ token' = [t \in Tokens |-> IF t = its THEN new ELSE [token[t] EXCEPT !.late = @ \/ t \in live]]
      /\ access' = [access EXCEPT ![r] = Credential!Idle]
      /\ UNCHANGED <<password, session>>
  BY DEF Credential!ResetInsert, Credential!Late, Credential!End
<1>2. new.late = (access[r].checked # password \/ live # {})
  OBVIOUS
<1>3. late \in BOOLEAN
  OBVIOUS
<1> HIDE DEF late
<1>4. /\ new.state = "live" /\ new.on = access[r].checked
      /\ new \in TokenRow
  BY <1>3
<1> HIDE DEF new
<1>5. ASSUME NEW t \in Tokens, t # its
      PROVE  /\ token'[t].state = token[t].state /\ token'[t].on = token[t].on
             /\ token'[t].late = (token[t].late \/ t \in live)
             /\ token'[t] \in TokenRow
  BY <1>1, <1>5
<1>6. CredentialTypeOK'
  <2>1. \A t \in Tokens : token'[t] \in TokenRow
    BY <1>1, <1>4, <1>5
  <2>2. QED BY <1>1, <2>1 DEF Credential!Idle
<1>7. TokensStand'
  <2> SUFFICES ASSUME NEW t \in Tokens, token'[t].state = "live", ~ token'[t].late
               PROVE  token'[t].on = password /\ \A u \in Tokens : token'[u].state = "live" => u = t
    BY <1>1 DEF TokensStand
  <2>1. t = its
    BY <1>5
  <2>2. access[r].checked = password /\ live = {}
    BY <1>1, <1>2, <2>1
  <2>3. QED BY <1>1, <1>4, <1>5, <2>1, <2>2
<1>8. SessionsStand'
  BY <1>1 DEF SessionsStand
<1>9. QED BY <1>6, <1>7, <1>8

\* A reset ends every session, and consumes the token that would stand.
LEMMA CredentialReset ==
  ASSUME CredentialIInv, NEW t \in Tokens, Credential!ResetPassword(t)
  PROVE  CredentialIInv'
<1> USE DEF SessionRow, TokenRow, CredentialIInv, CredentialTypeOK, Credential!ResetPassword
<1>1. CredentialTypeOK'
  BY DEF Credential!Revoked, Credential!Consumed
<1>2. SessionsStand'
  BY DEF SessionsStand, Credential!Revoked
<1>3. \A u \in Tokens : token'[u].state = "live" => token'[u] = token[u] /\ u # t
  BY DEF Credential!Consumed
<1>4. TokensStand'
  BY <1>3 DEF TokensStand
<1>5. QED BY <1>1, <1>2, <1>4

LEMMA CredentialNext == CredentialIInv /\ [Credential!Next]_(Credential!vars) => CredentialIInv'
<1> SUFFICES ASSUME CredentialIInv, [Credential!Next]_(Credential!vars) PROVE CredentialIInv'
  OBVIOUS
<1>1. CASE UNCHANGED Credential!vars
  BY <1>1 DEF Credential!vars, CredentialIInv, CredentialTypeOK, SessionsStand, TokensStand
<1>2. CASE Credential!CleanupSessions
  BY <1>2, CredentialEnds DEF Credential!CleanupSessions
<1>3. ASSUME NEW new \in {"active", "disabled"}, Credential!SetStatus(new) PROVE CredentialIInv'
  BY <1>3 DEF Credential!SetStatus, CredentialIInv, CredentialTypeOK, SessionsStand, TokensStand
<1>4. ASSUME NEW s \in Sessions, NEW other \in Sessions,
             Credential!RevokeOtherSessions(s) \/ Credential!Expire(s) \/ Credential!Logout(s, other)
      PROVE  CredentialIInv'
  BY <1>4, CredentialEnds
     DEF Credential!RevokeOtherSessions, Credential!Expire, Credential!Logout, Credential!Revoked,
         CredentialIInv, CredentialTypeOK
<1>5. ASSUME NEW t \in Tokens, Credential!ExpireToken(t) PROVE CredentialIInv'
  BY <1>5, CredentialEnds DEF Credential!ExpireToken, Credential!Consumed, CredentialIInv, CredentialTypeOK
<1>6. ASSUME NEW r \in Requests, UNCHANGED <<password, session, token>>,
             access' \in [Requests -> [kind : {"idle", "login", "change", "mail"}, session : Sessions \union {None},
                                      token : Tokens \union {None}, checked : Nat \union {None}]]
      PROVE  CredentialIInv'
  BY <1>6 DEF CredentialIInv, CredentialTypeOK, SessionsStand, TokensStand
<1>7. ASSUME NEW r \in Requests, NEW s \in Sessions, Credential!LoginCheck(r, s) \/ Credential!ChangeCheck(r, s)
      PROVE  CredentialIInv'
  <2>1. access' = [access EXCEPT ![r] =
           [kind |-> access'[r].kind, session |-> s, token |-> None, checked |-> password]]
        /\ access'[r].kind \in {"login", "change"} /\ UNCHANGED <<password, session, token>>
    BY <1>7 DEF Credential!LoginCheck, Credential!ChangeCheck, Credential!Begin, CredentialIInv, CredentialTypeOK
  <2>2. QED BY <1>6, <2>1 DEF CredentialIInv, CredentialTypeOK
<1>8. ASSUME NEW r \in Requests, Credential!RequestFails(r) PROVE CredentialIInv'
  BY <1>6, <1>8 DEF Credential!RequestFails, Credential!End, Credential!Idle, CredentialIInv, CredentialTypeOK
<1>9. ASSUME NEW r \in Requests, NEW t \in Tokens, Credential!ResetConsume(r, t) PROVE CredentialIInv'
  <2>1. access' \in [Requests -> [kind : {"idle", "login", "change", "mail"}, session : Sessions \union {None},
                                 token : Tokens \union {None}, checked : Nat \union {None}]]
    BY <1>9 DEF Credential!ResetConsume, Credential!Begin, CredentialIInv, CredentialTypeOK
  <2>2. UNCHANGED <<password, session>> /\ token' = Credential!Consumed(Tokens)
    BY <1>9 DEF Credential!ResetConsume
  <2>3. CredentialTypeOK'
    BY <2>1, <2>2 DEF Credential!Consumed, TokenRow, CredentialIInv, CredentialTypeOK
  <2>4. QED BY <2>2, <2>3 DEF Credential!Consumed, CredentialIInv, CredentialTypeOK, SessionsStand, TokensStand
<1>10. QED
  BY <1>1, <1>2, <1>3, <1>4, <1>5, <1>7, <1>8, <1>9, CredentialLogin, CredentialChange, CredentialMail,
     CredentialReset DEF Credential!Next

\* A password that is no more opens nothing, of a user's sessions or mailed tokens, but what
\* was inserted after a change its check did not see (createSession, changePassword,
\* requestPasswordReset, resetPassword).
LEMMA CredentialsStand == Credential!Spec => []Credential!OldSecretsDie
<1>1. CredentialIInv => Credential!OldSecretsDie
  <2> SUFFICES ASSUME CredentialIInv PROVE Credential!OldSecretsDie
    OBVIOUS
  <2> DEFINE alone == {t \in Tokens : token[t].state = "live" /\ ~ token[t].late}
  <2>1. Cardinality(alone) <= 1
    <3>1. \A t, u \in alone : t = u
      BY DEF CredentialIInv, TokensStand
    <3> HIDE DEF alone
    <3>2. CASE alone = {}
      BY <3>2, FS_EmptySet
    <3>3. CASE alone # {}
      <4>1. PICK t \in alone : alone = {t}
        BY <3>1, <3>3
      <4>2. QED BY <4>1, FS_Singleton
    <3>4. QED BY <3>2, <3>3
  <2>2. Credential!Cardinality(alone) = Cardinality(alone)
    BY DEF Credential!Cardinality, Cardinality
  <2>3. QED BY <2>1, <2>2 DEF CredentialIInv, SessionsStand, TokensStand, Credential!OldSecretsDie
<1>2. QED BY <1>1, CredentialInit, CredentialNext, PTL DEF Credential!Spec

---------------------------------------------------------------------------
(* A customer's consent, password and sessions.                             *)

CustomerRow == [status : {None, "active", "inactive"}, consent : BOOLEAN,
                source : {None, "customer_registration", "customer_profile", "textbee-start", "textbee-stop"},
                preferred : {None, "text", "email"}]

\* What the requests under way read; a request for texts was checked against it.
DoingTypeOK ==
  /\ doing = [r \in Requests |-> doing[r]]
  /\ \A r \in Requests :
       /\ doing[r].kind = "edit" => doing[r].data \in {"active", "inactive"}
       /\ doing[r].kind = "login" => customer.status # None /\ doing[r].seen \in Nat
       /\ doing[r].kind = "profile" =>
            /\ doing[r].data \in Customer!Inputs
            /\ doing[r].seen \in [consent : BOOLEAN, preferred : {None, "text", "email"}]
            /\ doing[r].data.preferred = "text" =>
                 /\ doing[r].data.consent # FALSE
                 /\ doing[r].data.consent = TRUE \/ doing[r].seen.consent

SessionsOfCustomer ==
  /\ visit \in [Sessions -> [live : BOOLEAN, on : Nat \union {None}, late : BOOLEAN]]
  /\ account \in Nat
  /\ customer.status = None => ~ customer.consent /\ \A s \in Sessions : ~ visit[s].live

\* Without an account nobody is in the portal, nor on the way to it.
AccountOfCustomer ==
  /\ customer.status = None => account = 0
  /\ account = 0 =>
       /\ \A s \in Sessions : ~ visit[s].live
       /\ \A r \in Requests : doing[r].kind \notin {"login", "change"}

CustomerIInv ==
  /\ customer \in CustomerRow /\ word \in BOOLEAN /\ crossed \in BOOLEAN
  /\ DoingTypeOK /\ SessionsOfCustomer /\ AccountOfCustomer
  /\ Consented /\ Customer!OldPasswordsEnd

LEMMA CustomerInit == Customer!Init => CustomerIInv
<1> SUFFICES ASSUME Customer!Init PROVE CustomerIInv
  OBVIOUS
<1> USE DEF Customer!Init, Customer!NoCustomer, Customer!NoSession, Customer!Idle
<1>1. customer \in CustomerRow /\ word \in BOOLEAN /\ crossed \in BOOLEAN
  BY DEF CustomerRow
<1>2. DoingTypeOK
  BY DEF DoingTypeOK
<1>3. SessionsOfCustomer /\ AccountOfCustomer
  BY DEF SessionsOfCustomer, AccountOfCustomer
<1>4. Consented
  BY AccountsAssumption DEF Consented, Customer!TextHasConsent, Customer!ConsentIsLastWord
<1>5. Customer!OldPasswordsEnd
  BY DEF Customer!OldPasswordsEnd
<1>6. QED BY <1>1, <1>2, <1>3, <1>4, <1>5 DEF CustomerIInv

\* A request begins with what it read, or ends; nothing else changes.
LEMMA CustomerBegins ==
  ASSUME CustomerIInv, NEW r \in Requests, NEW kind \in {"edit", "login", "change", "profile"}, NEW data, NEW seen,
         Customer!Begin(r, kind, data, seen) \/ Customer!End(r),
         UNCHANGED <<customer, account, visit, inbound, word, crossed>>,
         kind = "edit" => data \in {"active", "inactive"},
         kind = "login" => customer.status # None /\ seen \in Nat,
         kind \in {"login", "change"} => account # 0,
         kind = "profile" =>
           /\ data \in Customer!Inputs
           /\ seen \in [consent : BOOLEAN, preferred : {None, "text", "email"}]
           /\ data.preferred = "text" => data.consent # FALSE /\ (data.consent = TRUE \/ seen.consent)
  PROVE  CustomerIInv'
<1>1. DoingTypeOK' /\ AccountOfCustomer'
  <2> DEFINE new == [kind |-> kind, data |-> data, seen |-> seen]
  <2>1. new.kind = kind /\ new.data = data /\ new.seen = seen
    OBVIOUS
  <2> HIDE DEF new
  <2>2. doing' = [doing EXCEPT ![r] = new] \/ doing' = [doing EXCEPT ![r] = Customer!Idle]
    BY DEF Customer!Begin, Customer!End, new
  <2>3. Customer!Idle.kind = "idle"
    BY DEF Customer!Idle
  <2>4. doing' = [q \in Requests |-> doing'[q]]
    BY <2>2 DEF CustomerIInv, DoingTypeOK
  <2>5. \A q \in Requests \ {r} : doing'[q] = doing[q]
    BY <2>2 DEF CustomerIInv, DoingTypeOK
  <2>6. doing'[r] = new \/ doing'[r] = Customer!Idle
    BY <2>2 DEF CustomerIInv, DoingTypeOK
  <2>7. ASSUME NEW q \in Requests
        PROVE  /\ doing'[q].kind = "edit" => doing'[q].data \in {"active", "inactive"}
               /\ doing'[q].kind = "login" => customer.status # None /\ doing'[q].seen \in Nat
               /\ doing'[q].kind \in {"login", "change"} => account # 0
               /\ doing'[q].kind = "profile" =>
                    /\ doing'[q].data \in Customer!Inputs
                    /\ doing'[q].seen \in [consent : BOOLEAN, preferred : {None, "text", "email"}]
                    /\ doing'[q].data.preferred = "text" =>
                         /\ doing'[q].data.consent # FALSE
                         /\ doing'[q].data.consent = TRUE \/ doing'[q].seen.consent
    <3>1. CASE q # r
      BY <2>5, <3>1 DEF CustomerIInv, DoingTypeOK, AccountOfCustomer
    <3>2. CASE doing'[q] = Customer!Idle
      BY <2>3, <3>2
    <3>3. CASE doing'[q] = new
      BY <2>1, <3>3
    <3>4. QED BY <2>6, <3>1, <3>2, <3>3
  <2>8. DoingTypeOK'
    BY <2>4, <2>7 DEF DoingTypeOK
  <2>9. AccountOfCustomer'
    BY <2>7 DEF CustomerIInv, AccountOfCustomer
  <2>10. QED BY <2>8, <2>9
<1>2. QED
  BY <1>1 DEF CustomerIInv, SessionsOfCustomer, Consented, Customer!TextHasConsent, Customer!ConsentIsLastWord,
              Customer!OldPasswordsEnd

\* What is under way stays as it was, or one request ends, and a customer stays one.
LEMMA DoingStays ==
  ASSUME CustomerIInv, UNCHANGED doing \/ \E r \in Requests : Customer!End(r),
         customer'.status = customer.status \/ customer'.status # None
  PROVE  DoingTypeOK'
<1>1. CASE UNCHANGED doing
  BY <1>1 DEF CustomerIInv, DoingTypeOK
<1>2. ASSUME NEW r \in Requests, Customer!End(r) PROVE DoingTypeOK'
  <2>1. doing' = [doing EXCEPT ![r] = Customer!Idle] /\ Customer!Idle.kind = "idle"
    BY <1>2 DEF Customer!End, Customer!Idle
  <2>2. doing' = [q \in Requests |-> doing'[q]]
    BY <2>1 DEF CustomerIInv, DoingTypeOK
  <2>3. doing'[r] = Customer!Idle /\ \A q \in Requests \ {r} : doing'[q] = doing[q]
    BY <2>1 DEF CustomerIInv, DoingTypeOK
  <2>4. QED BY <2>1, <2>2, <2>3 DEF CustomerIInv, DoingTypeOK
<1>3. QED BY <1>1, <1>2

LEMMA AccountStays ==
  ASSUME CustomerIInv, UNCHANGED doing \/ \E r \in Requests : Customer!End(r),
         customer'.status = customer.status \/ customer'.status # None,
         account' = account \/ (account' # 0 /\ customer'.status # None),
         account' = 0 => \A s \in Sessions : visit'[s].live => visit[s].live
  PROVE  AccountOfCustomer'
<1>1. \A q \in Requests : doing'[q] = doing[q] \/ doing'[q].kind = "idle"
  BY DEF CustomerIInv, DoingTypeOK, Customer!End, Customer!Idle
<1>2. QED BY <1>1 DEF CustomerIInv, AccountOfCustomer

\* A session is inserted as what its login checked.
LEMMA CustomerSession ==
  ASSUME CustomerIInv, NEW s \in Sessions, NEW on \in Nat \union {None}, NEW late \in BOOLEAN,
         Customer!InsertSession(s, on, late)
  PROVE  /\ visit' \in [Sessions -> [live : BOOLEAN, on : Nat \union {None}, late : BOOLEAN]]
         /\ visit'[s].on = on /\ (visit'[s].late <=> late)
         /\ \A r \in Sessions \ {s} : visit'[r] = visit[r]
<1> DEFINE new == [live |-> TRUE, on |-> on, late |-> late]
<1>1. /\ new \in [live : BOOLEAN, on : Nat \union {None}, late : BOOLEAN]
      /\ new.on = on /\ (new.late <=> late)
  OBVIOUS
<1> HIDE DEF new
<1>2. visit' = [visit EXCEPT ![s] = new]
  BY DEF Customer!InsertSession, new
<1>3. QED BY <1>1, <1>2 DEF CustomerIInv, SessionsOfCustomer

LEMMA CustomerRegister ==
  ASSUME CustomerIInv, NEW s \in Sessions, NEW consent \in BOOLEAN, Customer!Register(s, consent)
  PROVE  CustomerIInv'
<1> DEFINE source == IF consent THEN "customer_registration" ELSE None
           preferred == IF consent THEN "text" ELSE "email"
           new == [status |-> "active", consent |-> consent, source |-> source, preferred |-> preferred]
<1>1. /\ customer.status = None /\ customer' = new /\ account' = 1 /\ word' = consent
      /\ Customer!InsertSession(s, 1, FALSE) /\ UNCHANGED <<inbound, doing, crossed>>
  BY DEF Customer!Register
<1>2. /\ new \in CustomerRow /\ new.status = "active" /\ new.consent = consent
      /\ new.preferred = "text" => consent
  BY DEF CustomerRow
<1> HIDE DEF new
<1>3. /\ visit' \in [Sessions -> [live : BOOLEAN, on : Nat \union {None}, late : BOOLEAN]]
      /\ visit'[s].on = 1 /\ \A r \in Sessions \ {s} : visit'[r] = visit[r]
  BY <1>1, CustomerSession
<1>4. DoingTypeOK'
  BY <1>1, <1>2, AccountsAssumption, DoingStays
<1>5. SessionsOfCustomer' /\ Customer!OldPasswordsEnd'
  BY <1>1, <1>2, <1>3, AccountsAssumption DEF CustomerIInv, SessionsOfCustomer, Customer!OldPasswordsEnd
<1>6. Consented'
  BY <1>1, <1>2 DEF Consented, Customer!TextHasConsent, Customer!ConsentIsLastWord
<1>7. AccountOfCustomer'
  BY <1>1, <1>2, AccountsAssumption, AccountStays
<1>8. QED BY <1>1, <1>2, <1>4, <1>5, <1>6, <1>7 DEF CustomerIInv

\* The office enters a customer without consent, who prefers texts by default and has no
\* account.
LEMMA CustomerEntered ==
  ASSUME CustomerIInv, NEW given \in {"active", "inactive"}, customer.status = None,
         customer' = Customer!Entered(given), UNCHANGED <<account, visit, inbound, doing, word, crossed>>
  PROVE  CustomerIInv'
<1>1. /\ customer' \in CustomerRow /\ customer'.status = given /\ ~ customer'.consent
      /\ customer'.source = None
  BY DEF Customer!Entered, CustomerRow
<1>2. DoingTypeOK'
  BY <1>1, AccountsAssumption, DoingStays
<1>3. SessionsOfCustomer' /\ Customer!OldPasswordsEnd'
  BY <1>1, AccountsAssumption DEF CustomerIInv, SessionsOfCustomer, Customer!OldPasswordsEnd
<1>4. AccountOfCustomer' /\ account' = 0
  BY <1>1, AccountsAssumption DEF CustomerIInv, AccountOfCustomer
<1>5. Consented'
  <2>1. ~ word
    BY DEF CustomerIInv, SessionsOfCustomer, Consented, Customer!ConsentIsLastWord
  <2>2. Customer!ConsentIsLastWord'
    BY <1>1, <2>1 DEF CustomerIInv, CustomerRow, Customer!ConsentIsLastWord
  <2>3. Customer!TextHasConsent'
    BY <1>1, <1>4 DEF Customer!TextHasConsent
  <2>4. QED BY <2>2, <2>3 DEF Consented
<1>6. QED BY <1>1, <1>2, <1>3, <1>4, <1>5 DEF CustomerIInv

\* The office writes back the status, and nothing of the consent.
LEMMA CustomerEdited ==
  ASSUME CustomerIInv, NEW r \in Requests, Customer!EditWrite(r)
  PROVE  CustomerIInv'
<1> DEFINE given == doing[r].data
<1>1. /\ customer' = [customer EXCEPT !.status = given] /\ given \in {"active", "inactive"}
      /\ Customer!End(r) /\ UNCHANGED <<account, visit, inbound, word, crossed>>
  BY DEF Customer!EditWrite, CustomerIInv, DoingTypeOK
<1> HIDE DEF given
<1>2. /\ customer' \in CustomerRow /\ customer'.status = given /\ customer'.consent = customer.consent
      /\ customer'.preferred = customer.preferred /\ customer'.source = customer.source
  BY <1>1 DEF CustomerIInv, CustomerRow
<1>3. DoingTypeOK'
  BY <1>1, <1>2, AccountsAssumption, DoingStays
<1>4. SessionsOfCustomer' /\ Customer!OldPasswordsEnd'
  BY <1>1, <1>2, AccountsAssumption DEF CustomerIInv, SessionsOfCustomer, Customer!OldPasswordsEnd
<1>5. Consented'
  BY <1>1, <1>2 DEF CustomerIInv, Consented, Customer!TextHasConsent, Customer!ConsentIsLastWord
<1>6. AccountOfCustomer'
  BY <1>1, <1>2, AccountsAssumption, AccountStays
<1>7. QED BY <1>1, <1>2, <1>3, <1>4, <1>5, <1>6 DEF CustomerIInv

\* What changes passwords and sessions of a customer and nothing else.
LEMMA CustomerKeepsConsent ==
  ASSUME CustomerIInv, UNCHANGED <<customer, word, crossed>>, account = 0 => account' = 0,
         DoingTypeOK', SessionsOfCustomer', AccountOfCustomer', Customer!OldPasswordsEnd'
  PROVE  CustomerIInv'
BY DEF CustomerIInv, Consented, Customer!TextHasConsent, Customer!ConsentIsLastWord

LEMMA CustomerLogin ==
  ASSUME CustomerIInv, NEW r \in Requests, NEW s \in Sessions, Customer!LoginInsert(r, s)
  PROVE  CustomerIInv'
<1> DEFINE late == doing[r].seen # account
<1>1. /\ doing[r].kind = "login" /\ Customer!InsertSession(s, doing[r].seen, late) /\ Customer!End(r)
      /\ late \in BOOLEAN /\ UNCHANGED <<customer, account, inbound, word, crossed>>
  BY DEF Customer!LoginInsert
<1>2. (late <=> doing[r].seen # account) /\ doing[r].seen \in Nat
  BY <1>1 DEF CustomerIInv, DoingTypeOK
<1> HIDE DEF late
<1>3. /\ visit' \in [Sessions -> [live : BOOLEAN, on : Nat \union {None}, late : BOOLEAN]]
      /\ visit'[s].on = doing[r].seen /\ (visit'[s].late <=> late)
      /\ \A q \in Sessions \ {s} : visit'[q] = visit[q]
  BY <1>1, <1>2, CustomerSession
<1>4. DoingTypeOK'
  BY <1>1, DoingStays
<1>5. customer.status # None
  BY <1>1 DEF CustomerIInv, DoingTypeOK
<1>6. SessionsOfCustomer' /\ Customer!OldPasswordsEnd'
  BY <1>1, <1>2, <1>3, <1>5 DEF CustomerIInv, SessionsOfCustomer, Customer!OldPasswordsEnd
<1>7. AccountOfCustomer'
  <2>1. account # 0
    BY <1>1 DEF CustomerIInv, AccountOfCustomer
  <2>2. QED BY <1>1, <2>1, AccountStays
<1>8. QED BY <1>1, <1>4, <1>6, <1>7, CustomerKeepsConsent

LEMMA CustomerSessionEnds ==
  ASSUME CustomerIInv, NEW s \in Sessions, Customer!EndSession(s)
  PROVE  CustomerIInv'
<1>1. visit' = [visit EXCEPT ![s] = Customer!NoSession] /\ UNCHANGED <<customer, account, inbound, doing, word, crossed>>
  BY DEF Customer!EndSession
<1>2. SessionsOfCustomer' /\ Customer!OldPasswordsEnd'
  BY <1>1 DEF Customer!NoSession, CustomerIInv, SessionsOfCustomer, Customer!OldPasswordsEnd
<1>3. DoingTypeOK'
  BY <1>1, DoingStays
<1>4. AccountOfCustomer'
  <2>1. \A q \in Sessions : visit'[q].live => visit[q].live
    BY <1>1 DEF Customer!NoSession, CustomerIInv, SessionsOfCustomer
  <2>2. QED BY <1>1, <2>1, AccountStays
<1>5. QED BY <1>1, <1>2, <1>3, <1>4, CustomerKeepsConsent

\* A change of the password leaves the one session it came through.
LEMMA CustomerChange ==
  ASSUME CustomerIInv, NEW r \in Requests, Customer!ChangeWrite(r)
  PROVE  CustomerIInv'
<1> DEFINE kept == doing[r].data
<1>1. /\ doing[r].kind = "change"
      /\ account' = account + 1 /\ Customer!End(r) /\ UNCHANGED <<customer, inbound, word, crossed>>
      /\ visit' = [s \in Sessions |->
           IF s = kept /\ visit[s].live THEN [visit[s] EXCEPT !.on = account'] ELSE Customer!NoSession]
  BY DEF Customer!ChangeWrite
<1> HIDE DEF kept
<1>2. account' \in Nat
  BY <1>1 DEF CustomerIInv, SessionsOfCustomer
<1>3. SessionsOfCustomer' /\ Customer!OldPasswordsEnd'
  BY <1>1, <1>2 DEF Customer!NoSession, CustomerIInv, SessionsOfCustomer, Customer!OldPasswordsEnd
<1>4. DoingTypeOK'
  BY <1>1, DoingStays
<1>5. account # 0 /\ account' # 0 /\ customer.status # None
  BY <1>1 DEF CustomerIInv, SessionsOfCustomer, AccountOfCustomer
<1>6. AccountOfCustomer'
  BY <1>1, <1>5, AccountStays
<1>7. QED BY <1>1, <1>3, <1>4, <1>5, <1>6, CustomerKeepsConsent

\* A profile is written as it was given; unless another change crossed it, texts are preferred
\* only with the consent it was checked to have.
LEMMA CustomerProfile ==
  ASSUME CustomerIInv, NEW r \in Requests, Customer!ProfileWrite(r)
  PROVE  CustomerIInv'
<1> DEFINE input == doing[r].data
           seen == doing[r].seen
           preferred == Customer!Preferred(input, seen)
           channel == IF preferred = None THEN customer.preferred ELSE preferred
           consent == IF input.consent # None THEN input.consent ELSE customer.consent
           source == IF input.consent = TRUE /\ ~ customer.consent THEN "customer_profile"
                     ELSE IF input.consent = FALSE THEN None ELSE customer.source
<1>1. /\ input.preferred \in {None, "text"} /\ input.consent \in {None, TRUE, FALSE}
      /\ seen.preferred \in {None, "text", "email"} /\ seen.consent \in BOOLEAN
      /\ input.preferred = "text" => input.consent # FALSE /\ (input.consent = TRUE \/ seen.consent)
  BY DEF Customer!ProfileWrite, CustomerIInv, DoingTypeOK, Customer!Inputs
<1>2. /\ customer.preferred \in {None, "text", "email"} /\ customer.consent \in BOOLEAN
      /\ customer.source \in {None, "customer_registration", "customer_profile", "textbee-start", "textbee-stop"}
      /\ customer.status \in {None, "active", "inactive"}
      /\ customer \in CustomerRow
  BY DEF CustomerIInv, CustomerRow
<1>3. /\ customer' = IF customer.status # "active" THEN customer ELSE
           [customer EXCEPT !.preferred = channel, !.consent = consent, !.source = source]
      /\ word' = IF input.consent # None /\ customer.status = "active" THEN input.consent ELSE word
      /\ crossed' = (crossed \/ seen.consent # customer.consent \/ seen.preferred # customer.preferred)
      /\ Customer!End(r) /\ UNCHANGED <<account, visit, inbound>>
  BY DEF Customer!ProfileWrite
<1>4. channel \in {None, "text", "email"} /\ consent \in BOOLEAN
      /\ source \in {None, "customer_registration", "customer_profile", "textbee-start", "textbee-stop"}
  BY <1>1, <1>2 DEF Customer!Preferred
<1>5. /\ channel = "text" /\ ~ consent /\ seen.consent = customer.consent /\ seen.preferred = customer.preferred
      => customer.preferred = "text" /\ ~ customer.consent /\ source = customer.source
  BY <1>1, <1>2, AccountsAssumption DEF Customer!Preferred
<1>6. input.consent # None => consent = input.consent
  OBVIOUS
<1>7. input.consent = None => consent = customer.consent
  OBVIOUS
<1> HIDE DEF channel, consent, source, input, seen
<1>8. CASE customer.status # "active"
  <2>1. customer' = customer /\ word' = word
    BY <1>3, <1>8
  <2>2. Consented'
    BY <1>3, <2>1 DEF CustomerIInv, Consented, Customer!TextHasConsent, Customer!ConsentIsLastWord
  <2>3. crossed' \in BOOLEAN
    BY <1>3
  <2>4. DoingTypeOK'
    BY <1>3, <2>1, DoingStays
  <2>5. AccountOfCustomer'
    BY <1>3, <2>1, AccountStays
  <2>6. QED BY <1>3, <2>1, <2>2, <2>3, <2>4, <2>5 DEF CustomerIInv, SessionsOfCustomer, Customer!OldPasswordsEnd
<1>9. CASE customer.status = "active"
  <2>1. customer' = [customer EXCEPT !.preferred = channel, !.consent = consent, !.source = source]
    BY <1>3, <1>9
  <2>2. /\ customer' \in CustomerRow /\ customer'.preferred = channel /\ customer'.consent = consent
        /\ customer'.source = source /\ customer'.status = customer.status
    BY <1>2, <1>4, <2>1 DEF CustomerRow
  <2>3. word' = consent
    BY <1>1, <1>3, <1>6, <1>7, <1>9 DEF CustomerIInv, Consented, Customer!ConsentIsLastWord
  <2>4. Customer!TextHasConsent'
    BY <1>3, <1>5, <2>2 DEF CustomerIInv, Consented, Customer!TextHasConsent
  <2>5. Consented'
    BY <2>2, <2>3, <2>4 DEF Consented, Customer!ConsentIsLastWord
  <2>6. word' \in BOOLEAN /\ crossed' \in BOOLEAN
    BY <1>3, <1>4, <2>3
  <2>7. DoingTypeOK'
    BY <1>3, <2>2, DoingStays
  <2>8. SessionsOfCustomer' /\ Customer!OldPasswordsEnd'
    BY <1>3, <1>9, <2>2, AccountsAssumption DEF CustomerIInv, SessionsOfCustomer, Customer!OldPasswordsEnd
  <2>9. AccountOfCustomer'
    BY <1>3, <2>2, AccountStays
  <2>10. QED BY <2>2, <2>5, <2>6, <2>7, <2>8, <2>9 DEF CustomerIInv
<1>10. QED BY <1>8, <1>9

\* A word by text message is the last.
LEMMA CustomerWord ==
  ASSUME CustomerIInv, NEW m \in Messages, NEW what \in Customer!Words, Customer!Receive(m, what)
  PROVE  CustomerIInv'
<1> DEFINE said == (what = "start")
           source == IF what = "start" THEN "textbee-start" ELSE "textbee-stop"
<1>1. said \in BOOLEAN /\ source \in {"textbee-start", "textbee-stop"} /\ (~ said => source = "textbee-stop")
  BY DEF Customer!Words
<1>2. /\ customer.status = "active" /\ customer' = [customer EXCEPT !.consent = said, !.source = source]
      /\ word' = said /\ UNCHANGED <<account, visit, doing, crossed>>
  BY DEF Customer!Receive, Customer!Says
<1> HIDE DEF said, source
<1>3. /\ customer' \in CustomerRow /\ customer'.status = customer.status /\ customer'.consent = said
      /\ customer'.source = source
  BY <1>1, <1>2 DEF CustomerIInv, CustomerRow
<1>4. DoingTypeOK'
  BY <1>2, <1>3, DoingStays
<1>5. SessionsOfCustomer' /\ Customer!OldPasswordsEnd'
  BY <1>2, <1>3, AccountsAssumption DEF CustomerIInv, SessionsOfCustomer, Customer!OldPasswordsEnd
<1>6. Consented'
  BY <1>1, <1>2, <1>3 DEF Consented, Customer!TextHasConsent, Customer!ConsentIsLastWord
<1>7. AccountOfCustomer'
  BY <1>2, <1>3, AccountStays
<1>8. QED BY <1>1, <1>2, <1>3, <1>4, <1>5, <1>6, <1>7 DEF CustomerIInv

LEMMA CustomerNext == CustomerIInv /\ [Customer!Next]_(Customer!vars) => CustomerIInv'
<1> SUFFICES ASSUME CustomerIInv, [Customer!Next]_(Customer!vars) PROVE CustomerIInv'
  OBVIOUS
<1>1. CASE UNCHANGED Customer!vars
  BY <1>1 DEF Customer!vars, CustomerIInv, DoingTypeOK, SessionsOfCustomer, AccountOfCustomer, Consented,
              Customer!TextHasConsent, Customer!ConsentIsLastWord, Customer!OldPasswordsEnd
<1>2. ASSUME NEW given \in {"active", "inactive"}, Customer!EnterCustomer(given) PROVE CustomerIInv'
  BY <1>2, CustomerEntered DEF Customer!EnterCustomer
<1>3. CASE Customer!ConvertContact
  <2>1. CASE customer.status = None
    BY <1>3, <2>1, CustomerEntered DEF Customer!ConvertContact
  <2>2. CASE customer.status # None
    BY <1>3, <2>2 DEF Customer!ConvertContact, CustomerIInv, DoingTypeOK, SessionsOfCustomer, AccountOfCustomer,
              Consented, Customer!TextHasConsent, Customer!ConsentIsLastWord, Customer!OldPasswordsEnd
  <2>3. QED BY <2>1, <2>2
<1>4. ASSUME NEW r \in Requests, NEW given \in {"active", "inactive"}, Customer!EditRead(r, given)
      PROVE  CustomerIInv'
  BY <1>4, CustomerBegins, Zenon DEF Customer!EditRead
<1>5. ASSUME NEW r \in Requests, Customer!LoginCheck(r) PROVE CustomerIInv'
  <2>1. customer.status # None /\ account \in Nat /\ account # 0
    BY <1>5, AccountsAssumption DEF Customer!LoginCheck, CustomerIInv, SessionsOfCustomer
  <2>2. QED BY <1>5, <2>1, CustomerBegins DEF Customer!LoginCheck
<1>6. ASSUME NEW r \in Requests, NEW s \in Sessions, Customer!ChangeCheck(r, s) PROVE CustomerIInv'
  <2>1. account # 0
    BY <1>6 DEF Customer!ChangeCheck, Customer!Authenticated, CustomerIInv, AccountOfCustomer
  <2>2. QED BY <1>6, <2>1, CustomerBegins DEF Customer!ChangeCheck
<1>7. ASSUME NEW r \in Requests, NEW s \in Sessions, NEW input \in Customer!Inputs, Customer!ProfileRead(r, s, input)
      PROVE  CustomerIInv'
  <2> DEFINE seen == [consent |-> customer.consent, preferred |-> customer.preferred]
  <2>1. seen.consent = customer.consent
    OBVIOUS
  <2>2. seen \in [consent : BOOLEAN, preferred : {None, "text", "email"}]
    BY DEF CustomerIInv, CustomerRow
  <2> HIDE DEF seen
  <2>3. /\ input.preferred = "text" => input.consent # FALSE /\ (input.consent = TRUE \/ seen.consent)
        /\ Customer!Begin(r, "profile", input, seen)
        /\ UNCHANGED <<customer, account, visit, inbound, word, crossed>>
    BY <1>7, <2>1 DEF Customer!ProfileRead, seen
  <2>4. QED BY <2>2, <2>3, CustomerBegins
<1>8. ASSUME NEW r \in Requests, Customer!RequestFails(r) PROVE CustomerIInv'
  BY <1>8, CustomerBegins DEF Customer!RequestFails
<1>9. QED
  BY <1>1, <1>2, <1>3, <1>4, <1>5, <1>6, <1>7, <1>8, CustomerRegister, CustomerSessionEnds, CustomerWord,
     CustomerEdited, CustomerChange, CustomerProfile, CustomerLogin DEF Customer!Next

\* Who prefers texts has consented to them, or said STOP since, or was entered by the office,
\* has no account and said nothing; and the consent is the customer's last word, whichever way
\* it came and whatever the office writes back (updateCustomerProfile, createCustomer,
\* processInboundSms).
THEOREM AlwaysConsented == Customer!Spec => []Consented
<1>1. CustomerIInv => Consented
  BY DEF CustomerIInv
<1>2. QED BY <1>1, CustomerInit, CustomerNext, PTL DEF Customer!Spec

LEMMA CustomerPasswordsEnd == Customer!Spec => []Customer!OldPasswordsEnd
<1>1. CustomerIInv => Customer!OldPasswordsEnd
  BY DEF CustomerIInv
<1>2. QED BY <1>1, CustomerInit, CustomerNext, PTL DEF Customer!Spec

---------------------------------------------------------------------------
(* The addresses of a customer.                                             *)

AddressRow == [type : Places!Types \union {None}, primary : BOOLEAN, active : BOOLEAN]

PlacesTypeOK ==
  /\ address \in [Addresses -> AddressRow]
  /\ edit = [e \in Edits |-> edit[e]]
  /\ \A e \in Edits : edit[e] # None =>
       edit[e].of \in Addresses /\ edit[e].row \in AddressRow /\ edit[e].given \in Places!Inputs

\* Of each type, one address is primary.
OnePrimary ==
  \A a, b \in Addresses :
    /\ Places!IsPrimary(address[a]) /\ Places!IsPrimary(address[b])
    /\ address[a].type = address[b].type
    => a = b

PlacesIInv == PlacesTypeOK /\ OnePrimary

LEMMA PlacesInit == Places!Init => PlacesIInv
BY DEF Places!Init, Places!NoAddress, Places!IsPrimary, AddressRow, PlacesIInv, PlacesTypeOK, OnePrimary

LEMMA EditedRow ==
  ASSUME NEW row \in AddressRow, NEW given \in Places!Inputs
  PROVE  Places!Edited(row, given) \in AddressRow
<1> DEFINE type == Places!Given("type", given, row)
           primary == Places!Given("primary", given, row)
           on == Places!Given("active", given, row)
<1>1. CASE given = <<>>
  BY <1>1 DEF Places!Edited, Places!Given, AddressRow
<1>2. CASE given \in [{"primary"} -> BOOLEAN]
  BY <1>2 DEF Places!Edited, Places!Given, AddressRow
<1>3. CASE given \in [{"active"} -> BOOLEAN]
  BY <1>3 DEF Places!Edited, Places!Given, AddressRow
<1>4. CASE given \in [{"type"} -> Places!Types]
  BY <1>4 DEF Places!Edited, Places!Given, AddressRow
<1>5. QED BY <1>1, <1>2, <1>3, <1>4 DEF Places!Inputs

\* A row is written after the mark of any other of its type is taken away, when it has one.
LEMMA WriteKeepsOne ==
  ASSUME PlacesIInv, NEW a \in Addresses, NEW row \in AddressRow, Places!Write(a, row)
  PROVE  address' \in [Addresses -> AddressRow] /\ OnePrimary'
<1> USE DEF PlacesIInv, PlacesTypeOK
<1> DEFINE c == Places!Cleared(a, row)
<1>1. \A b \in Addresses \ {a} :
        /\ c[b] \in AddressRow /\ c[b].type = address[b].type /\ c[b].active = address[b].active
        /\ c[b].primary => address[b].primary
        /\ Places!IsPrimary(row) /\ address[b].active /\ address[b].type = row.type => ~ c[b].primary
  BY DEF Places!Cleared, AddressRow
<1>2. address' = [c EXCEPT ![a] = row] /\ c \in [Addresses -> AddressRow]
  BY DEF Places!Write, Places!Cleared, AddressRow
<1> HIDE DEF c
<1>3. address'[a] = row /\ \A b \in Addresses \ {a} : address'[b] = c[b]
  BY <1>2
<1>4. OnePrimary'
  BY <1>1, <1>3 DEF OnePrimary, Places!IsPrimary
<1>5. QED BY <1>2, <1>4

LEMMA PlacesNext == PlacesIInv /\ [Places!Next]_(Places!vars) => PlacesIInv'
<1> SUFFICES ASSUME PlacesIInv, [Places!Next]_(Places!vars) PROVE PlacesIInv'
  OBVIOUS
<1> USE DEF PlacesIInv, PlacesTypeOK
<1>1. CASE UNCHANGED Places!vars
  BY <1>1 DEF Places!vars, OnePrimary
<1>2. ASSUME NEW a \in Addresses, NEW type \in Places!Types, NEW primary \in BOOLEAN, Places!Create(a, type, primary)
      PROVE  PlacesIInv'
  <2>1. [type |-> type, primary |-> primary, active |-> TRUE] \in AddressRow
    BY DEF AddressRow
  <2>2. QED BY <1>2, <2>1, WriteKeepsOne DEF Places!Create
<1>3. ASSUME NEW a \in Addresses, NEW given \in {<<>>} \union [{"primary"} -> BOOLEAN], Places!UpdateProperty(a, given)
      PROVE  PlacesIInv'
  <2>1. Places!Edited(address[a], given) \in AddressRow
    BY EditedRow DEF Places!Inputs
  <2>2. QED BY <1>3, <2>1, WriteKeepsOne DEF Places!UpdateProperty
<1>4. ASSUME NEW a \in Addresses, Places!ArchiveProperty(a) PROVE PlacesIInv'
  <2>1. address' \in [Addresses -> AddressRow]
    BY <1>4 DEF Places!ArchiveProperty, AddressRow
  <2>2. ~ Places!IsPrimary(address'[a]) /\ \A b \in Addresses \ {a} : address'[b] = address[b]
    BY <1>4 DEF Places!ArchiveProperty, AddressRow, Places!IsPrimary
  <2>3. QED BY <1>4, <2>1, <2>2 DEF Places!ArchiveProperty, OnePrimary
<1>5. ASSUME NEW a \in Addresses, NEW e \in Edits, NEW given \in Places!Inputs, Places!EditRead(e, a, given)
      PROVE  PlacesIInv'
  BY <1>5 DEF Places!EditRead, OnePrimary
<1>6. ASSUME NEW e \in Edits, Places!EditWrite(e) PROVE PlacesIInv'
  <2>1. edit[e].of \in Addresses /\ Places!Edited(edit[e].row, edit[e].given) \in AddressRow
    BY <1>6, EditedRow DEF Places!EditWrite
  <2>2. address' \in [Addresses -> AddressRow] /\ OnePrimary'
    BY <1>6, <2>1, WriteKeepsOne DEF Places!EditWrite
  <2>3. \A d \in Edits : edit'[d] = edit[d] \/ edit'[d] = None
    BY <1>6 DEF Places!EditWrite
  <2>4. edit' = [d \in Edits |-> edit'[d]]
    BY <1>6 DEF Places!EditWrite
  <2>5. QED BY <2>2, <2>3, <2>4
<1>7. ASSUME NEW e \in Edits, Places!EditFails(e) PROVE PlacesIInv'
  BY <1>7 DEF Places!EditFails, OnePrimary
<1>8. QED BY <1>1, <1>2, <1>3, <1>4, <1>5, <1>6, <1>7 DEF Places!Next

\* An edit of an active address that gives it nothing writes it back, and takes no mark from
\* another: the other would have had the mark of the same type.
LEMMA EditKeepsPrimary ==
  ASSUME PlacesIInv, NEW e \in Edits, Places!EditWrite(e),
         edit[e].given = <<>>, edit[e].row.active, address[edit[e].of] = edit[e].row,
         NEW b \in Addresses, Places!IsPrimary(address[b])
  PROVE  Places!IsPrimary(address'[b])
<1> DEFINE a == edit[e].of  row == edit[e].row
<1>1. a \in Addresses /\ row \in AddressRow /\ address[a] = row
  BY DEF Places!EditWrite, PlacesIInv, PlacesTypeOK
<1>2. Places!Edited(row, <<>>) = row
  BY <1>1 DEF Places!Edited, Places!Given, AddressRow
<1>3. Places!Write(a, row)
  BY <1>2 DEF Places!EditWrite
<1>4. a # b => ~ (Places!IsPrimary(row) /\ address[b].type = row.type)
  BY <1>1 DEF PlacesIInv, OnePrimary
<1> HIDE DEF a, row
<1>5. CASE b = a
  BY <1>1, <1>3, <1>5 DEF Places!Write, Places!Cleared
<1>6. CASE b # a
  BY <1>1, <1>3, <1>4, <1>6 DEF Places!Write, Places!Cleared
<1>7. QED BY <1>5, <1>6

\* The primary address of a customer stays where it is through an edit that does not say
\* otherwise (updateCustomerAddress).
THEOREM PrimaryStays == Places!Spec => PrimaryKept
<1> DEFINE Kept == \A e \in Edits :
       LET q == edit[e] IN
       /\ q # None /\ edit'[e] = None
       /\ q.given = <<>> /\ q.row.active /\ address[q.of] = q.row
       => \A b \in Addresses : Places!IsPrimary(address[b]) => Places!IsPrimary(address'[b])
<1>1. ASSUME PlacesIInv, Places!Next PROVE Kept
  <2> SUFFICES ASSUME NEW e \in Edits, edit[e] # None, edit'[e] = None,
                      edit[e].given = <<>>, edit[e].row.active, address[edit[e].of] = edit[e].row
               PROVE  \A b \in Addresses : Places!IsPrimary(address[b]) => Places!IsPrimary(address'[b])
    OBVIOUS
  <2>1. CASE Places!EditWrite(e)
    BY <1>1, <2>1, EditKeepsPrimary
  <2>2. CASE ~ Places!EditWrite(e)
    <3>1. UNCHANGED address \/ UNCHANGED edit \/ \E d \in Edits : d # e /\ Places!EditWrite(d)
      BY <1>1, <2>2 DEF Places!Next, Places!Create, Places!UpdateProperty, Places!ArchiveProperty,
                        Places!EditRead, Places!EditFails
    <3>2. QED BY <1>1, <3>1 DEF Places!EditWrite, PlacesIInv, PlacesTypeOK
  <2>3. QED BY <2>1, <2>2
<1>2. PlacesIInv /\ [Places!Next]_(Places!vars) => [Kept]_(Places!vars)
  BY <1>1
<1>3. QED BY <1>2, PlacesInit, PlacesNext, PTL DEF Places!Spec, PrimaryKept, Places!PrimaryKept

---------------------------------------------------------------------------
(* Attempts and their limit.                                                *)

\* An attempt that was made is of the present window or an earlier one.
LimitsTypeOK ==
  /\ counter \in {None} \union [hits : Nat, over : BOOLEAN]
  /\ window \in Nat /\ spared \in Nat
  /\ attempt \in [Attempts -> [state : {"none", "refused", "running", "failed", "succeeded", "done"},
                               in : Nat \union {None}]]
  /\ \A a \in Attempts : attempt[a].in # None => attempt[a].in <= window
  /\ \A a \in Attempts : attempt[a].state = "none" <=> attempt[a].in = None

LimitsIInv == LimitsTypeOK /\ FailuresBounded

\* The attempts of the present window that are in some state.
In(states) == {a \in Attempts : attempt[a].in = window /\ attempt[a].state \in states}

LEMMA CountIn ==
  ASSUME NEW states
  PROVE  /\ Limits!Of(window, states) = Cardinality(In(states))
         /\ IsFiniteSet(In(states)) /\ Cardinality(In(states)) \in Nat
<1>1. Limits!Of(window, states) = Limits!Cardinality(In(states))
  BY DEF Limits!Of, In
<1>2. Limits!Cardinality(In(states)) = Cardinality(In(states))
  BY DEF Limits!Cardinality, Cardinality
<1>3. IsFiniteSet(In(states)) /\ Cardinality(In(states)) \in Nat
  BY AccountsAssumption, FS_Subset, FS_CardinalityType DEF In
<1>4. QED BY <1>1, <1>2, <1>3

Failing == {"failed", "running"}
Counting == {"refused", "failed", "running", "succeeded"}

\* What the bound says, of cardinalities.
Bound ==
  ~ Limits!Over =>
    /\ Cardinality(In(Failing)) <= Limit + spared
    /\ counter.hits <= Cardinality(In(Counting))
    /\ counter.hits + spared >= Cardinality(In(Counting))

LEMMA BoundOfCounts == FailuresBounded <=> Bound
BY CountIn DEF Bound, FailuresBounded, Limits!FailuresBounded, Failing, Counting

LEMMA LimitsInit == Limits!Init => LimitsIInv
BY DEF Limits!Init, Limits!NotMade, Limits!Over, LimitsIInv, LimitsTypeOK, FailuresBounded, Limits!FailuresBounded

\* How many the sets count: at most as many fail as count.
LEMMA Counts ==
  /\ Cardinality(In(Failing)) \in Nat /\ Cardinality(In(Counting)) \in Nat
  /\ IsFiniteSet(In(Failing)) /\ IsFiniteSet(In(Counting))
  /\ Cardinality(In(Failing)) <= Cardinality(In(Counting))
<1>1. In(Failing) \subseteq In(Counting)
  BY DEF In, Failing, Counting
<1>2. QED BY <1>1, CountIn, FS_Subset

\* The bound stays when no attempt is added to either count and the counter says the same.
LEMMA BoundStays ==
  ASSUME LimitsIInv, UNCHANGED <<counter, spared>>,
         In(Counting)' = In(Counting), In(Failing)' \subseteq In(Failing)
  PROVE  FailuresBounded'
<1>1. Cardinality(In(Failing))' <= Cardinality(In(Failing)) /\ Cardinality(In(Failing))' \in Nat
  BY Counts, FS_Subset, FS_CardinalityType
<1>2. Limits!Over' <=> Limits!Over
  BY DEF Limits!Over
<1>3. Bound
  BY BoundOfCounts DEF LimitsIInv
<1>4. Bound'
  BY <1>1, <1>2, <1>3, Counts, AccountsAssumption DEF Bound, LimitsIInv, LimitsTypeOK
<1>5. FailuresBounded' <=> Bound'
  BY BoundOfCounts, PTL
<1>6. QED BY <1>4, <1>5

LEMMA LimitsIncrement ==
  ASSUME LimitsIInv, NEW a \in Attempts, Limits!Increment(a)
  PROVE  LimitsIInv'
<1> USE AccountsAssumption DEF LimitsIInv, LimitsTypeOK
<1> DEFINE hits == IF Limits!Over THEN 1 ELSE counter.hits + 1
           state == IF hits > Limit THEN "refused" ELSE "running"
           new == [state |-> state, in |-> window']
<1>1. /\ attempt[a] = Limits!NotMade
      /\ counter' = [hits |-> hits, over |-> FALSE]
      /\ window' = IF Limits!Over THEN window + 1 ELSE window
      /\ spared' = IF Limits!Over THEN 0 ELSE spared
      /\ attempt' = [attempt EXCEPT ![a] = new]
  BY DEF Limits!Increment
<1>2. hits \in Nat /\ (Limits!Over => hits = 1) /\ (~ Limits!Over => hits = counter.hits + 1)
  BY DEF Limits!Over
<1>3. state \in {"refused", "running"} /\ (state = "running" => hits <= Limit)
  BY <1>2
<1> HIDE DEF hits, state
<1>4. window' \in Nat /\ spared' \in Nat
  BY <1>1
<1>5. attempt'[a].state = state /\ attempt'[a].in = window' /\ \A b \in Attempts \ {a} : attempt'[b] = attempt[b]
  BY <1>1
<1>6. LimitsTypeOK'
  <2>1. counter' \in {None} \union [hits : Nat, over : BOOLEAN]
    BY <1>1, <1>2
  <2>2. attempt' \in [Attempts -> [state : {"none", "refused", "running", "failed", "succeeded", "done"},
                                  in : Nat \union {None}]]
    BY <1>1, <1>3, <1>4
  <2>3. \A b \in Attempts : attempt'[b].in # None => attempt'[b].in <= window'
    BY <1>1, <1>4, <1>5
  <2>4. \A b \in Attempts : attempt'[b].state = "none" <=> attempt'[b].in = None
    BY <1>3, <1>4, <1>5
  <2>5. QED BY <1>4, <2>1, <2>2, <2>3, <2>4
<1>7. ~ Limits!Over' /\ counter'.hits = hits
  <2>1. counter' \in [hits : Nat, over : BOOLEAN] /\ ~ counter'.over /\ counter'.hits = hits
    BY <1>1, <1>2
  <2>2. QED BY <2>1 DEF Limits!Over
<1>8. a \notin In(Counting) /\ a \notin In(Failing)
  BY <1>1 DEF In, Limits!NotMade
<1>9. Bound
  BY BoundOfCounts
<1>10. Bound'
  <2>1. CASE Limits!Over
    <3>1. window' = window + 1 /\ spared' = 0 /\ hits = 1
      BY <1>1, <1>2, <2>1
    <3>2. \A b \in Attempts \ {a} : attempt'[b].in # window'
      BY <1>5, <3>1
    <3>3. In(Counting)' = {a}
      BY <1>3, <1>5, <3>2 DEF In, Counting
    <3>4. Cardinality(In(Counting))' = 1
      BY <3>3, FS_Singleton
    <3>5. CASE state = "running"
      <4>1. In(Failing)' = {a}
        BY <1>5, <3>2, <3>5 DEF In, Failing
      <4>2. Cardinality(In(Failing))' = 1
        BY <4>1, FS_Singleton
      <4>3. QED BY <1>3, <1>7, <3>1, <3>5, <3>4, <4>2 DEF Bound
    <3>6. CASE state = "refused"
      <4>1. In(Failing)' = {}
        BY <1>5, <3>2, <3>6 DEF In, Failing
      <4>2. Cardinality(In(Failing))' = 0
        BY <4>1, FS_EmptySet
      <4>3. QED BY <1>7, <3>1, <3>4, <4>2 DEF Bound
    <3>7. QED BY <1>3, <3>5, <3>6
  <2>2. CASE ~ Limits!Over
    <3>1. window' = window /\ spared' = spared /\ hits = counter.hits + 1 /\ counter.hits \in Nat
      BY <1>1, <1>2, <2>2 DEF Limits!Over
    <3>2. In(Counting)' = In(Counting) \union {a}
      BY <1>3, <1>5, <3>1 DEF In, Counting
    <3>3. Cardinality(In(Counting))' = Cardinality(In(Counting)) + 1
      <4>1. IsFiniteSet(In(Counting))
        BY Counts
      <4>2. Cardinality(In(Counting) \union {a}) = Cardinality(In(Counting)) + 1
        BY <1>8, <4>1, FS_AddElement
      <4>3. QED BY <3>2, <4>2
    <3>4. CASE state = "running"
      <4>1. In(Failing)' = In(Failing) \union {a}
        BY <1>5, <3>1, <3>4 DEF In, Failing
      <4>2. Cardinality(In(Failing))' = Cardinality(In(Failing)) + 1
        <5>1. IsFiniteSet(In(Failing))
          BY Counts
        <5>2. Cardinality(In(Failing) \union {a}) = Cardinality(In(Failing)) + 1
          BY <1>8, <5>1, FS_AddElement
        <5>3. QED BY <4>1, <5>2
      <4>3. QED BY <1>3, <1>7, <1>9, <2>2, <3>1, <3>3, <3>4, <4>2, Counts DEF Bound
    <3>5. CASE state = "refused"
      <4>1. In(Failing)' = In(Failing)
        BY <1>5, <1>8, <3>1, <3>5 DEF In, Failing
      <4>2. QED BY <1>7, <1>9, <2>2, <3>1, <3>3, <4>1, Counts DEF Bound
    <3>6. QED BY <1>3, <3>4, <3>5
  <2>3. QED BY <2>1, <2>2
<1>11. FailuresBounded' <=> Bound'
  BY BoundOfCounts, PTL
<1>12. QED BY <1>6, <1>10, <1>11

\* What is counted off is a success; one of another window is spared the failures of this one.
LEMMA LimitsDecrement ==
  ASSUME LimitsIInv, NEW a \in Attempts, Limits!Decrement(a)
  PROVE  LimitsIInv'
<1> USE AccountsAssumption DEF LimitsIInv, LimitsTypeOK
<1>1. /\ attempt[a].state = "succeeded" /\ window' = window
      /\ attempt' = [attempt EXCEPT ![a].state = "done"]
      /\ counter' = IF Limits!Over THEN counter ELSE [counter EXCEPT !.hits = IF @ > 0 THEN @ - 1 ELSE 0]
      /\ spared' = IF ~ Limits!Over /\ attempt[a].in # window THEN spared + 1 ELSE spared
  BY DEF Limits!Decrement
<1>2. /\ attempt'[a].state = "done" /\ attempt'[a].in = attempt[a].in
      /\ \A b \in Attempts \ {a} : attempt'[b] = attempt[b]
  BY <1>1
<1>3. /\ ~ Limits!Over => counter \in [hits : Nat, over : BOOLEAN]
      /\ counter' \in {None} \union [hits : Nat, over : BOOLEAN] /\ (Limits!Over' <=> Limits!Over)
      /\ ~ Limits!Over => counter'.hits = IF counter.hits > 0 THEN counter.hits - 1 ELSE 0
  <2>1. CASE Limits!Over
    BY <1>1, <2>1 DEF Limits!Over
  <2>2. CASE ~ Limits!Over
    <3>1. counter \in [hits : Nat, over : BOOLEAN] /\ ~ counter.over
      BY <2>2 DEF Limits!Over
    <3> DEFINE hits == IF counter.hits > 0 THEN counter.hits - 1 ELSE 0
    <3>2. hits \in Nat
      BY <3>1
    <3>3. counter' = [counter EXCEPT !.hits = hits]
      BY <1>1, <2>2
    <3> HIDE DEF hits
    <3>4. counter' \in [hits : Nat, over : BOOLEAN] /\ counter'.hits = hits /\ counter'.over = counter.over
      BY <3>1, <3>2, <3>3
    <3>5. QED BY <2>2, <3>1, <3>4 DEF Limits!Over, hits
  <2>3. QED BY <2>1, <2>2
<1>4. LimitsTypeOK'
  <2>1. attempt' \in [Attempts -> [state : {"none", "refused", "running", "failed", "succeeded", "done"},
                                  in : Nat \union {None}]]
    BY <1>1
  <2>2. QED BY <1>1, <1>2, <1>3, <2>1
<1>5. Bound
  BY BoundOfCounts
<1>6. In(Failing)' = In(Failing)
  BY <1>1, <1>2 DEF In, Failing
<1>7. Bound'
  <2>1. CASE Limits!Over
    BY <1>3, <2>1 DEF Bound
  <2>2. CASE ~ Limits!Over /\ attempt[a].in = window
    <3>1. In(Counting)' = In(Counting) \ {a} /\ a \in In(Counting)
      BY <1>1, <1>2, <2>2 DEF In, Counting
    <3>2. Cardinality(In(Counting))' = Cardinality(In(Counting)) - 1
      BY <3>1, Counts, FS_RemoveElement
    <3>3. Cardinality(In(Counting))' \in Nat
      BY <3>1, Counts, FS_RemoveElement, FS_CardinalityType
    <3>4. QED BY <1>1, <1>3, <1>5, <1>6, <2>2, <3>2, <3>3, Counts DEF Bound
  <2>3. CASE ~ Limits!Over /\ attempt[a].in # window
    <3>1. In(Counting)' = In(Counting)
      BY <1>1, <1>2, <2>3 DEF In, Counting
    <3>2. QED BY <1>1, <1>3, <1>5, <1>6, <2>3, <3>1, Counts DEF Bound
  <2>4. QED BY <2>1, <2>2, <2>3
<1>8. FailuresBounded' <=> Bound'
  BY BoundOfCounts, PTL
<1>9. QED BY <1>4, <1>7, <1>8

LEMMA LimitsNext == LimitsIInv /\ [Limits!Next]_(Limits!vars) => LimitsIInv'
<1> SUFFICES ASSUME LimitsIInv, [Limits!Next]_(Limits!vars) PROVE LimitsIInv'
  OBVIOUS
<1> USE DEF LimitsIInv, LimitsTypeOK
<1>1. CASE UNCHANGED Limits!vars
  <2>1. UNCHANGED <<counter, attempt, window, spared>>
    BY <1>1 DEF Limits!vars
  <2>2. In(Counting)' = In(Counting) /\ In(Failing)' = In(Failing)
    BY <2>1 DEF In
  <2>3. QED BY <2>1, <2>2, BoundStays
<1>2. CASE Limits!WindowEnds \/ Limits!Cleanup
  <2>1. Limits!Over' /\ UNCHANGED <<attempt, window, spared>> /\ counter' \in {None} \union [hits : Nat, over : BOOLEAN]
    BY <1>2 DEF Limits!WindowEnds, Limits!Cleanup, Limits!Over
  <2>2. FailuresBounded'
    BY <2>1 DEF FailuresBounded, Limits!FailuresBounded
  <2>3. QED BY <2>1, <2>2
<1>3. ASSUME NEW a \in Attempts, Limits!Fail(a) \/ Limits!Succeed(a) PROVE LimitsIInv'
  <2>1. /\ attempt[a].state = "running" /\ UNCHANGED <<counter, window, spared>>
        /\ \/ attempt' = [attempt EXCEPT ![a].state = "failed"]
           \/ attempt' = [attempt EXCEPT ![a].state = "succeeded"]
    BY <1>3 DEF Limits!Fail, Limits!Succeed
  <2>2. /\ attempt'[a].state \in {"failed", "succeeded"} /\ attempt'[a].in = attempt[a].in
        /\ \A b \in Attempts \ {a} : attempt'[b] = attempt[b]
    BY <2>1
  <2>3. attempt' \in [Attempts -> [state : {"none", "refused", "running", "failed", "succeeded", "done"},
                                  in : Nat \union {None}]]
    BY <2>1
  <2>4. In(Counting)' = In(Counting) /\ In(Failing)' \subseteq In(Failing)
    BY <2>1, <2>2 DEF In, Counting, Failing
  <2>5. LimitsTypeOK'
    BY <2>1, <2>2, <2>3
  <2>6. QED BY <2>1, <2>4, <2>5, BoundStays
<1>4. QED BY <1>1, <1>2, <1>3, LimitsIncrement, LimitsDecrement DEF Limits!Next

\* However many attempts, whatever the limit and however windows follow each other, a window
\* admits no more failures than the limit, but for successes of an earlier one that were
\* counted off in it (PostgresRateLimitStore).
THEOREM FailuresAlwaysBounded == Limits!Spec => []FailuresBounded
<1>1. LimitsIInv => FailuresBounded
  BY DEF LimitsIInv
<1>2. QED BY <1>1, LimitsInit, LimitsNext, PTL DEF Limits!Spec

---------------------------------------------------------------------------
(* The parts together.                                                      *)

\* The parts share nothing they write: each runs by itself, and what it promises holds of the
\* whole.
THEOREM PartsRunAlone ==
  AccountsSpec => Spec /\ Credential!Spec /\ Customer!Spec /\ Places!Spec /\ Limits!Spec
<1>1. AccountsInit => Init /\ Credential!Init /\ Customer!Init /\ Places!Init /\ Limits!Init
  BY DEF AccountsInit
<1>2. [AccountsNext]_accounts => [Next]_vars
  BY DEF AccountsNext, accounts
<1>3. [AccountsNext]_accounts => [Credential!Next]_(Credential!vars)
  BY DEF AccountsNext, accounts, credentials, Credential!vars
<1>4. [AccountsNext]_accounts => [Customer!Next]_(Customer!vars)
  BY DEF AccountsNext, accounts, clients, Customer!vars
<1>5. [AccountsNext]_accounts => [Places!Next]_(Places!vars)
  BY DEF AccountsNext, accounts, places, Places!vars
<1>6. [AccountsNext]_accounts => [Limits!Next]_(Limits!vars)
  BY DEF AccountsNext, accounts, limits, Limits!vars
<1>7. QED
  BY <1>1, <1>2, <1>3, <1>4, <1>5, <1>6, PTL
     DEF AccountsSpec, Spec, Credential!Spec, Customer!Spec, Places!Spec, Limits!Spec

\* A password that is no more opens nothing, of users or of customers, but what was inserted
\* after a change its check did not see (createSession, changePassword, requestPasswordReset,
\* resetPassword, loginCustomerAccount, changeCustomerPassword).
THEOREM OldPasswordsAlwaysEnd == AccountsSpec => []OldPasswordsEnd
BY CredentialsStand, CustomerPasswordsEnd, PartsRunAlone, PTL DEF OldPasswordsEnd

\* So does all that the parts promise, of the accounts as a whole.
THEOREM AccountsHold == AccountsSpec => [](AdminRemains /\ ListsAgree /\ Consented /\ FailuresBounded) /\ PrimaryKept
BY AdminAlwaysRemains, QueriesAlwaysAgree, AlwaysConsented, FailuresAlwaysBounded, PrimaryStays, PartsRunAlone, PTL
=============================================================================
