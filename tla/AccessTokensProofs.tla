-------------------------- MODULE AccessTokensProofs --------------------------
(***************************************************************************)
(* What AccessTokens states, for any principals, roles, permissions,       *)
(* projects, processes and requests.                                       *)
(*                                                                         *)
(* TokenInv is inductive.  It says of the documents: a role's permissions  *)
(* are in the catalogue, and a start works with permissions and roles that *)
(* exist (StartsSound); an account that was not created has no credential  *)
(* and no version (AccountsSound).  It says of the requests: one that read *)
(* the account before a rotation has a session version the account has     *)
(* left behind (Followed); what a request has read is what there is, as    *)
(* long as the versions it read are the current ones (ReadsSound); and the *)
(* same of the tokens that were issued (TokensSound).                      *)
(***************************************************************************)
EXTENDS AccessTokens, FiniteSetTheorems, TLAPS

----------------------------------------------------------------------------
(* Starts of processes, and requests, by what they do                      *)

Comparing == [step : {"next"}, permissions : SUBSET Permissions,
              versions : [SystemRoles -> Nat], todo : SUBSET SystemRoles]

Writing == [step : {"delete", "insert"}, role : SystemRoles, left : SUBSET Permissions,
            rest : Comparing]

Resting == {Down, [step |-> "seeded"], [step |-> "up"]}

Verified == [step : {"verified"}, who : Accounts, key : Keys, overtaken : BOOLEAN]

Reader == [step : {"reading"}, who : Principals, key : Nat, overtaken : BOOLEAN,
           session : Nat, bump : Nat, todo : SUBSET {"assignments", "policies"},
           entries : SUBSET (Roles \X Scopes), policy : Nat, rotated : BOOLEAN]

Hash == [bump : Nat, roles : SUBSET (Roles \X Scopes \X Nat), policy : Nat]

Memory == [decisions : SUBSET ({"can", "list"} \X Permissions \X Projects),
           existing : SUBSET Projects, rotated : BOOLEAN, rewritten : SUBSET SystemRoles]

Token == [step : {"issued"}, who : Principals, key : Nat, overtaken : BOOLEAN,
          session : Nat, fingerprint : Hash, revoked : BOOLEAN, history : Memory]

StartShapes == start \in [Processes -> Resting \cup Comparing \cup Writing]

RequestShapes == request \in [Requests -> {Idle} \cup Verified \cup Reader \cup Token]

----------------------------------------------------------------------------
(* The inductive invariant                                                 *)

\* What a reconciliation has read of the permissions and roles.
ReadSound(c) == c.permissions \subseteq catalog /\ \A r \in c.todo : Exists(r)

StartsSound ==
    /\ \A r \in Roles : role[r].permissions \subseteq catalog
    /\ \A s \in Processes :
          /\ start[s].step = "next" => ReadSound(start[s])
          /\ start[s].step \in {"delete", "insert"} =>
                /\ Exists(start[s].role) /\ start[s].left \subseteq catalog
                /\ ReadSound(start[s].rest)

AccountsSound ==
    \A a \in Accounts :
        IF Known(a) THEN \E k \in Keys : ActiveKeys(a) = {k}
        ELSE /\ \A k \in Keys : credential[a][k] = "NONE"
             /\ principal[a] = [session |-> 0, bump |-> 0]

KeyStands(t) == credential[t.who][t.key] = "ACTIVE" \/ t.overtaken

FollowedAs(t) ==
    /\ t.step = "verified" => KeyStands(t)
    /\ t.step \in {"reading", "issued"} =>
          /\ t.who \in Accounts => t.key \in Keys
          /\ t.session <= principal[t.who].session
          /\ t.who \in Accounts /\ t.session = principal[t.who].session => KeyStands(t)
    /\ t.step = "reading" /\ t.rotated => t.session < principal[t.who].session
    /\ t.step = "issued" /\ t.history.rotated => t.session < principal[t.who].session

Followed == \A q \in Requests : FollowedAs(request[q])

ReaderSound(t) ==
    /\ t.bump <= principal[t.who].bump
    /\ "assignments" \notin t.todo /\ t.bump = principal[t.who].bump =>
          t.entries = assigned[t.who]
    /\ "policies" \notin t.todo => t.policy <= policy

ReadsSound == \A q \in Requests : request[q].step = "reading" => ReaderSound(request[q])

\* The decisions on the projects there were at the time.
DecidedOn(p, existing) == {d \in Decisions(p) : d[3] \in existing}

TokenSound(t) ==
    /\ t.fingerprint.bump <= principal[t.who].bump
    /\ t.fingerprint.policy <= policy
    /\ t.fingerprint.bump = principal[t.who].bump =>
          assigned[t.who] = {<<e[1], e[2]>> : e \in t.fingerprint.roles}
    /\ \A e \in t.fingerprint.roles :
          e[1] \notin t.history.rewritten => e[3] <= role[e[1]].version
    /\ \A j \in t.history.existing : project[j].exists
    /\ Current(t.who) = t.fingerprint /\ RolesOf(t.who) \cap t.history.rewritten = {} =>
          DecidedOn(t.who, t.history.existing) = t.history.decisions

TokensSound == \A q \in Requests : request[q].step = "issued" => TokenSound(request[q])

DocumentsSound == TypeOK /\ StartShapes /\ StartsSound /\ AccountsSound

TokenInv == DocumentsSound /\ RequestShapes /\ Followed /\ ReadsSound /\ TokensSound

----------------------------------------------------------------------------
(* Kinds                                                                   *)

LEMMA StartKinds ==
    ASSUME StartShapes, NEW s \in Processes
    PROVE  /\ start[s].step = "next" => start[s] \in Comparing
           /\ start[s].step \in {"delete", "insert"} => start[s] \in Writing
  BY DEF StartShapes, Resting, Down, Comparing, Writing

LEMMA RequestKinds ==
    ASSUME RequestShapes, NEW q \in Requests
    PROVE  /\ request[q].step = "verified" => request[q] \in Verified
           /\ request[q].step = "reading" => request[q] \in Reader
           /\ request[q].step = "issued" => request[q] \in Token
           /\ request[q].step \in {"idle", "verified", "reading", "issued"}
           /\ request[q].step = "idle" => request[q] = Idle
  BY DEF RequestShapes, Idle, Verified, Reader, Token

LEMMA RoleKinds ==
    /\ SUPERADMIN \in Roles /\ SystemRoles \subseteq Roles
    /\ \A u \in Users : u \in Principals /\ u \notin Accounts
    /\ Accounts \subseteq Principals
    /\ Organization \in Scopes /\ Projects \subseteq Scopes
    /\ 1 \in Keys
  BY GrantAssumption, RotationAssumption DEF Roles, SystemRoles, Principals, Scopes, Keys

LEMMA Versions ==
    ASSUME TypeOK
    PROVE  /\ \A r \in Roles : role[r] \in Role /\ role[r].version \in Nat
                               /\ role[r].permissions \subseteq Permissions
           /\ \A p \in Principals : principal[p].session \in Nat /\ principal[p].bump \in Nat
           /\ \A p \in Principals : \A e \in assigned[p] :
                 e[1] \in Roles /\ e[2] \in Scopes /\ e = <<e[1], e[2]>>
           /\ \A r \in Roles : ~Exists(r) => role[r].version = 0
  BY DEF TypeOK, Role, Exists

----------------------------------------------------------------------------
(* What a step announces                                                   *)

\* Versions never go back, and what changes without one is a role that a start has
\* in work (R), or a project or role that did not exist.
Announced(R) ==
    /\ catalog \subseteq catalog'
    /\ \A r \in Roles : role[r].version > 0 => role'[r].version > 0
    /\ \A r \in Roles \ R : /\ role[r].version <= role'[r].version
                            /\ role'[r].version = role[r].version => role'[r] = role[r]
    /\ \A p \in Principals : /\ principal[p].session <= principal'[p].session
                             /\ principal[p].bump <= principal'[p].bump
                             /\ principal'[p].bump = principal[p].bump => assigned'[p] = assigned[p]
    /\ policy <= policy'
    /\ \A j \in Projects : project[j].exists =>
          project'[j].exists /\ (policy' = policy => project'[j] = project[j])

\* Existing roles stay, so that documents that name them keep their shape.
LEMMA NamesKept ==
    ASSUME TypeOK, \A r \in Roles : role[r].version > 0 => role'[r].version > 0
    PROVE  /\ {r \in Roles : Exists(r)} \subseteq {r \in Roles : Exists(r)}'
           /\ assigned \in [Principals -> SUBSET ({r \in Roles : Exists(r)}' \X Scopes)]
           /\ project \in [Projects -> [exists : BOOLEAN, roles : SUBSET {r \in Roles : Exists(r)}']]
  <1>1. {r \in Roles : Exists(r)} \subseteq {r \in Roles : Exists(r)}'
    BY DEF Exists
  <1>2. \A A, B : A \subseteq B =>
           /\ SUBSET (A \X Scopes) \subseteq SUBSET (B \X Scopes)
           /\ [exists : BOOLEAN, roles : SUBSET A] \subseteq [exists : BOOLEAN, roles : SUBSET B]
    OBVIOUS
  <1> QED BY <1>1, <1>2 DEF TypeOK

\* A command concerns no start and no account's credentials.
LEMMA CommandFrame ==
    ASSUME DocumentsSound, UNCHANGED <<catalog, credential, start, starts>>, Announced({}),
           \A a \in Accounts : principal'[a] = principal[a],
           \A r \in Roles : role'[r].permissions \subseteq catalog
    PROVE  StartShapes' /\ StartsSound' /\ AccountsSound'
  <1>1. StartShapes'
    BY DEF DocumentsSound, StartShapes
  <1>2. \A r \in Roles : Exists(r) => Exists(r)'
    BY DEF Announced, Exists
  <1>3. ASSUME NEW s \in Processes
        PROVE  /\ start[s].step = "next" => ReadSound(start[s])'
               /\ start[s].step \in {"delete", "insert"} =>
                     /\ Exists(start[s].role)' /\ start[s].left \subseteq catalog
                     /\ ReadSound(start[s].rest)'
    <2>1. CASE start[s].step = "next"
      <3>1. start[s] \in Comparing /\ ReadSound(start[s])
        BY <2>1, StartKinds DEF DocumentsSound, StartsSound
      <3> QED BY <1>2, <2>1, <3>1, RoleKinds DEF ReadSound, Comparing
    <2>2. CASE start[s].step \in {"delete", "insert"}
      <3>1. /\ start[s] \in Writing /\ Exists(start[s].role) /\ start[s].left \subseteq catalog
            /\ ReadSound(start[s].rest)
        BY <2>2, StartKinds DEF DocumentsSound, StartsSound
      <3>2. start[s].rest \in Comparing /\ start[s].role \in Roles
        BY <3>1, RoleKinds DEF Writing
      <3> QED BY <1>2, <2>2, <3>1, <3>2, RoleKinds DEF ReadSound, Comparing
    <2> QED BY <2>1, <2>2
  <1>4. StartsSound'
    BY <1>3 DEF StartsSound, ReadSound, Exists
  <1>5. AccountsSound'
    BY DEF DocumentsSound, AccountsSound, Known, ActiveKeys
  <1> QED BY <1>1, <1>4, <1>5

----------------------------------------------------------------------------
(* Commands                                                                *)

\* The superadmin role as the reconciliation of a command leaves it.
LEMMA SuperadminKept ==
    ASSUME DocumentsSound, role' = SuperadminReconciled
    PROVE  /\ role' \in [Roles -> Role]
           /\ role'[SUPERADMIN].version > 0
           /\ \A r \in Roles : role[r].version > 0 => role'[r].version > 0
           /\ \A r \in Roles : /\ role[r].version <= role'[r].version
                               /\ role'[r].version = role[r].version => role'[r] = role[r]
           /\ \A r \in Roles : role'[r].permissions \subseteq catalog
  <1>1. Ensured \in Nat /\ role[SUPERADMIN].version <= Ensured
    BY Versions, RoleKinds DEF DocumentsSound, Ensured
  <1>2. catalog \subseteq Permissions /\ \A r \in Roles : role[r].permissions \subseteq catalog
    BY DEF DocumentsSound, TypeOK, StartsSound
  <1>3. CASE Covering
    <2>1. role' = role /\ role[SUPERADMIN].version > 0
      BY <1>3 DEF SuperadminReconciled, Covering, Exists
    <2> QED BY <1>2, <2>1, Versions DEF DocumentsSound, TypeOK
  <1>4. CASE ~Covering
    <2> DEFINE new == [version |-> Ensured + 1, permissions |-> catalog]
    <2>1. role' = [role EXCEPT ![SUPERADMIN] = new]
      BY <1>4 DEF SuperadminReconciled
    <2>2. new \in Role /\ new.version = Ensured + 1 /\ new.permissions = catalog
      BY <1>1, <1>2 DEF Role
    <2>3. role' \in [Roles -> Role]
          /\ \A r \in Roles : role'[r] = IF r = SUPERADMIN THEN new ELSE role[r]
      BY <2>1, <2>2, RoleKinds DEF DocumentsSound, TypeOK
    <2> HIDE DEF new
    <2> QED BY <1>1, <1>2, <2>2, <2>3, RoleKinds, Versions DEF DocumentsSound
  <1> QED BY <1>3, <1>4

\* Roles that can be chosen exist.
LEMMA ResolvedExist ==
    ASSUME DocumentsSound, NEW requested \in SUBSET Readable,
           \A r \in Roles : role[r].version > 0 => role'[r].version > 0,
           role'[SUPERADMIN].version > 0
    PROVE  /\ Resolved(requested) \subseteq {r \in Roles : Exists(r)}'
           /\ Readable \cup {SUPERADMIN} \subseteq {r \in Roles : Exists(r)}'
  BY RoleKinds DEF Resolved, Readable, Allowing, Exists

LEMMA CreateRoleSound ==
    ASSUME DocumentsSound, NEW r \in Roles, CreateRole(r), UNCHANGED <<credential, request>>
    PROVE  DocumentsSound' /\ Announced({})
  <1>1. /\ role' = [role EXCEPT ![r].version = 1] /\ role[r].version = 0
        /\ UNCHANGED <<catalog, assigned, principal, project, policy, start, starts, credential>>
    BY Versions DEF CreateRole, DocumentsSound
  <1>2. /\ role' \in [Roles -> Role]
        /\ \A x \in Roles : role'[x] = IF x = r THEN [role[r] EXCEPT !.version = 1] ELSE role[x]
    BY <1>1 DEF DocumentsSound, TypeOK, Role
  <1>3. role'[r].version = 1 /\ role'[r].permissions = role[r].permissions
    BY <1>2, Versions DEF DocumentsSound, Role
  <1>4. Announced({})
    <2>1. \A x \in Roles : /\ role[x].version > 0 => role'[x].version > 0
                           /\ role[x].version <= role'[x].version
                           /\ role'[x].version = role[x].version => role'[x] = role[x]
      BY <1>1, <1>2, <1>3, Versions DEF DocumentsSound
    <2>2. policy \in Nat
      BY DEF DocumentsSound, TypeOK
    <2> QED BY <1>1, <2>1, <2>2, Versions DEF DocumentsSound, Announced
  <1>5. TypeOK'
    <2>1. /\ assigned' \in [Principals -> SUBSET ({x \in Roles : Exists(x)}' \X Scopes)]
          /\ project' \in [Projects -> [exists : BOOLEAN, roles : SUBSET {x \in Roles : Exists(x)}']]
      BY <1>1, <1>4, NamesKept DEF DocumentsSound, Announced
    <2> QED BY <1>1, <1>2, <2>1 DEF DocumentsSound, TypeOK, Known, ActiveKeys
  <1>6. StartShapes' /\ StartsSound' /\ AccountsSound'
    <2>1. \A x \in Roles : role'[x].permissions \subseteq catalog
      BY <1>2, <1>3 DEF DocumentsSound, StartsSound
    <2> QED BY <1>1, <1>4, <2>1, CommandFrame
  <1> QED BY <1>4, <1>5, <1>6 DEF DocumentsSound

LEMMA AssignPermissionsSound ==
    ASSUME DocumentsSound, NEW r \in Roles, NEW granted \in SUBSET catalog,
           AssignPermissions(r, granted), UNCHANGED <<credential, request>>
    PROVE  DocumentsSound' /\ Announced({})
  <1> DEFINE new == [version |-> role[r].version + 1, permissions |-> granted]
  <1>1. /\ role' = [role EXCEPT ![r] = new]
        /\ UNCHANGED <<catalog, assigned, principal, project, policy, start, starts, credential>>
    BY DEF AssignPermissions, WithPermissions, DocumentsSound, TypeOK
  <1>2. new \in Role /\ new.version = role[r].version + 1 /\ new.permissions \subseteq catalog
    BY Versions DEF DocumentsSound, TypeOK, Role
  <1>3. /\ role' \in [Roles -> Role]
        /\ \A x \in Roles : role'[x] = IF x = r THEN new ELSE role[x]
    BY <1>1, <1>2 DEF DocumentsSound, TypeOK
  <1> HIDE DEF new
  <1>4. Announced({})
    <2>1. \A x \in Roles : /\ role[x].version > 0 => role'[x].version > 0
                           /\ role[x].version <= role'[x].version
                           /\ role'[x].version = role[x].version => role'[x] = role[x]
      BY <1>2, <1>3, Versions DEF DocumentsSound
    <2>2. policy \in Nat
      BY DEF DocumentsSound, TypeOK
    <2> QED BY <1>1, <2>1, <2>2, Versions DEF DocumentsSound, Announced
  <1>5. TypeOK'
    <2>1. /\ assigned' \in [Principals -> SUBSET ({x \in Roles : Exists(x)}' \X Scopes)]
          /\ project' \in [Projects -> [exists : BOOLEAN, roles : SUBSET {x \in Roles : Exists(x)}']]
      BY <1>1, <1>4, NamesKept DEF DocumentsSound, Announced
    <2> QED BY <1>1, <1>3, <2>1 DEF DocumentsSound, TypeOK, Known, ActiveKeys
  <1>6. StartShapes' /\ StartsSound' /\ AccountsSound'
    <2>1. \A x \in Roles : role'[x].permissions \subseteq catalog
      BY <1>2, <1>3 DEF DocumentsSound, StartsSound
    <2> QED BY <1>1, <1>4, <2>1, CommandFrame
  <1> QED BY <1>4, <1>5, <1>6 DEF DocumentsSound

LEMMA AssignRoleSound ==
    ASSUME DocumentsSound, NEW u \in Users, NEW r \in Roles, NEW scope \in Scopes,
           AssignRole(u, r, scope), UNCHANGED <<credential, request>>
    PROVE  DocumentsSound' /\ Announced({})
  <1>1. /\ assigned' = [assigned EXCEPT ![u] = @ \cup {<<r, scope>>}] /\ Exists(r)
        /\ principal' = [principal EXCEPT ![u].bump = @ + 1]
        /\ UNCHANGED <<catalog, role, project, policy, start, starts, credential>>
    BY DEF AssignRole, Bumped
  <1>2. u \in Principals
    BY RoleKinds
  <1>3. /\ principal' \in [Principals -> [session : Nat, bump : Nat]]
        /\ principal'[u].session = principal[u].session
        /\ principal'[u].bump = principal[u].bump + 1
        /\ \A p \in Principals : p # u => principal'[p] = principal[p] /\ assigned'[p] = assigned[p]
    BY <1>1, <1>2 DEF DocumentsSound, TypeOK
  <1>4. Announced({})
    <2>1. \A p \in Principals : /\ principal[p].session <= principal'[p].session
                                /\ principal[p].bump <= principal'[p].bump
                                /\ principal'[p].bump = principal[p].bump => assigned'[p] = assigned[p]
      BY <1>3, Versions DEF DocumentsSound
    <2>2. policy \in Nat
      BY DEF DocumentsSound, TypeOK
    <2>3. \A x \in Roles : role[x].version \in Nat
      BY Versions DEF DocumentsSound
    <2>4. UNCHANGED <<catalog, role, project, policy>>
      BY <1>1
    <2> QED BY <2>1, <2>2, <2>3, <2>4 DEF Announced
  <1>5. TypeOK'
    <2>1. assigned' \in [Principals -> SUBSET ({x \in Roles : Exists(x)} \X Scopes)]
      BY <1>1, <1>2 DEF DocumentsSound, TypeOK
    <2> QED BY <1>1, <1>3, <2>1 DEF DocumentsSound, TypeOK, Known, ActiveKeys, Exists
  <1>6. StartShapes' /\ StartsSound' /\ AccountsSound'
    <2>1. \A a \in Accounts : principal'[a] = principal[a]
      BY <1>3, RoleKinds
    <2>2. \A x \in Roles : role'[x].permissions \subseteq catalog
      BY <1>1 DEF DocumentsSound, StartsSound
    <2> QED BY <1>1, <1>4, <2>1, <2>2, CommandFrame
  <1> QED BY <1>4, <1>5, <1>6 DEF DocumentsSound

LEMMA CreateProjectSound ==
    ASSUME DocumentsSound, NEW j \in Projects, NEW requested \in SUBSET Roles,
           CreateProject(j, requested), UNCHANGED <<credential, request>>
    PROVE  DocumentsSound' /\ Announced({})
  <1> DEFINE new == [exists |-> TRUE, roles |-> Resolved(requested)]
  <1>1. /\ role' = SuperadminReconciled /\ ~project[j].exists /\ requested \in SUBSET Readable
        /\ project' = [project EXCEPT ![j] = new]
        /\ UNCHANGED <<catalog, assigned, principal, policy, start, starts, credential>>
    BY DEF CreateProject
  <1>2. \A i \in Projects : i # j => project'[i] = project[i]
    BY <1>1 DEF DocumentsSound, TypeOK
  <1>3. Announced({})
    <2>1. policy \in Nat
      BY DEF DocumentsSound, TypeOK
    <2> QED BY <1>1, <1>2, <2>1, SuperadminKept, Versions DEF DocumentsSound, Announced
  <1>4. TypeOK'
    <2>1. /\ assigned' \in [Principals -> SUBSET ({x \in Roles : Exists(x)}' \X Scopes)]
          /\ project \in [Projects -> [exists : BOOLEAN, roles : SUBSET {x \in Roles : Exists(x)}']]
      BY <1>1, <1>3, NamesKept DEF DocumentsSound, Announced
    <2>2. Resolved(requested) \subseteq {x \in Roles : Exists(x)}'
      BY <1>1, SuperadminKept, ResolvedExist
    <2>3. project' \in [Projects -> [exists : BOOLEAN, roles : SUBSET {x \in Roles : Exists(x)}']]
      BY <1>1, <2>1, <2>2
    <2> QED BY <1>1, <2>1, <2>3, SuperadminKept DEF DocumentsSound, TypeOK, Known, ActiveKeys
  <1>5. StartShapes' /\ StartsSound' /\ AccountsSound'
    BY <1>1, <1>3, SuperadminKept, CommandFrame
  <1> QED BY <1>3, <1>4, <1>5 DEF DocumentsSound

LEMMA UpdateAccessRolesSound ==
    ASSUME DocumentsSound, NEW j \in Projects, NEW requested \in SUBSET Roles,
           UpdateAccessRoles(j, requested), UNCHANGED <<credential, request>>
    PROVE  DocumentsSound' /\ Announced({})
  <1>1. /\ role' = SuperadminReconciled /\ project[j].exists /\ requested \in SUBSET Readable
        /\ project' = [project EXCEPT ![j].roles = Resolved(requested)]
        /\ policy' = IF project' = project THEN policy ELSE policy + 1
        /\ UNCHANGED <<catalog, assigned, principal, start, starts, credential>>
    BY DEF UpdateAccessRoles
  <1>2. /\ \A i \in Projects : i # j => project'[i] = project[i]
        /\ project'[j] = [project[j] EXCEPT !.roles = Resolved(requested)]
        /\ project'[j].exists /\ policy \in Nat \ {0} /\ policy' \in Nat \ {0} /\ policy <= policy'
        /\ policy' = policy => project' = project
    BY <1>1 DEF DocumentsSound, TypeOK
  <1>3. Announced({})
    BY <1>1, <1>2, SuperadminKept, Versions DEF DocumentsSound, Announced
  <1>4. TypeOK'
    <2>1. /\ assigned' \in [Principals -> SUBSET ({x \in Roles : Exists(x)}' \X Scopes)]
          /\ project \in [Projects -> [exists : BOOLEAN, roles : SUBSET {x \in Roles : Exists(x)}']]
      BY <1>1, <1>3, NamesKept DEF DocumentsSound, Announced
    <2>2. Resolved(requested) \subseteq {x \in Roles : Exists(x)}'
      BY <1>1, SuperadminKept, ResolvedExist
    <2>3. project' \in [Projects -> [exists : BOOLEAN, roles : SUBSET {x \in Roles : Exists(x)}']]
      BY <1>1, <2>1, <2>2
    <2> QED BY <1>1, <1>2, <2>1, <2>3, SuperadminKept DEF DocumentsSound, TypeOK, Known, ActiveKeys
  <1>5. StartShapes' /\ StartsSound' /\ AccountsSound'
    BY <1>1, <1>3, SuperadminKept, CommandFrame
  <1> QED BY <1>3, <1>4, <1>5 DEF DocumentsSound

LEMMA BootstrapSuperadminSound ==
    ASSUME DocumentsSound, NEW u \in Users, BootstrapSuperadmin(u), UNCHANGED <<credential, request>>
    PROVE  DocumentsSound' /\ Announced({})
  <1> DEFINE held == <<SUPERADMIN, Organization>> \in assigned[u]
             new  == [version |-> Ensured + 1, permissions |-> catalog]
             repaired(j) == [project[j] EXCEPT !.roles = Readable \cup {SUPERADMIN}]
  <1>1. /\ role' = [role EXCEPT ![SUPERADMIN] = new]
        /\ assigned' = [assigned EXCEPT ![u] = @ \cup {<<SUPERADMIN, Organization>>}]
        /\ principal' = [principal EXCEPT
                            ![u] = [session |-> @.session + 1,
                                    bump    |-> IF held THEN @.bump ELSE @.bump + 1]]
        /\ project' = [j \in Projects |-> IF j \in Legacy THEN repaired(j) ELSE project[j]]
        /\ policy' = IF Legacy = {} THEN policy ELSE policy + 1
        /\ UNCHANGED <<catalog, start, starts, credential>>
    BY DEF BootstrapSuperadmin
  <1>2. /\ role' \in [Roles -> Role] /\ role'[SUPERADMIN].version > 0
        /\ \A r \in Roles : role[r].version > 0 => role'[r].version > 0
        /\ \A r \in Roles : /\ role[r].version <= role'[r].version
                            /\ role'[r].version = role[r].version => role'[r] = role[r]
        /\ \A r \in Roles : role'[r].permissions \subseteq catalog
    <2>1. Ensured \in Nat /\ role[SUPERADMIN].version <= Ensured
      BY Versions, RoleKinds DEF DocumentsSound, Ensured
    <2>2. catalog \subseteq Permissions /\ \A r \in Roles : role[r].permissions \subseteq catalog
      BY DEF DocumentsSound, TypeOK, StartsSound
    <2>3. new \in Role /\ new.version = Ensured + 1 /\ new.permissions = catalog
      BY <2>1, <2>2 DEF Role
    <2>4. role' \in [Roles -> Role]
          /\ \A r \in Roles : role'[r] = IF r = SUPERADMIN THEN new ELSE role[r]
      BY <1>1, <2>3, RoleKinds DEF DocumentsSound, TypeOK
    <2> HIDE DEF new
    <2> QED BY <2>1, <2>2, <2>3, <2>4, RoleKinds, Versions DEF DocumentsSound
  <1>3. u \in Principals /\ u \notin Accounts
    BY RoleKinds
  <1>4. /\ principal' \in [Principals -> [session : Nat, bump : Nat]]
        /\ principal'[u].session = principal[u].session + 1
        /\ principal'[u].bump = IF held THEN principal[u].bump ELSE principal[u].bump + 1
        /\ \A p \in Principals : p # u => principal'[p] = principal[p] /\ assigned'[p] = assigned[p]
    <2>1. principal[u].session \in Nat /\ principal[u].bump \in Nat
      BY <1>3, Versions DEF DocumentsSound
    <2>2. [session |-> principal[u].session + 1,
           bump    |-> IF held THEN principal[u].bump ELSE principal[u].bump + 1]
              \in [session : Nat, bump : Nat]
      BY <2>1
    <2> QED BY <1>1, <1>3, <2>2 DEF DocumentsSound, TypeOK
  <1>5. held => assigned'[u] = assigned[u]
    BY <1>1, <1>3 DEF DocumentsSound, TypeOK
  <1>6. \A j \in Projects : /\ j \notin Legacy => project'[j] = project[j]
                            /\ project[j].exists => project'[j].exists
    BY <1>1 DEF DocumentsSound, TypeOK
  <1>7. /\ policy \in Nat \ {0} /\ policy' \in Nat \ {0} /\ policy <= policy'
        /\ policy' = policy => Legacy = {}
    BY <1>1 DEF DocumentsSound, TypeOK
  <1>8. Announced({})
    <2>1. \A p \in Principals : /\ principal[p].session <= principal'[p].session
                                /\ principal[p].bump <= principal'[p].bump
                                /\ principal'[p].bump = principal[p].bump => assigned'[p] = assigned[p]
      BY <1>4, <1>5, Versions DEF DocumentsSound
    <2> QED BY <1>1, <1>2, <1>6, <1>7, <2>1 DEF Announced
  <1>9. TypeOK'
    <2>1. /\ assigned \in [Principals -> SUBSET ({x \in Roles : Exists(x)}' \X Scopes)]
          /\ project \in [Projects -> [exists : BOOLEAN, roles : SUBSET {x \in Roles : Exists(x)}']]
      BY <1>8, NamesKept DEF DocumentsSound, Announced
    <2>2. Readable \cup {SUPERADMIN} \subseteq {x \in Roles : Exists(x)}'
      BY <1>2, ResolvedExist
    <2>3. project' \in [Projects -> [exists : BOOLEAN, roles : SUBSET {x \in Roles : Exists(x)}']]
      <3>1. \A j \in Projects : repaired(j) \in [exists : BOOLEAN, roles : SUBSET {x \in Roles : Exists(x)}']
        BY <2>1, <2>2
      <3> QED BY <1>1, <2>1, <3>1
    <2>4. assigned' \in [Principals -> SUBSET ({x \in Roles : Exists(x)}' \X Scopes)]
      <3>1. <<SUPERADMIN, Organization>> \in {x \in Roles : Exists(x)}' \X Scopes
        BY <2>2, RoleKinds
      <3> QED BY <1>1, <1>3, <2>1, <3>1
    <2>5. /\ credential' \in [Accounts -> [Keys -> {"NONE", "ACTIVE", "REVOKED"}]]
          /\ \A a \in Accounts : Known(a)' <=> Cardinality(ActiveKeys(a)') = 1
      BY <1>1 DEF DocumentsSound, TypeOK, Known, ActiveKeys
    <2>6. catalog' \subseteq Permissions /\ role' \in [Roles -> Role]
      BY <1>1, <1>2 DEF DocumentsSound, TypeOK
    <2> QED BY <1>4, <1>7, <2>3, <2>4, <2>5, <2>6 DEF TypeOK
  <1>10. StartShapes' /\ StartsSound' /\ AccountsSound'
    <2>1. \A a \in Accounts : principal'[a] = principal[a]
      BY <1>3, <1>4, RoleKinds
    <2> QED BY <1>1, <1>2, <1>8, <2>1, CommandFrame
  <1> QED BY <1>8, <1>9, <1>10 DEF DocumentsSound

LEMMA CommandSound ==
    ASSUME DocumentsSound, CommandStep
    PROVE  DocumentsSound' /\ Announced({}) /\ request' = request
  BY CreateRoleSound, AssignPermissionsSound, AssignRoleSound, CreateProjectSound,
     UpdateAccessRolesSound, BootstrapSuperadminSound DEF CommandStep

----------------------------------------------------------------------------
(* Starts                                                                  *)

\* A step of a start: what it leaves of the start, of the roles and of the catalogue.
LEMMA StartFrame ==
    ASSUME DocumentsSound, NEW s \in Processes, NEW R,
           NEW held \in Resting \cup Comparing \cup Writing,
           start' = [start EXCEPT ![s] = held],
           UNCHANGED <<assigned, principal, project, policy, credential>>,
           catalog \subseteq catalog', catalog' \subseteq Permissions,
           role' \in [Roles -> Role],
           \A r \in Roles : role[r].version > 0 => role'[r].version > 0,
           \A r \in Roles \ R : role'[r] = role[r],
           \A r \in Roles : role'[r].permissions \subseteq catalog',
           held.step = "next" => held.permissions \subseteq catalog'
                                 /\ \A r \in held.todo : role[r].version > 0,
           held.step \in {"delete", "insert"} =>
                /\ role[held.role].version > 0 /\ held.left \subseteq catalog'
                /\ held.rest.permissions \subseteq catalog'
                /\ \A r \in held.rest.todo : role[r].version > 0
    PROVE  DocumentsSound' /\ Announced(R)
  <1>1. Announced(R)
    <2>1. policy \in Nat
      BY DEF DocumentsSound, TypeOK
    <2>2. \A r \in Roles : role[r].version \in Nat
      BY Versions DEF DocumentsSound
    <2>3. \A p \in Principals : principal[p].session \in Nat /\ principal[p].bump \in Nat
      BY Versions DEF DocumentsSound
    <2> QED BY <2>1, <2>2, <2>3 DEF Announced
  <1>2. TypeOK'
    <2>1. /\ assigned' \in [Principals -> SUBSET ({x \in Roles : Exists(x)}' \X Scopes)]
          /\ project' \in [Projects -> [exists : BOOLEAN, roles : SUBSET {x \in Roles : Exists(x)}']]
      BY NamesKept DEF DocumentsSound
    <2> QED BY <2>1 DEF DocumentsSound, TypeOK, Known, ActiveKeys
  <1>3. AccountsSound'
    BY DEF DocumentsSound, AccountsSound, Known, ActiveKeys
  <1>4. StartShapes' /\ \A x \in Processes : start'[x] = IF x = s THEN held ELSE start[x]
    BY DEF DocumentsSound, StartShapes
  <1>5. StartsSound'
    <2> SUFFICES ASSUME NEW x \in Processes
                 PROVE  /\ start'[x].step = "next" => ReadSound(start[x])'
                        /\ start'[x].step \in {"delete", "insert"} =>
                              /\ Exists(start[x].role)' /\ start'[x].left \subseteq catalog'
                              /\ ReadSound(start[x].rest)'
      BY DEF StartsSound
    <2>1. CASE x = s
      <3>1. start'[x] = held
        BY <1>4, <2>1
      <3>2. CASE held.step = "next"
        <4>1. held \in Comparing
          BY <3>2 DEF Resting, Down, Comparing, Writing
        <4> QED BY <3>1, <3>2, <4>1, RoleKinds DEF ReadSound, Exists, Comparing
      <3>3. CASE held.step \in {"delete", "insert"}
        <4>1. held \in Writing
          BY <3>3 DEF Resting, Down, Comparing, Writing
        <4>2. held.role \in Roles /\ held.rest.todo \subseteq Roles
          BY <4>1, RoleKinds DEF Writing, Comparing
        <4> QED BY <3>1, <3>3, <4>2 DEF ReadSound, Exists
      <3> QED BY <3>1, <3>2, <3>3
    <2>2. CASE x # s
      <3>1. start'[x] = start[x]
        BY <1>4, <2>2
      <3>2. CASE start[x].step = "next"
        <4>1. start[x] \in Comparing /\ ReadSound(start[x])
          BY <3>2, StartKinds DEF DocumentsSound, StartsSound
        <4>2. start[x].todo \subseteq Roles
          BY <4>1, RoleKinds DEF Comparing
        <4> QED BY <3>1, <3>2, <4>1, <4>2 DEF ReadSound, Exists
      <3>3. CASE start[x].step \in {"delete", "insert"}
        <4>1. /\ start[x] \in Writing /\ Exists(start[x].role) /\ start[x].left \subseteq catalog
              /\ ReadSound(start[x].rest)
          BY <3>3, StartKinds DEF DocumentsSound, StartsSound
        <4>2. start[x].role \in Roles /\ start[x].rest.todo \subseteq Roles
          BY <4>1, RoleKinds DEF Writing, Comparing
        <4> QED BY <3>1, <3>3, <4>1, <4>2 DEF ReadSound, Exists
      <3> QED BY <3>1, <3>2, <3>3
    <2> QED BY <2>1, <2>2
  <1> QED BY <1>1, <1>2, <1>3, <1>4, <1>5 DEF DocumentsSound

\* Steps of a start that leave the roles alone.
LEMMA QuietStartSound ==
    ASSUME DocumentsSound, NEW s \in Processes, UNCHANGED credential,
           \/ SeedPermissions(s) \/ ReadRoles(s) \/ ComeUp(s) \/ Die(s)
           \/ \E r \in SystemRoles : CompareRole(s, r)
    PROVE  DocumentsSound' /\ Announced({})
  <1>1. /\ catalog \subseteq Permissions /\ role \in [Roles -> Role] /\ s \in DOMAIN start
        /\ \A r \in Roles : role[r].permissions \subseteq catalog
    BY DEF DocumentsSound, TypeOK, StartsSound, StartShapes
  <1>2. CASE SeedPermissions(s)
    <2>1. PICK held : held = [step |-> "seeded"]
      OBVIOUS
    <2>2. start' = [start EXCEPT ![s] = held] /\ held \in Resting /\ held.step = "seeded"
      BY <1>2, <2>1 DEF SeedPermissions, Resting
    <2>3. /\ catalog' = catalog \cup Permissions
          /\ UNCHANGED <<role, assigned, principal, project, policy, credential>>
      BY <1>2 DEF SeedPermissions
    <2> QED BY <1>1, <2>2, <2>3, StartFrame
  <1>3. CASE ReadRoles(s)
    <2>1. PICK held : held = [step |-> "next", permissions |-> catalog,
                              versions |-> [r \in SystemRoles |-> role[r].version],
                              todo |-> {r \in SystemRoles : Exists(r)}]
      OBVIOUS
    <2>2. held \in Comparing
      <3>1. [r \in SystemRoles |-> role[r].version] \in [SystemRoles -> Nat]
        BY Versions, RoleKinds DEF DocumentsSound
      <3> QED BY <1>1, <2>1, <3>1 DEF Comparing
    <2>3. /\ held.step = "next" /\ held.permissions \subseteq catalog
          /\ \A r \in held.todo : role[r].version > 0
      BY <2>1 DEF Exists
    <2>4. /\ start' = [start EXCEPT ![s] = held]
          /\ UNCHANGED <<catalog, role, assigned, principal, project, policy, credential>>
      BY <1>3, <2>1 DEF ReadRoles
    <2> QED BY <1>1, <2>2, <2>3, <2>4, StartFrame
  <1>4. CASE ComeUp(s)
    <2>1. PICK held : held = [step |-> "up"]
      OBVIOUS
    <2>2. start' = [start EXCEPT ![s] = held] /\ held \in Resting /\ held.step = "up"
      BY <1>4, <2>1 DEF ComeUp, Resting
    <2>3. UNCHANGED <<catalog, role, assigned, principal, project, policy, credential>>
      BY <1>4 DEF ComeUp
    <2> QED BY <1>1, <2>2, <2>3, StartFrame
  <1>5. CASE Die(s)
    <2>1. PICK held : held = Down
      OBVIOUS
    <2>2. start' = [start EXCEPT ![s] = held] /\ held \in Resting /\ held.step = "down"
      BY <1>5, <2>1 DEF Die, Resting, Down
    <2>3. UNCHANGED <<catalog, role, assigned, principal, project, policy, credential>>
      BY <1>5 DEF Die
    <2> QED BY <1>1, <2>2, <2>3, StartFrame
  <1>6. ASSUME NEW r \in SystemRoles, CompareRole(s, r)
        PROVE  DocumentsSound' /\ Announced({})
    <2>1. PICK c \in Comparing : c = start[s]
      BY <1>6, StartKinds DEF CompareRole, DocumentsSound
    <2>2. /\ c.permissions \subseteq catalog /\ r \in c.todo
          /\ \A x \in c.todo : role[x].version > 0
      BY <1>6, <2>1 DEF CompareRole, DocumentsSound, StartsSound, ReadSound, Exists
    <2> DEFINE rest == [c EXCEPT !.todo = @ \ {r}]
               wanted == Expected(r, c.permissions)
               opened == [step |-> "delete", role |-> r, left |-> wanted, rest |-> rest]
    <2>3. /\ rest \in Comparing /\ rest.step = "next" /\ rest.permissions = c.permissions
          /\ rest.todo \subseteq c.todo
      BY <2>1 DEF Comparing
    <2>4. UNCHANGED <<catalog, role, assigned, principal, project, policy, credential>>
      BY <1>6 DEF CompareRole
    <2>5. CASE role[r].permissions = wanted \/ ~(wanted \subseteq c.permissions)
      <3>1. start' = [start EXCEPT ![s] = rest]
        BY <1>6, <2>1, <2>5 DEF CompareRole
      <3> HIDE DEF rest
      <3> QED BY <1>1, <2>2, <2>3, <2>4, <3>1, StartFrame
    <2>6. CASE ~(role[r].permissions = wanted \/ ~(wanted \subseteq c.permissions))
      <3>1. start' = [start EXCEPT ![s] = opened]
        BY <1>6, <2>1, <2>6 DEF CompareRole
      <3> HIDE DEF rest
      <3>2. /\ opened \in Writing /\ opened.step = "delete" /\ opened.role = r
            /\ opened.left = wanted /\ opened.rest = rest
        BY <1>1, <2>2, <2>3, <2>6 DEF Writing
      <3> HIDE DEF opened, wanted
      <3> QED BY <1>1, <2>2, <2>3, <2>4, <2>6, <3>1, <3>2, StartFrame
    <2> QED BY <2>5, <2>6
  <1> QED BY <1>2, <1>3, <1>4, <1>5, <1>6

\* The three writes of a start concern the role it has in work.
LEMMA RoleWriteSound ==
    ASSUME DocumentsSound, NEW s \in Processes, UNCHANGED credential,
           DeletePermissions(s) \/ InsertPermission(s) \/ SaveRole(s)
    PROVE  DocumentsSound' /\ start[s].role \in SystemRoles /\ Announced({start[s].role})
  <1>1. /\ catalog \subseteq Permissions /\ role \in [Roles -> Role] /\ s \in DOMAIN start
        /\ \A r \in Roles : role[r].permissions \subseteq catalog /\ role[r] \in Role
    BY DEF DocumentsSound, TypeOK, StartsSound, StartShapes
  <1>2. PICK c \in Writing : c = start[s]
    BY StartKinds DEF DeletePermissions, InsertPermission, SaveRole, DocumentsSound
  <1>3. PICK r \in SystemRoles : r = c.role
    BY DEF Writing
  <1>4. /\ role[r].version > 0 /\ c.left \subseteq catalog /\ c.rest \in Comparing
        /\ c.rest.permissions \subseteq catalog /\ \A x \in c.rest.todo : role[x].version > 0
        /\ r \in Roles /\ c.left \subseteq Permissions
    <2>1. c.step \in {"delete", "insert"} /\ c.rest \in Comparing /\ c.left \subseteq Permissions
      BY DEF Writing
    <2>2. Exists(start[s].role) /\ start[s].left \subseteq catalog /\ ReadSound(start[s].rest)
      BY <1>2, <2>1 DEF DocumentsSound, StartsSound
    <2> QED BY <1>2, <1>3, <2>1, <2>2, RoleKinds DEF ReadSound, Exists
  <1>5. SUFFICES DocumentsSound' /\ Announced({r})
    BY <1>2, <1>3
  <1>6. CASE DeletePermissions(s)
    <2>1. PICK held : held = [c EXCEPT !.step = "insert"]
      OBVIOUS
    <2>2. held \in Writing /\ held.step = "insert" /\ held.role = r /\ held.left = c.left /\ held.rest = c.rest
      BY <1>3, <2>1 DEF Writing
    <2>3. /\ start' = [start EXCEPT ![s] = held]
          /\ role' = [role EXCEPT ![r] = [role[r] EXCEPT !.permissions = {}]]
          /\ UNCHANGED <<catalog, assigned, principal, project, policy, credential>>
      BY <1>1, <1>2, <1>3, <1>4, <1>6, <2>1 DEF DeletePermissions, StartShapes, DocumentsSound
    <2> DEFINE new == [role[r] EXCEPT !.permissions = {}]
    <2>4. new \in Role /\ new.version = role[r].version /\ new.permissions = {}
      BY <1>1, <1>4 DEF Role
    <2> HIDE DEF new
    <2>5. role' \in [Roles -> Role] /\ \A x \in Roles : role'[x] = IF x = r THEN new ELSE role[x]
      BY <1>1, <1>4, <2>3, <2>4 DEF new
    <2> QED BY <1>1, <1>4, <2>2, <2>3, <2>4, <2>5, StartFrame
  <1>7. CASE InsertPermission(s)
    <2>1. PICK p \in Earliest(c.left) :
              IF p \in role[r].permissions
              THEN start' = [start EXCEPT ![s] = Down] /\ UNCHANGED role
              ELSE /\ role' = [role EXCEPT ![r].permissions = @ \cup {p}]
                   /\ start' = [start EXCEPT ![s].left = @ \ {p}]
      BY <1>2, <1>3, <1>7 DEF InsertPermission
    <2>2. UNCHANGED <<catalog, assigned, principal, project, policy, credential>> /\ p \in c.left
      BY <1>7 DEF InsertPermission, Earliest
    <2>3. CASE p \in role[r].permissions
      <3>1. PICK held : held = Down
        OBVIOUS
      <3>2. start' = [start EXCEPT ![s] = held] /\ held \in Resting /\ held.step = "down" /\ role' = role
        BY <2>1, <2>3, <3>1 DEF Resting, Down
      <3> QED BY <1>1, <2>2, <3>2, StartFrame
    <2>4. CASE p \notin role[r].permissions
      <3> DEFINE new == [role[r] EXCEPT !.permissions = @ \cup {p}]
      <3>1. PICK held : held = [c EXCEPT !.left = @ \ {p}]
        OBVIOUS
      <3>2. /\ held \in Writing /\ held.step = c.step /\ held.role = r
            /\ held.left \subseteq c.left /\ held.rest = c.rest
        BY <1>3, <3>1 DEF Writing
      <3>3. start' = [start EXCEPT ![s] = held] /\ role' = [role EXCEPT ![r] = new]
        BY <1>1, <1>2, <1>4, <2>1, <2>4, <3>1
      <3>4. new \in Role /\ new.version = role[r].version /\ new.permissions \subseteq catalog
        BY <1>1, <1>4, <2>2 DEF Role
      <3>5. role' \in [Roles -> Role] /\ \A x \in Roles : role'[x] = IF x = r THEN new ELSE role[x]
        BY <1>1, <1>4, <3>3, <3>4
      <3> HIDE DEF new
      <3> QED BY <1>1, <1>4, <2>2, <3>2, <3>3, <3>4, <3>5, StartFrame DEF Writing
    <2> QED BY <2>3, <2>4
  <1>8. CASE SaveRole(s)
    <2> DEFINE new == [role[r] EXCEPT !.version = c.rest.versions[r] + 1]
    <2>1. PICK held : held = c.rest
      OBVIOUS
    <2>2. held \in Comparing /\ held.step = "next" /\ held.versions[r] \in Nat
      BY <1>4, <2>1 DEF Comparing
    <2>3. /\ start' = [start EXCEPT ![s] = held] /\ role' = [role EXCEPT ![r] = new]
          /\ UNCHANGED <<catalog, assigned, principal, project, policy, credential>>
      BY <1>1, <1>2, <1>3, <1>4, <1>8, <2>1 DEF SaveRole
    <2>4. new \in Role /\ new.version > 0 /\ new.permissions = role[r].permissions
      BY <1>1, <1>4, <2>1, <2>2 DEF Role
    <2>5. role' \in [Roles -> Role] /\ \A x \in Roles : role'[x] = IF x = r THEN new ELSE role[x]
      BY <1>1, <1>4, <2>3, <2>4
    <2> HIDE DEF new
    <2> QED BY <1>1, <1>4, <2>1, <2>2, <2>3, <2>4, <2>5, StartFrame
  <1> QED BY <1>6, <1>7, <1>8

----------------------------------------------------------------------------
(* Service accounts                                                        *)

LEMMA AccountKeys ==
    ASSUME DocumentsSound, NEW a \in Accounts
    PROVE  /\ credential[a] \in [Keys -> {"NONE", "ACTIVE", "REVOKED"}]
           /\ ~Known(a) => \A k \in Keys : credential[a][k] = "NONE"
           /\ ~Known(a) => principal[a].session = 0 /\ principal[a].bump = 0
  BY DEF DocumentsSound, TypeOK, AccountsSound

\* One active credential of each account, and nothing of one that does not exist.
LEMMA CredentialFrame ==
    ASSUME DocumentsSound, NEW a \in Accounts, NEW k \in Keys,
           NEW keys \in [Keys -> {"NONE", "ACTIVE", "REVOKED"}],
           credential' = [credential EXCEPT ![a] = keys],
           keys[1] # "NONE", \A j \in Keys : keys[j] = "ACTIVE" <=> j = k,
           principal' \in [Principals -> [session : Nat, bump : Nat]],
           \A b \in Accounts \ {a} : principal'[b] = principal[b],
           UNCHANGED <<role, start, catalog, project, policy>>,
           assigned' \in [Principals -> SUBSET ({r \in Roles : Exists(r)} \X Scopes)]
    PROVE  DocumentsSound'
  <1>1. /\ credential' \in [Accounts -> [Keys -> {"NONE", "ACTIVE", "REVOKED"}]]
        /\ credential'[a] = keys /\ \A b \in Accounts \ {a} : credential'[b] = credential[b]
    BY DEF DocumentsSound, TypeOK
  <1>2. \A b \in Accounts \ {a} : Known(b)' = Known(b) /\ ActiveKeys(b)' = ActiveKeys(b)
    BY <1>1 DEF Known, ActiveKeys
  <1>3. Known(a)' /\ ActiveKeys(a)' = {k}
    BY <1>1 DEF Known, ActiveKeys
  <1>4. \A b \in Accounts : Known(b)' <=> Cardinality(ActiveKeys(b)') = 1
    <2>1. \A b \in Accounts \ {a} : Known(b)' <=> Cardinality(ActiveKeys(b)') = 1
      BY <1>2 DEF DocumentsSound, TypeOK
    <2>2. Cardinality(ActiveKeys(a)') = 1
      BY <1>3, FS_Singleton
    <2> QED BY <1>3, <2>1, <2>2
  <1>5. TypeOK'
    BY <1>1, <1>4 DEF DocumentsSound, TypeOK, Exists
  <1>6. AccountsSound'
    <2> SUFFICES ASSUME NEW b \in Accounts
                 PROVE  (IF Known(b) THEN \E j \in Keys : ActiveKeys(b) = {j}
                         ELSE /\ \A j \in Keys : credential[b][j] = "NONE"
                              /\ principal[b] = [session |-> 0, bump |-> 0])'
      BY DEF AccountsSound
    <2>1. CASE b = a
      BY <1>3, <2>1
    <2>2. CASE b # a
      BY <1>1, <1>2, <2>2 DEF DocumentsSound, AccountsSound
    <2> QED BY <2>1, <2>2
  <1>7. StartShapes' /\ StartsSound'
    BY DEF DocumentsSound, StartShapes, StartsSound, ReadSound, Exists
  <1> QED BY <1>5, <1>6, <1>7 DEF DocumentsSound

LEMMA CreateServiceAccountSound ==
    ASSUME DocumentsSound, NEW a \in Accounts, NEW r \in Roles, CreateServiceAccount(a, r)
    PROVE  /\ DocumentsSound' /\ Announced({}) /\ request' = request
           /\ \A b \in Accounts : \A k \in Keys : credential[b][k] = "ACTIVE" => credential'[b][k] = "ACTIVE"
  <1> DEFINE keys == [credential[a] EXCEPT ![1] = "ACTIVE"]
  <1>1. /\ credential' = [credential EXCEPT ![a] = keys] /\ Exists(r) /\ ~Known(a)
        /\ assigned' = [assigned EXCEPT ![a] = {<<r, Organization>>}]
        /\ principal' = [principal EXCEPT ![a] = [session |-> 0, bump |-> 1]]
        /\ UNCHANGED <<catalog, role, project, policy, start, starts, request>>
    BY DEF CreateServiceAccount, DocumentsSound, TypeOK
  <1>2. /\ keys \in [Keys -> {"NONE", "ACTIVE", "REVOKED"}] /\ keys[1] # "NONE"
        /\ \A j \in Keys : keys[j] = "ACTIVE" <=> j = 1
    BY <1>1, AccountKeys, RoleKinds
  <1>3. /\ principal' \in [Principals -> [session : Nat, bump : Nat]]
        /\ principal'[a].session = 0 /\ principal'[a].bump = 1
        /\ \A p \in Principals \ {a} : principal'[p] = principal[p] /\ assigned'[p] = assigned[p]
    BY <1>1, RoleKinds DEF DocumentsSound, TypeOK
  <1>4. assigned' \in [Principals -> SUBSET ({x \in Roles : Exists(x)} \X Scopes)]
    <2>1. <<r, Organization>> \in {x \in Roles : Exists(x)} \X Scopes
      BY <1>1, RoleKinds
    <2> QED BY <1>1, <2>1 DEF DocumentsSound, TypeOK
  <1>5. DocumentsSound'
    <2> HIDE DEF keys
    <2>1. \A b \in Accounts \ {a} : principal'[b] = principal[b]
      BY <1>3, RoleKinds
    <2>2. PICK fixed : fixed = keys
      OBVIOUS
    <2>3. /\ fixed \in [Keys -> {"NONE", "ACTIVE", "REVOKED"}] /\ fixed[1] # "NONE"
          /\ \A j \in Keys : fixed[j] = "ACTIVE" <=> j = 1
      BY <1>2, <2>2
    <2>4. /\ credential' = [credential EXCEPT ![a] = fixed] /\ 1 \in Keys
          /\ UNCHANGED <<role, start, catalog, project, policy>>
      BY <1>1, <2>2, RoleKinds
    <2>5. principal' \in [Principals -> [session : Nat, bump : Nat]]
      BY <1>3
    <2> QED BY <1>4, <2>1, <2>3, <2>4, <2>5, CredentialFrame
  <1>6. Announced({})
    <2>1. \A p \in Principals : /\ principal[p].session <= principal'[p].session
                                /\ principal[p].bump <= principal'[p].bump
                                /\ principal'[p].bump = principal[p].bump => assigned'[p] = assigned[p]
      BY <1>1, <1>3, AccountKeys, Versions DEF DocumentsSound
    <2>2. policy \in Nat /\ \A x \in Roles : role[x].version \in Nat
      BY Versions DEF DocumentsSound, TypeOK
    <2>3. UNCHANGED <<catalog, role, project, policy>>
      BY <1>1
    <2> QED BY <2>1, <2>2, <2>3 DEF Announced
  <1>7. \A b \in Accounts : \A k \in Keys : credential[b][k] = "ACTIVE" => credential'[b][k] = "ACTIVE"
    <2>1. \A k \in Keys : credential[a][k] # "ACTIVE"
      BY <1>1, AccountKeys
    <2>2. \A b \in Accounts \ {a} : credential'[b] = credential[b]
      BY <1>1 DEF DocumentsSound, TypeOK
    <2> QED BY <2>1, <2>2
  <1> QED BY <1>1, <1>5, <1>6, <1>7

LEMMA RotateCredentialSound ==
    ASSUME DocumentsSound, NEW a \in Accounts, NEW k \in Keys, RotateCredential(a, k)
    PROVE  /\ DocumentsSound' /\ Announced({}) /\ request' = Revoked(a)
           /\ principal'[a].session = principal[a].session + 1
           /\ \A b \in Accounts \ {a} : credential'[b] = credential[b]
  <1> DEFINE keys == RotatedKeys(a, k)
  <1>1. /\ credential' = [credential EXCEPT ![a] = keys] /\ Known(a) /\ credential[a][k] = "NONE"
        /\ principal' = [principal EXCEPT ![a].session = @ + 1] /\ request' = Revoked(a)
        /\ UNCHANGED <<catalog, role, assigned, project, policy, start, starts>>
    BY DEF RotateCredential
  <1>2. /\ keys \in [Keys -> {"NONE", "ACTIVE", "REVOKED"}] /\ keys[1] # "NONE"
        /\ \A j \in Keys : keys[j] = "ACTIVE" <=> j = k
    BY <1>1, AccountKeys, RoleKinds DEF RotatedKeys, Known
  <1>3. /\ principal' \in [Principals -> [session : Nat, bump : Nat]]
        /\ principal'[a].session = principal[a].session + 1 /\ principal'[a].bump = principal[a].bump
        /\ \A p \in Principals \ {a} : principal'[p] = principal[p]
    BY <1>1, RoleKinds DEF DocumentsSound, TypeOK
  <1>4. DocumentsSound'
    <2> HIDE DEF keys
    <2>1. \A b \in Accounts \ {a} : principal'[b] = principal[b]
      BY <1>3, RoleKinds
    <2>2. PICK fixed : fixed = keys
      OBVIOUS
    <2>3. assigned' \in [Principals -> SUBSET ({x \in Roles : Exists(x)} \X Scopes)]
      BY <1>1 DEF DocumentsSound, TypeOK
    <2> QED BY <1>1, <1>2, <1>3, <2>1, <2>2, <2>3, CredentialFrame
  <1>5. Announced({})
    <2>1. \A p \in Principals : /\ principal[p].session <= principal'[p].session
                                /\ principal[p].bump <= principal'[p].bump
      BY <1>3, Versions DEF DocumentsSound
    <2>2. policy \in Nat /\ \A x \in Roles : role[x].version \in Nat
      BY Versions DEF DocumentsSound, TypeOK
    <2>3. UNCHANGED <<catalog, role, assigned, project, policy>>
      BY <1>1
    <2> QED BY <2>1, <2>2, <2>3 DEF Announced
  <1>6. \A b \in Accounts \ {a} : credential'[b] = credential[b]
    BY <1>1 DEF DocumentsSound, TypeOK
  <1> QED BY <1>1, <1>3, <1>4, <1>5, <1>6

----------------------------------------------------------------------------
(* Tokens through a step                                                   *)

\* If no version it depends on changes, a principal may do and see what it could, on
\* the projects there were.
LEMMA SameDecisions ==
    ASSUME DocumentsSound, DocumentsSound', NEW R, Announced(R),
           NEW p \in Principals, NEW existing \in SUBSET Projects,
           \A j \in existing : project[j].exists,
           policy' = policy, assigned'[p] = assigned[p],
           \A r \in RolesOf(p) : r \notin R /\ role'[r].version = role[r].version
    PROVE  DecidedOn(p, existing)' = DecidedOn(p, existing)
  <1>1. \A j \in existing : /\ project[j].exists /\ project'[j] = project[j] /\ project'[j].exists
    BY DEF Announced
  <1>2. \A r \in RolesOf(p) : r \in Roles /\ role'[r] = role[r]
    BY DEF RolesOf, Announced
  <1>3. \A r \in RolesOf(p) : role'[r].permissions \cap catalog' = role[r].permissions \cap catalog
    BY <1>2 DEF DocumentsSound, StartsSound, Announced
  <1>4. \A j \in existing : Matched(p, j)' = Matched(p, j) /\ Matched(p, j) \subseteq RolesOf(p)
    BY RoleKinds DEF Matched, RolesOf
  <1>5. \A j \in existing, c \in Permissions :
           Allowing(Matched(p, j), c)' = Allowing(Matched(p, j), c)
    BY <1>2, <1>3, <1>4 DEF Allowing, Exists
  <1>6. \A j \in existing, c \in Permissions :
           /\ Can(p, c, j)' <=> Can(p, c, j)
           /\ Listed(p, c, j)' <=> Listed(p, c, j)
    BY <1>1, <1>4, <1>5 DEF Can, Listed
  <1>7. \A d \in {"can", "list"} \X Permissions \X Projects :
           d[3] \in existing => (d \in Decisions(p)' <=> d \in Decisions(p))
    <2> SUFFICES ASSUME NEW k \in {"can", "list"}, NEW c \in Permissions, NEW j \in existing
                 PROVE  <<k, c, j>> \in Decisions(p)' <=> <<k, c, j>> \in Decisions(p)
      OBVIOUS
    <2>1. <<k, c, j>> \in Decisions(p) <=> IF k = "can" THEN Can(p, c, j) ELSE Listed(p, c, j)
      BY <1>1 DEF Decisions
    <2>2. <<k, c, j>> \in Decisions(p)' <=> IF k = "can" THEN Can(p, c, j)' ELSE Listed(p, c, j)'
      BY <1>1 DEF Decisions
    <2> QED BY <1>6, <2>1, <2>2
  <1>8. /\ Decisions(p) \subseteq {"can", "list"} \X Permissions \X Projects
        /\ Decisions(p)' \subseteq {"can", "list"} \X Permissions \X Projects
    BY DEF Decisions
  <1> QED BY <1>7, <1>8 DEF DecidedOn

\* What a step may do to what is remembered of a token.
Follows(t, u, R) ==
    /\ u.who = t.who /\ u.fingerprint = t.fingerprint
    /\ u.history.decisions = t.history.decisions /\ u.history.existing = t.history.existing
    /\ t.history.rewritten \cup R \subseteq u.history.rewritten

LEMMA TokenKept ==
    ASSUME DocumentsSound, DocumentsSound', NEW R, Announced(R),
           NEW t \in Token, NEW u \in Token, Follows(t, u, R), TokenSound(t)
    PROVE  TokenSound(u)'
  <1> DEFINE p == t.who
             f == t.fingerprint
             h == t.history
  <1>1. /\ p \in Principals /\ f \in Hash /\ h \in Memory /\ u.history \in Memory
        /\ u.who = p /\ u.fingerprint = f /\ u.history.decisions = h.decisions
        /\ u.history.existing = h.existing /\ h.rewritten \cup R \subseteq u.history.rewritten
    BY DEF Token, Follows
  <1>2. /\ f.bump <= principal[p].bump /\ f.policy <= policy
        /\ f.bump = principal[p].bump => assigned[p] = {<<e[1], e[2]>> : e \in f.roles}
        /\ \A e \in f.roles : e[1] \notin h.rewritten => e[3] <= role[e[1]].version
        /\ \A j \in h.existing : project[j].exists
        /\ Current(p) = f /\ RolesOf(p) \cap h.rewritten = {} => DecidedOn(p, h.existing) = h.decisions
    BY DEF TokenSound
  <1>3. /\ f.bump \in Nat /\ f.policy \in Nat /\ policy \in Nat /\ policy' \in Nat
        /\ principal[p].bump \in Nat /\ principal'[p].bump \in Nat
        /\ \A e \in f.roles : e[1] \in Roles /\ e[2] \in Scopes /\ e[3] \in Nat
        /\ h.existing \subseteq Projects
    BY <1>1, Versions DEF Hash, Memory, DocumentsSound, TypeOK
  <1>4. \A r \in Roles : role[r].version \in Nat /\ role'[r].version \in Nat
    BY Versions DEF DocumentsSound, TypeOK, Role
  <1>5. f.bump <= principal'[p].bump /\ f.policy <= policy'
    BY <1>1, <1>2, <1>3 DEF Announced
  <1>6. f.bump = principal'[p].bump => f.bump = principal[p].bump /\ assigned'[p] = assigned[p]
    BY <1>1, <1>2, <1>3 DEF Announced
  <1>7. \A e \in f.roles : e[1] \notin u.history.rewritten =>
           /\ e[3] <= role[e[1]].version /\ role[e[1]].version <= role'[e[1]].version
           /\ e[3] <= role'[e[1]].version
    BY <1>1, <1>2, <1>3, <1>4 DEF Announced
  <1>8. \A j \in h.existing : project'[j].exists
    BY <1>2, <1>3 DEF Announced
  <1>9. ASSUME Current(p)' = f, RolesOf(p)' \cap u.history.rewritten = {}
        PROVE  DecidedOn(p, h.existing)' = h.decisions
    <2>1. /\ principal'[p].bump = f.bump /\ policy' = f.policy
          /\ f.roles = {<<e[1], e[2], role'[e[1]].version>> : e \in assigned'[p]}
      BY <1>9 DEF Current, Fingerprint
    <2>2. /\ principal[p].bump = f.bump /\ assigned'[p] = assigned[p]
          /\ policy = f.policy
      <3>1. policy <= policy'
        BY DEF Announced
      <3>2. policy = f.policy
        BY <1>2, <1>3, <2>1, <3>1
      <3> QED BY <1>6, <2>1, <3>2
    <2>3. RolesOf(p)' = RolesOf(p)
      BY <2>2 DEF RolesOf
    <2>4. \A e \in assigned[p] : /\ e[1] \in RolesOf(p) /\ e[1] \notin u.history.rewritten
                                 /\ role'[e[1]].version = role[e[1]].version
      <3> SUFFICES ASSUME NEW e \in assigned[p]
                   PROVE  /\ e[1] \in RolesOf(p) /\ e[1] \notin u.history.rewritten
                          /\ role'[e[1]].version = role[e[1]].version
        OBVIOUS
      <3>1. e[1] \in Roles /\ e[2] \in Scopes /\ e = <<e[1], e[2]>>
        BY <1>1, Versions DEF DocumentsSound
      <3>2. e[1] \in RolesOf(p)
        BY <3>1 DEF RolesOf
      <3>3. e[1] \notin u.history.rewritten
        BY <1>9, <2>3, <3>2
      <3>4. <<e[1], e[2], role'[e[1]].version>> \in f.roles
        BY <2>1, <2>2
      <3>5. role'[e[1]].version <= role[e[1]].version /\ role[e[1]].version <= role'[e[1]].version
        BY <1>7, <3>3, <3>4
      <3> QED BY <1>4, <3>1, <3>2, <3>3, <3>5
    <2>5. Current(p) = f
      <3>1. {<<e[1], e[2], role'[e[1]].version>> : e \in assigned'[p]}
              = {<<e[1], e[2], role[e[1]].version>> : e \in assigned[p]}
        BY <2>2, <2>4
      <3>2. f = [bump |-> f.bump, roles |-> f.roles, policy |-> f.policy]
        BY <1>1 DEF Hash
      <3> QED BY <2>1, <2>2, <3>1, <3>2 DEF Current, Fingerprint
    <2>6. RolesOf(p) \cap h.rewritten = {}
      BY <1>1, <1>9, <2>3
    <2>7. \A r \in RolesOf(p) : r \notin R /\ role'[r].version = role[r].version
      <3>1. \A r \in RolesOf(p) : \E e \in assigned[p] : e[1] = r
        BY DEF RolesOf
      <3>2. \A r \in RolesOf(p) : r \notin u.history.rewritten
        BY <1>9, <2>3
      <3> QED BY <1>1, <2>4, <3>1, <3>2
    <2>8. DecidedOn(p, h.existing)' = DecidedOn(p, h.existing)
      BY <1>1, <1>2, <1>3, <2>1, <2>2, <2>7, SameDecisions
    <2> QED BY <1>2, <2>5, <2>6, <2>8
  <1> QED BY <1>1, <1>5, <1>6, <1>2, <1>7, <1>8, <1>9 DEF TokenSound

----------------------------------------------------------------------------
(* Requests while documents change                                         *)

LEMMA TokensKept ==
    ASSUME TokenInv, DocumentsSound', RequestShapes', NEW R, Announced(R),
           \A q \in Requests : request'[q].step = "issued" =>
               request[q].step = "issued" /\ Follows(request[q], request'[q], R)
    PROVE  TokensSound'
  <1> SUFFICES ASSUME NEW q \in Requests, request'[q].step = "issued"
               PROVE  TokenSound(request[q])'
    BY DEF TokensSound
  <1>1. PICK t \in Token : t = request[q]
    BY RequestKinds DEF TokenInv
  <1>2. PICK u \in Token : u = request'[q]
    BY DEF RequestShapes, Idle, Verified, Reader, Token
  <1>3. Follows(t, u, R) /\ TokenSound(t)
    BY <1>1, <1>2 DEF TokenInv, TokensSound
  <1>4. TokenSound(u)'
    BY <1>3, TokenKept DEF TokenInv
  <1> QED BY <1>2, <1>4

LEMMA ReadsKept ==
    ASSUME TokenInv, DocumentsSound', NEW R, Announced(R),
           \A q \in Requests : request'[q].step = "reading" =>
               /\ request[q].step = "reading"
               /\ request'[q].who = request[q].who /\ request'[q].bump = request[q].bump
               /\ request'[q].todo = request[q].todo /\ request'[q].entries = request[q].entries
               /\ request'[q].policy = request[q].policy
    PROVE  ReadsSound'
  <1> SUFFICES ASSUME NEW q \in Requests, request'[q].step = "reading"
               PROVE  ReaderSound(request[q])'
    BY DEF ReadsSound
  <1>1. PICK t \in Reader : t = request[q]
    BY RequestKinds DEF TokenInv
  <1>2. ReaderSound(t) /\ t.who \in Principals /\ t.bump \in Nat /\ t.policy \in Nat
    BY <1>1 DEF TokenInv, ReadsSound, Reader
  <1>3. /\ principal[t.who].bump \in Nat /\ principal'[t.who].bump \in Nat
        /\ policy \in Nat /\ policy' \in Nat
    BY <1>2, Versions DEF TokenInv, DocumentsSound, TypeOK
  <1>4. /\ t.bump <= principal'[t.who].bump
        /\ t.bump = principal'[t.who].bump =>
              t.bump = principal[t.who].bump /\ assigned'[t.who] = assigned[t.who]
        /\ policy <= policy'
    BY <1>2, <1>3 DEF Announced, ReaderSound
  <1> QED BY <1>1, <1>2, <1>3, <1>4 DEF ReaderSound

\* Steps of commands, starts and creations: requests keep what they hold, and a
\* credential stays active.
LEMMA RequestsKept ==
    ASSUME TokenInv, DocumentsSound', NEW R \in SUBSET SystemRoles, Announced(R),
           \A a \in Accounts : \A k \in Keys :
               credential[a][k] = "ACTIVE" => credential'[a][k] = "ACTIVE",
           request' = [q \in Requests |->
               IF request[q].step = "issued"
               THEN [request[q] EXCEPT !.history.rewritten = @ \cup R] ELSE request[q]]
    PROVE  TokenInv'
  <1>1. ASSUME NEW q \in Requests, request[q].step = "issued"
        PROVE  /\ request'[q] \in Token /\ Follows(request[q], request'[q], R)
               /\ request'[q].step = "issued" /\ request'[q].key = request[q].key
               /\ request'[q].overtaken = request[q].overtaken
               /\ request'[q].session = request[q].session
               /\ request'[q].history.rotated = request[q].history.rotated
    <2>1. PICK t \in Token : t = request[q]
      BY <1>1, RequestKinds DEF TokenInv
    <2>2. t.history \in Memory
      BY DEF Token
    <2> DEFINE h == [t.history EXCEPT !.rewritten = @ \cup R]
    <2>3. /\ h \in Memory /\ h.decisions = t.history.decisions /\ h.existing = t.history.existing
          /\ h.rotated = t.history.rotated /\ h.rewritten = t.history.rewritten \cup R
      BY <2>2 DEF Memory
    <2>4. request'[q] = [t EXCEPT !.history = h]
      BY <1>1, <2>1
    <2> HIDE DEF h
    <2> QED BY <1>1, <2>1, <2>3, <2>4 DEF Token, Follows
  <1>2. \A q \in Requests : request[q].step # "issued" => request'[q] = request[q]
    OBVIOUS
  <1>3. RequestShapes'
    BY <1>1, <1>2 DEF TokenInv, RequestShapes
  <1>4. TokensSound'
    BY <1>1, <1>2, <1>3, TokensKept
  <1>5. ReadsSound'
    BY <1>1, <1>2, ReadsKept
  <1>6. Followed'
    <2> SUFFICES ASSUME NEW q \in Requests
                 PROVE  FollowedAs(request[q])'
      BY DEF Followed
    <2>1. FollowedAs(request[q])
      BY DEF TokenInv, Followed
    <2>2. \A p \in Principals : /\ principal[p].session \in Nat /\ principal'[p].session \in Nat
                                /\ principal[p].session <= principal'[p].session
      BY Versions DEF TokenInv, DocumentsSound, TypeOK, Announced
    <2>3. CASE request[q].step = "idle"
      BY <1>2, <2>3 DEF FollowedAs
    <2>4. CASE request[q].step = "verified"
      <3>1. request[q] \in Verified /\ request'[q] = request[q] /\ KeyStands(request[q])
        BY <1>2, <2>1, <2>4, RequestKinds DEF TokenInv, FollowedAs
      <3> QED BY <2>4, <3>1 DEF FollowedAs, KeyStands, Verified
    <2>5. CASE request[q].step \in {"reading", "issued"}
      <3> DEFINE t == request[q]
                 u == request'[q]
      <3>1. /\ u.step = t.step /\ u.who = t.who /\ u.session = t.session /\ u.key = t.key
            /\ u.overtaken = t.overtaken
            /\ t.step = "reading" => u.rotated = t.rotated
            /\ t.step = "issued" => u.history.rotated = t.history.rotated
        BY <1>1, <1>2, <2>5 DEF Follows
      <3>2. t.who \in Principals /\ t.session \in Nat
        BY <2>5, RequestKinds DEF TokenInv, Reader, Token
      <3>3. u.session <= principal'[u.who].session
        BY <2>1, <2>2, <2>5, <3>1, <3>2 DEF FollowedAs
      <3>4. u.session = principal'[u.who].session => t.session = principal[t.who].session
        BY <2>1, <2>2, <2>5, <3>1, <3>2 DEF FollowedAs
      <3>5. t.session < principal[t.who].session => u.session < principal'[u.who].session
        BY <2>2, <3>1, <3>2
      <3>6. t.who \in Accounts /\ t.session = principal[t.who].session => KeyStands(t)
        BY <2>1, <2>5 DEF FollowedAs
      <3>7. t.who \in Accounts /\ KeyStands(t) =>
               credential'[u.who][u.key] = "ACTIVE" \/ u.overtaken
        <4>1. t.who \in Accounts => credential[t.who] \in [Keys -> {"NONE", "ACTIVE", "REVOKED"}]
          BY DEF TokenInv, DocumentsSound, TypeOK
        <4>2. t.who \in Accounts => t.key \in Keys
          BY <2>1, <2>5 DEF FollowedAs
        <4> QED BY <3>1, <4>1, <4>2 DEF KeyStands
      <3>8. (t.step = "reading" /\ t.rotated) \/ (t.step = "issued" /\ t.history.rotated) =>
               t.session < principal[t.who].session
        BY <2>1 DEF FollowedAs
      <3>9. t.who \in Accounts => t.key \in Keys
        BY <2>1, <2>5 DEF FollowedAs
      <3> QED BY <2>5, <3>1, <3>3, <3>4, <3>5, <3>6, <3>7, <3>8, <3>9 DEF FollowedAs, KeyStands
    <2> QED BY <2>3, <2>4, <2>5, RequestKinds DEF TokenInv
  <1> QED BY <1>3, <1>4, <1>5, <1>6 DEF TokenInv

\* A rotation leaves behind what was read of the account before.
LEMMA RequestsRevoked ==
    ASSUME TokenInv, DocumentsSound', Announced({}), NEW a \in Accounts, request' = Revoked(a),
           principal'[a].session = principal[a].session + 1,
           \A b \in Accounts \ {a} : credential'[b] = credential[b]
    PROVE  TokenInv'
  <1>0. \A p \in Principals : /\ principal[p].session \in Nat /\ principal'[p].session \in Nat
                              /\ principal[p].session <= principal'[p].session
    BY Versions DEF TokenInv, DocumentsSound, TypeOK, Announced
  <1>1. ASSUME NEW q \in Requests, IssuedTo(q, a)
        PROVE  /\ request'[q] \in Token /\ Follows(request[q], request'[q], {})
               /\ FollowedAs(request[q])'
    <2>1. PICK t \in Token : t = request[q] /\ t.who = a
      BY <1>1, RequestKinds DEF TokenInv, IssuedTo
    <2>2. t.history \in Memory /\ a \in Principals
      BY <2>1 DEF Token
    <2> DEFINE h == [t.history EXCEPT !.rotated = TRUE]
    <2>3. /\ h \in Memory /\ h.decisions = t.history.decisions /\ h.existing = t.history.existing
          /\ h.rotated = TRUE /\ h.rewritten = t.history.rewritten
      BY <2>2 DEF Memory
    <2>4. request'[q] = [t EXCEPT !.revoked = TRUE, !.history = h]
      <3>1. request'[q] = [request[q] EXCEPT !.revoked = TRUE, !.history.rotated = TRUE]
        BY <1>1 DEF Revoked, IssuedTo
      <3>2. [t EXCEPT !.revoked = TRUE, !.history.rotated = TRUE]
              = [t EXCEPT !.revoked = TRUE, !.history = h]
        BY DEF Token
      <3> QED BY <2>1, <3>1, <3>2
    <2> HIDE DEF h
    <2>5. /\ request'[q] \in Token /\ request'[q].step = "issued" /\ request'[q].who = a
          /\ request'[q].fingerprint = t.fingerprint /\ request'[q].history = h
          /\ request'[q].session = t.session /\ request'[q].key = t.key
      BY <2>1, <2>4, <2>3 DEF Token
    <2>6. Follows(request[q], request'[q], {})
      BY <2>1, <2>3, <2>5 DEF Follows
    <2>7. t.session \in Nat /\ t.session < principal'[a].session /\ t.key \in Keys
      <3>1. FollowedAs(request[q]) /\ t.step = "issued"
        BY <2>1 DEF TokenInv, Followed, Token
      <3>2. t.session <= principal[a].session /\ t.key \in Keys
        BY <2>1, <3>1 DEF FollowedAs
      <3> QED BY <1>0, <2>2, <3>2 DEF Token
    <2> QED BY <1>0, <2>2, <2>5, <2>6, <2>7 DEF FollowedAs
  <1>2. ASSUME NEW q \in Requests, request[q].step = "reading", request[q].who = a
        PROVE  /\ request'[q] \in Reader /\ request'[q].step = "reading"
               /\ request'[q].who = request[q].who /\ request'[q].bump = request[q].bump
               /\ request'[q].todo = request[q].todo /\ request'[q].entries = request[q].entries
               /\ request'[q].policy = request[q].policy
               /\ FollowedAs(request[q])'
    <2>1. PICK t \in Reader : t = request[q] /\ t.who = a
      BY <1>2, RequestKinds DEF TokenInv
    <2>2. request'[q] = [t EXCEPT !.rotated = TRUE]
      BY <1>2, <2>1 DEF Revoked, IssuedTo
    <2>3. /\ request'[q] \in Reader /\ request'[q].step = "reading" /\ request'[q].who = a
          /\ request'[q].bump = t.bump /\ request'[q].todo = t.todo /\ request'[q].policy = t.policy
          /\ request'[q].entries = t.entries /\ request'[q].session = t.session
          /\ request'[q].key = t.key
      BY <2>1, <2>2 DEF Reader
    <2>4. t.session \in Nat /\ t.session < principal'[a].session /\ t.key \in Keys /\ a \in Principals
      <3>1. FollowedAs(request[q]) /\ t.step = "reading"
        BY <2>1 DEF TokenInv, Followed, Reader
      <3>2. t.session <= principal[a].session /\ t.key \in Keys
        BY <2>1, <3>1 DEF FollowedAs
      <3> QED BY <1>0, <2>1, <3>2, RoleKinds DEF Reader
    <2> QED BY <1>0, <2>1, <2>3, <2>4 DEF FollowedAs
  <1>3. ASSUME NEW q \in Requests, request[q].step = "verified", request[q].who = a
        PROVE  request'[q] \in Verified /\ FollowedAs(request[q])'
    <2>1. PICK t \in Verified : t = request[q]
      BY <1>3, RequestKinds DEF TokenInv
    <2>2. request'[q] = [t EXCEPT !.overtaken = TRUE]
      BY <1>3, <2>1 DEF Revoked, IssuedTo
    <2>3. request'[q] \in Verified /\ request'[q].step = "verified" /\ request'[q].overtaken = TRUE
      BY <2>2 DEF Verified
    <2> QED BY <2>3 DEF FollowedAs, KeyStands
  <1>4. ASSUME NEW q \in Requests,
               ~(request[q].step \in {"verified", "reading", "issued"} /\ request[q].who = a)
        PROVE  request'[q] = request[q] /\ FollowedAs(request[q])'
    <2>1. request'[q] = request[q]
      BY <1>4 DEF Revoked, IssuedTo
    <2>2. FollowedAs(request[q])
      BY DEF TokenInv, Followed
    <2>3. CASE request[q].step = "idle"
      BY <2>1, <2>3 DEF FollowedAs
    <2>4. CASE request[q].step = "verified"
      <3>1. request[q].who \in Accounts \ {a} /\ KeyStands(request[q])
        BY <1>4, <2>2, <2>4, RequestKinds DEF TokenInv, Verified, FollowedAs
      <3> QED BY <2>1, <2>4, <3>1 DEF FollowedAs, KeyStands
    <2>5. CASE request[q].step \in {"reading", "issued"}
      <3> DEFINE t == request[q]
      <3>1. t.who \in Principals /\ t.who # a /\ t.session \in Nat
        BY <1>4, <2>5, RequestKinds DEF TokenInv, Reader, Token
      <3>2. /\ t.session <= principal'[t.who].session
            /\ t.session = principal'[t.who].session => t.session = principal[t.who].session
            /\ t.session < principal[t.who].session => t.session < principal'[t.who].session
        BY <1>0, <2>2, <2>5, <3>1 DEF FollowedAs
      <3>3. t.who \in Accounts => credential'[t.who] = credential[t.who]
        BY <3>1
      <3> QED BY <2>1, <2>2, <2>5, <3>2, <3>3 DEF FollowedAs, KeyStands
    <2> QED BY <2>1, <2>3, <2>4, <2>5, RequestKinds DEF TokenInv
  <1>5. \A q \in Requests : \/ IssuedTo(q, a)
                            \/ request[q].step = "reading" /\ request[q].who = a
                            \/ request[q].step = "verified" /\ request[q].who = a
                            \/ ~(request[q].step \in {"verified", "reading", "issued"} /\ request[q].who = a)
    BY DEF IssuedTo
  <1>6. RequestShapes'
    <2>1. \A q \in Requests : request'[q] \in {Idle} \cup Verified \cup Reader \cup Token
      BY <1>1, <1>2, <1>3, <1>4, <1>5 DEF TokenInv, RequestShapes
    <2> QED BY <2>1 DEF Revoked, RequestShapes
  <1>7. Followed'
    BY <1>1, <1>2, <1>3, <1>4, <1>5 DEF Followed
  <1>8. TokensSound'
    <2>1. ASSUME NEW q \in Requests, request'[q].step = "issued"
          PROVE  request[q].step = "issued" /\ Follows(request[q], request'[q], {})
      <3>1. CASE IssuedTo(q, a)
        BY <1>1, <3>1 DEF IssuedTo
      <3>2. CASE request[q].step \in {"reading", "verified"} /\ request[q].who = a
        BY <1>2, <1>3, <2>1, <3>2 DEF Reader, Verified
      <3>3. CASE ~(request[q].step \in {"verified", "reading", "issued"} /\ request[q].who = a)
        BY <1>4, <2>1, <3>3 DEF Follows
      <3> QED BY <1>5, <3>1, <3>2, <3>3
    <2> QED BY <1>6, <2>1, TokensKept
  <1>9. ReadsSound'
    <2>1. ASSUME NEW q \in Requests, request'[q].step = "reading"
          PROVE  /\ request[q].step = "reading"
                 /\ request'[q].who = request[q].who /\ request'[q].bump = request[q].bump
                 /\ request'[q].todo = request[q].todo /\ request'[q].entries = request[q].entries
                 /\ request'[q].policy = request[q].policy
      <3>1. CASE IssuedTo(q, a)
        BY <1>1, <2>1, <3>1 DEF Token
      <3>2. CASE request[q].step \in {"reading", "verified"} /\ request[q].who = a
        BY <1>2, <1>3, <2>1, <3>2 DEF Verified
      <3>3. CASE ~(request[q].step \in {"verified", "reading", "issued"} /\ request[q].who = a)
        BY <1>4, <2>1, <3>3
      <3> QED BY <1>5, <3>1, <3>2, <3>3
    <2> QED BY <2>1, ReadsKept
  <1> QED BY <1>6, <1>7, <1>8, <1>9 DEF TokenInv

----------------------------------------------------------------------------
(* Steps of a request                                                      *)

\* A step of a request changes no document, so that only what it holds then matters.
LEMMA MoveSound ==
    ASSUME TokenInv, NEW q \in Requests, NEW held \in {Idle} \cup Verified \cup Reader \cup Token,
           Move(q, held), FollowedAs(held),
           held.step = "reading" => ReaderSound(held),
           held.step = "issued" => TokenSound(held)
    PROVE  TokenInv'
  <1>1. /\ UNCHANGED <<catalog, role, assigned, principal, project, policy, start, credential>>
        /\ request' = [request EXCEPT ![q] = held]
    BY DEF Move, grantVars
  <1>2. DocumentsSound'
    <2>1. TypeOK'
      BY <1>1 DEF TokenInv, DocumentsSound, TypeOK, Known, ActiveKeys, Exists
    <2>2. StartShapes' /\ StartsSound'
      BY <1>1 DEF TokenInv, DocumentsSound, StartShapes, StartsSound, ReadSound, Exists
    <2>3. AccountsSound'
      BY <1>1 DEF TokenInv, DocumentsSound, AccountsSound, Known, ActiveKeys
    <2> QED BY <2>1, <2>2, <2>3 DEF DocumentsSound
  <1>3. RequestShapes' /\ \A x \in Requests : request'[x] = IF x = q THEN held ELSE request[x]
    BY <1>1 DEF TokenInv, RequestShapes
  <1>4. Followed'
    <2> SUFFICES ASSUME NEW x \in Requests
                 PROVE  FollowedAs(request[x])'
      BY DEF Followed
    <2>1. PICK t : t = request'[x]
      OBVIOUS
    <2>2. FollowedAs(t)
      BY <1>3, <2>1 DEF TokenInv, Followed
    <2> QED BY <1>1, <2>1, <2>2 DEF FollowedAs, KeyStands
  <1>5. ReadsSound'
    <2> SUFFICES ASSUME NEW x \in Requests, request'[x].step = "reading"
                 PROVE  ReaderSound(request[x])'
      BY DEF ReadsSound
    <2>1. PICK t : t = request'[x]
      OBVIOUS
    <2>2. ReaderSound(t)
      BY <1>3, <2>1 DEF TokenInv, ReadsSound
    <2> QED BY <1>1, <2>1, <2>2 DEF ReaderSound
  <1>6. TokensSound'
    <2> SUFFICES ASSUME NEW x \in Requests, request'[x].step = "issued"
                 PROVE  TokenSound(request[x])'
      BY DEF TokensSound
    <2>1. PICK t : t = request'[x]
      OBVIOUS
    <2>2. TokenSound(t)
      BY <1>3, <2>1 DEF TokenInv, TokensSound
    <2>3. TokenSound(t)'
      <3>1. Current(t.who)' = Current(t.who)
        BY <1>1 DEF Current, Fingerprint
      <3>2. RolesOf(t.who)' = RolesOf(t.who)
        BY <1>1 DEF RolesOf
      <3>3. DecidedOn(t.who, t.history.existing)' = DecidedOn(t.who, t.history.existing)
        BY <1>1 DEF DecidedOn, Decisions, Can, Listed, Allowing, Matched, Exists
      <3> QED BY <1>1, <2>2, <3>1, <3>2, <3>3 DEF TokenSound
    <2> QED BY <2>1, <2>3
  <1> QED BY <1>2, <1>3, <1>4, <1>5, <1>6 DEF TokenInv

LEMMA VerifySound ==
    ASSUME TokenInv, NEW q \in Requests, NEW a \in Accounts, NEW k \in Keys, Verify(q, a, k)
    PROVE  TokenInv'
  <1>1. PICK held : held = [step |-> "verified", who |-> a, key |-> k, overtaken |-> FALSE]
    OBVIOUS
  <1>2. /\ held \in Verified /\ held.step = "verified" /\ held.who = a /\ held.key = k
        /\ Move(q, held)
    BY <1>1 DEF Verified, Verify
  <1>3. credential[a][k] = "ACTIVE"
    BY DEF Verify, ActiveKeys
  <1> QED BY <1>2, <1>3, MoveSound DEF FollowedAs, KeyStands

LEMMA ReadVersionsSound ==
    ASSUME TokenInv, NEW q \in Requests, NEW p \in Principals, NEW k \in Nat,
           NEW overtaken \in BOOLEAN, Move(q, Reading(p, k, overtaken)),
           p \in Accounts => k \in Keys /\ (credential[p][k] = "ACTIVE" \/ overtaken)
    PROVE  TokenInv'
  <1>1. PICK held : held = Reading(p, k, overtaken)
    OBVIOUS
  <1>2. principal[p].session \in Nat /\ principal[p].bump \in Nat
    BY Versions DEF TokenInv, DocumentsSound
  <1>3. /\ held \in Reader /\ held.step = "reading" /\ held.who = p /\ held.key = k
        /\ held.overtaken = overtaken /\ held.rotated = FALSE
        /\ held.session = principal[p].session /\ held.bump = principal[p].bump
        /\ held.todo = {"assignments", "policies"}
    BY <1>1, <1>2 DEF Reading, Reader
  <1>4. FollowedAs(held)
    BY <1>2, <1>3 DEF FollowedAs, KeyStands
  <1>5. ReaderSound(held)
    BY <1>2, <1>3 DEF ReaderSound
  <1> QED BY <1>1, <1>3, <1>4, <1>5, MoveSound

LEMMA ReadAccountSound ==
    ASSUME TokenInv, NEW q \in Requests, ReadAccount(q)
    PROVE  TokenInv'
  <1>1. PICK t \in Verified : t = request[q]
    BY RequestKinds DEF TokenInv, ReadAccount
  <1>2. /\ t.who \in Accounts /\ t.who \in Principals /\ t.key \in Nat /\ t.key \in Keys
        /\ t.overtaken \in BOOLEAN /\ t.step = "verified"
    BY <1>1, RoleKinds, RotationAssumption DEF Verified, Keys
  <1>3. credential[t.who][t.key] = "ACTIVE" \/ t.overtaken
    BY <1>1, <1>2 DEF TokenInv, Followed, FollowedAs, KeyStands
  <1>4. Move(q, Reading(t.who, t.key, t.overtaken))
    BY <1>1 DEF ReadAccount
  <1> QED BY <1>2, <1>3, <1>4, ReadVersionsSound

LEMMA ReissueForUserSound ==
    ASSUME TokenInv, NEW q \in Requests, NEW u \in Users, ReissueForUser(q, u)
    PROVE  TokenInv'
  BY RoleKinds, ReadVersionsSound DEF ReissueForUser, NoKey

LEMMA ReadAssignmentsSound ==
    ASSUME TokenInv, NEW q \in Requests, ReadAssignments(q)
    PROVE  TokenInv'
  <1>1. PICK t \in Reader : t = request[q]
    BY RequestKinds DEF TokenInv, ReadAssignments
  <1>2. t.who \in Principals /\ t.step = "reading" /\ ReaderSound(t) /\ FollowedAs(t)
    BY <1>1 DEF TokenInv, ReadsSound, Followed, Reader
  <1>3. assigned[t.who] \in SUBSET (Roles \X Scopes)
    BY <1>2 DEF TokenInv, DocumentsSound, TypeOK
  <1>4. PICK held : held = [t EXCEPT !.todo = @ \ {"assignments"}, !.entries = assigned[t.who]]
    OBVIOUS
  <1>5. /\ held \in Reader /\ held.step = "reading" /\ held.who = t.who /\ held.key = t.key
        /\ held.overtaken = t.overtaken /\ held.rotated = t.rotated /\ held.session = t.session
        /\ held.bump = t.bump /\ held.policy = t.policy /\ held.entries = assigned[t.who]
        /\ held.todo = t.todo \ {"assignments"}
    BY <1>3, <1>4 DEF Reader
  <1>6. Move(q, held)
    BY <1>1, <1>4 DEF ReadAssignments
  <1>7. FollowedAs(held)
    BY <1>2, <1>5 DEF FollowedAs, KeyStands
  <1>8. ReaderSound(held)
    BY <1>2, <1>5 DEF ReaderSound
  <1> QED BY <1>5, <1>6, <1>7, <1>8, MoveSound

LEMMA ReadPoliciesSound ==
    ASSUME TokenInv, NEW q \in Requests, ReadPolicies(q)
    PROVE  TokenInv'
  <1>1. PICK t \in Reader : t = request[q]
    BY RequestKinds DEF TokenInv, ReadPolicies
  <1>2. t.step = "reading" /\ ReaderSound(t) /\ FollowedAs(t) /\ policy \in Nat
    BY <1>1 DEF TokenInv, ReadsSound, Followed, Reader, DocumentsSound, TypeOK
  <1>3. PICK held : held = [t EXCEPT !.todo = @ \ {"policies"}, !.policy = policy]
    OBVIOUS
  <1>4. /\ held \in Reader /\ held.step = "reading" /\ held.who = t.who /\ held.key = t.key
        /\ held.overtaken = t.overtaken /\ held.rotated = t.rotated /\ held.session = t.session
        /\ held.bump = t.bump /\ held.policy = policy /\ held.entries = t.entries
        /\ held.todo = t.todo \ {"policies"}
    BY <1>2, <1>3 DEF Reader
  <1>5. Move(q, held)
    BY <1>1, <1>3 DEF ReadPolicies
  <1>6. FollowedAs(held)
    BY <1>2, <1>4 DEF FollowedAs, KeyStands
  <1>7. ReaderSound(held)
    BY <1>2, <1>4 DEF ReaderSound
  <1> QED BY <1>4, <1>5, <1>6, <1>7, MoveSound

\* What was read hashes to the fingerprint of the moment, if its versions are current.
LEMMA IssueSound ==
    ASSUME TokenInv, NEW q \in Requests, Issue(q)
    PROVE  TokenInv'
  <1>1. PICK t \in Reader : t = request[q] /\ t.todo = {}
    BY RequestKinds DEF TokenInv, Issue
  <1>2. t.who \in Principals /\ t.step = "reading" /\ ReaderSound(t) /\ FollowedAs(t)
    BY <1>1 DEF TokenInv, ReadsSound, Followed, Reader
  <1> DEFINE existing == {j \in Projects : project[j].exists}
             roles == {<<e[1], e[2], role[e[1]].version>> : e \in t.entries}
  <1>3. PICK f : f = Fingerprint(t.bump, t.entries, t.policy)
    OBVIOUS
  <1>4. PICK h : h = History(t)
    OBVIOUS
  <1>5. PICK held : held = [step |-> "issued", who |-> t.who, key |-> t.key,
                            overtaken |-> t.overtaken, session |-> t.session,
                            fingerprint |-> f, revoked |-> FALSE, history |-> h]
    OBVIOUS
  <1>6. t.entries \subseteq Roles \X Scopes /\ t.bump \in Nat /\ t.policy \in Nat /\ t.session \in Nat
        /\ t.rotated \in BOOLEAN
    BY DEF Reader
  <1>7. f \in Hash /\ f.bump = t.bump /\ f.roles = roles /\ f.policy = t.policy
    <2>1. \A r \in Roles : role[r].version \in Nat
      BY Versions DEF TokenInv, DocumentsSound
    <2>2. roles \subseteq Roles \X Scopes \X Nat
      BY <1>6, <2>1
    <2> HIDE DEF roles
    <2>3. f = [bump |-> t.bump, roles |-> roles, policy |-> t.policy]
      BY <1>3 DEF Fingerprint, roles
    <2> QED BY <1>6, <2>2, <2>3 DEF Hash
  <1>8. /\ h \in Memory /\ h.existing = existing /\ h.rotated = t.rotated /\ h.rewritten = {}
        /\ h.decisions = Decisions(t.who)
    <2>1. Decisions(t.who) \subseteq {"can", "list"} \X Permissions \X Projects
      BY DEF Decisions
    <2> QED BY <1>4, <1>6, <2>1 DEF History, Memory
  <1>9. /\ held \in Token /\ held.step = "issued" /\ held.who = t.who /\ held.key = t.key
        /\ held.overtaken = t.overtaken /\ held.session = t.session
        /\ held.fingerprint = f /\ held.history = h
    BY <1>5, <1>7, <1>8 DEF Token, Reader
  <1>10. Move(q, held)
    BY <1>1, <1>3, <1>4, <1>5 DEF Issue
  <1>11. FollowedAs(held)
    BY <1>2, <1>8, <1>9 DEF FollowedAs, KeyStands
  <1>12. TokenSound(held)
    <2>1. /\ t.bump <= principal[t.who].bump /\ t.policy <= policy
          /\ t.bump = principal[t.who].bump => t.entries = assigned[t.who]
      BY <1>1, <1>2 DEF ReaderSound
    <2>2. t.entries = {<<e[1], e[2]>> : e \in roles}
      <3>1. \A e \in t.entries : e = <<e[1], e[2]>>
        BY <1>6
      <3>2. \A e \in t.entries : <<e[1], e[2], role[e[1]].version>> \in roles
        OBVIOUS
      <3>3. \A e \in t.entries : \E x \in roles : e = <<x[1], x[2]>>
        BY <3>1, <3>2
      <3>4. \A x \in roles : <<x[1], x[2]>> \in t.entries
        BY <3>1
      <3> HIDE DEF roles
      <3> QED BY <3>3, <3>4
    <2>3. \A e \in roles : e[3] <= role[e[1]].version
      <3>1. \A r \in Roles : role[r].version \in Nat
        BY Versions DEF TokenInv, DocumentsSound
      <3> QED BY <1>6, <3>1
    <2>4. DecidedOn(t.who, existing) = Decisions(t.who)
      BY DEF DecidedOn, Decisions
    <2> HIDE DEF roles, existing
    <2>5. \A j \in existing : project[j].exists
      BY DEF existing
    <2>6. /\ held.fingerprint.bump = t.bump /\ held.fingerprint.policy = t.policy
          /\ held.fingerprint.roles = roles /\ held.who = t.who
          /\ held.history.existing = existing /\ held.history.decisions = Decisions(t.who)
      BY <1>7, <1>8, <1>9
    <2> HIDE DEF TokenSound
    <2>7. {<<e[1], e[2]>> : e \in held.fingerprint.roles} = t.entries
      BY <2>2, <2>6, Zenon
    <2> QED BY <2>1, <2>3, <2>4, <2>5, <2>6, <2>7 DEF TokenSound
  <1> QED BY <1>9, <1>10, <1>11, <1>12, MoveSound

\* Steps that do not concern the requests.
LEMMA RequestsSame ==
    ASSUME TokenInv, DocumentsSound', Announced({}), request' = request,
           \A a \in Accounts : \A k \in Keys :
               credential[a][k] = "ACTIVE" => credential'[a][k] = "ACTIVE"
    PROVE  TokenInv'
  <1>1. ASSUME NEW q \in Requests, request[q].step = "issued"
        PROVE  request[q] = [request[q] EXCEPT !.history.rewritten = @ \cup {}]
    <2>1. PICK t \in Token : t = request[q]
      BY <1>1, RequestKinds DEF TokenInv
    <2>2. t.history \in Memory
      BY DEF Token
    <2>3. t.history = [t.history EXCEPT !.rewritten = @ \cup {}]
      BY <2>2 DEF Memory
    <2>4. t = [t EXCEPT !.history = [t.history EXCEPT !.rewritten = @ \cup {}]]
      BY <2>3 DEF Token
    <2> QED BY <2>1, <2>4
  <1>2. request = [q \in Requests |-> request[q]]
    BY DEF TokenInv, RequestShapes
  <1>3. request' = [q \in Requests |->
               IF request[q].step = "issued"
               THEN [request[q] EXCEPT !.history.rewritten = @ \cup {}] ELSE request[q]]
    BY <1>1, <1>2
  <1> QED BY <1>3, RequestsKept

----------------------------------------------------------------------------
(* The invariant                                                           *)

\* The first documents: the roles of the templates, and one user with one of them.
LEMMA InitInv == Init => TokenInv
  <1> SUFFICES ASSUME Init PROVE TokenInv
    OBVIOUS
  <1>1. /\ role \in [Roles -> Role]
        /\ \A r \in Roles : /\ role[r].permissions \subseteq catalog
                            /\ r \in DOMAIN Templates => Exists(r)
        /\ catalog \subseteq Permissions
    BY GrantAssumption DEF Init, Role, Exists
  <1>2. PICK u \in Users, r \in DOMAIN Templates :
            assigned = [p \in Principals |-> IF p = u THEN {<<r, Organization>>} ELSE {}]
    BY DEF Init
  <1>3. <<r, Organization>> \in {x \in Roles : Exists(x)} \X Scopes
    BY <1>1, RoleKinds DEF SystemRoles
  <1>4. /\ assigned \in [Principals -> SUBSET ({x \in Roles : Exists(x)} \X Scopes)]
        /\ \A a \in Accounts : assigned[a] = {}
    BY <1>2, <1>3, RoleKinds
  <1>5. /\ principal \in [Principals -> [session : Nat, bump : Nat]]
        /\ \A a \in Accounts : principal[a] = [session |-> 0, bump |-> 0]
    BY <1>4, RoleKinds DEF Init
  <1>6. /\ credential \in [Accounts -> [Keys -> {"NONE", "ACTIVE", "REVOKED"}]]
        /\ \A a \in Accounts : /\ \A k \in Keys : credential[a][k] = "NONE"
                               /\ ActiveKeys(a) = {} /\ ~Known(a)
    BY RoleKinds DEF Init, ActiveKeys, Known
  <1>7. TypeOK
    <2>1. project \in [Projects -> [exists : BOOLEAN, roles : SUBSET {x \in Roles : Exists(x)}]]
      <3>1. {[exists |-> FALSE, roles |-> {}], [exists |-> TRUE, roles |-> {}]}
              \subseteq [exists : BOOLEAN, roles : SUBSET {x \in Roles : Exists(x)}]
        OBVIOUS
      <3> QED BY <3>1 DEF Init
    <2>2. policy \in Nat \ {0}
      BY DEF Init
    <2>3. \A a \in Accounts : Known(a) <=> Cardinality(ActiveKeys(a)) = 1
      BY <1>6, FS_EmptySet
    <2> QED BY <1>1, <1>4, <1>5, <1>6, <2>1, <2>2, <2>3 DEF TypeOK
  <1>8. StartShapes /\ StartsSound
    <2>1. /\ start \in [Processes -> Resting]
          /\ \A s \in Processes : start[s].step = "down"
      BY DEF Init, Resting, Down
    <2> QED BY <1>1, <2>1 DEF StartShapes, StartsSound
  <1>9. AccountsSound
    BY <1>5, <1>6 DEF AccountsSound
  <1>10. \A q \in Requests : request[q] = Idle /\ request[q].step = "idle"
    BY DEF Init, Idle
  <1>11. RequestShapes
    BY DEF Init, RequestShapes
  <1>12. Followed /\ ReadsSound /\ TokensSound
    BY <1>10 DEF Followed, FollowedAs, ReadsSound, TokensSound
  <1> QED BY <1>7, <1>8, <1>9, <1>11, <1>12 DEF TokenInv, DocumentsSound

LEMMA StartStepInv ==
    ASSUME TokenInv, NEW s \in Processes, StartStep(s)
    PROVE  TokenInv'
  <1>0. DocumentsSound
    BY DEF TokenInv
  <1>1. CASE /\ SeedPermissions(s) \/ ReadRoles(s) \/ ComeUp(s) \/ Die(s)
                \/ \E r \in SystemRoles : CompareRole(s, r)
             /\ UNCHANGED <<credential, request>>
    <2>1. DocumentsSound' /\ Announced({})
      BY <1>0, <1>1, QuietStartSound
    <2> QED BY <1>1, <2>1, RequestsSame
  <1>2. CASE /\ DeletePermissions(s) \/ InsertPermission(s) \/ SaveRole(s)
             /\ request' = Noted(start[s].role)
             /\ UNCHANGED credential
    <2>1. DocumentsSound' /\ start[s].role \in SystemRoles /\ Announced({start[s].role})
      BY <1>0, <1>2, RoleWriteSound
    <2>2. PICK r \in SystemRoles : r = start[s].role
      BY <2>1
    <2>3. /\ Announced({r}) /\ {r} \in SUBSET SystemRoles
          /\ request' = [q \in Requests |->
               IF request[q].step = "issued"
               THEN [request[q] EXCEPT !.history.rewritten = @ \cup {r}] ELSE request[q]]
      BY <1>2, <2>1, <2>2 DEF Noted
    <2> QED BY <1>2, <2>1, <2>3, RequestsKept
  <1> QED BY <1>1, <1>2 DEF StartStep

LEMMA RequestStepInv ==
    ASSUME TokenInv, NEW q \in Requests, RequestStep(q)
    PROVE  TokenInv'
  BY VerifySound, ReissueForUserSound, ReadAccountSound, ReadAssignmentsSound, ReadPoliciesSound,
     IssueSound DEF RequestStep

LEMMA NextInv == TokenInv /\ [Next]_vars => TokenInv'
  <1> SUFFICES ASSUME TokenInv, [Next]_vars PROVE TokenInv'
    OBVIOUS
  <1>0. DocumentsSound
    BY DEF TokenInv
  <1>1. CASE CommandStep
    <2>1. DocumentsSound' /\ Announced({}) /\ UNCHANGED <<credential, request>>
      BY <1>0, <1>1, CommandSound DEF CommandStep
    <2> QED BY <2>1, RequestsSame
  <1>2. ASSUME NEW s \in Processes, StartStep(s)
        PROVE  TokenInv'
    BY <1>2, StartStepInv
  <1>3. ASSUME NEW a \in Accounts, NEW r \in Roles, CreateServiceAccount(a, r)
        PROVE  TokenInv'
    BY <1>0, <1>3, CreateServiceAccountSound, RequestsSame
  <1>4. ASSUME NEW a \in Accounts, NEW k \in Keys, RotateCredential(a, k)
        PROVE  TokenInv'
    BY <1>0, <1>4, RotateCredentialSound, RequestsRevoked
  <1>5. ASSUME NEW q \in Requests, RequestStep(q)
        PROVE  TokenInv'
    BY <1>5, RequestStepInv
  <1>6. CASE UNCHANGED vars
    <2>1. /\ UNCHANGED <<catalog, role, assigned, principal, project, policy, start, credential>>
          /\ UNCHANGED request
      BY <1>6 DEF vars, grantVars
    <2>2. DocumentsSound'
      <3>1. TypeOK'
        BY <1>0, <2>1 DEF DocumentsSound, TypeOK, Known, ActiveKeys, Exists
      <3>2. StartShapes' /\ StartsSound'
        BY <1>0, <2>1 DEF DocumentsSound, StartShapes, StartsSound, ReadSound, Exists
      <3>3. AccountsSound'
        BY <1>0, <2>1 DEF DocumentsSound, AccountsSound, Known, ActiveKeys
      <3> QED BY <3>1, <3>2, <3>3 DEF DocumentsSound
    <2>3. Announced({})
      BY <1>0, <2>1, Versions DEF Announced, DocumentsSound, TypeOK
    <2> QED BY <2>1, <2>2, <2>3, RequestsSame
  <1> QED BY <1>1, <1>2, <1>3, <1>4, <1>5, <1>6 DEF Next

\* Of every behaviour, TokenInv: the inductive invariant of the accounts, roles and tokens.
THEOREM TokenInvariant == Spec => []TokenInv
  BY InitInv, NextInv, PTL DEF Spec

\* The documents keep the shape their schemas give them, a role that is assigned or gives
\* access to a project exists, and an account that exists has one active credential.
THEOREM TypeCorrect == Spec => []TypeOK
  <1>1. TokenInv => TypeOK
    BY DEF TokenInv, DocumentsSound
  <1> QED BY <1>1, TokenInvariant, PTL

\* A token the validator accepts allows what it did when it was made, unless a start
\* of a process has worked on a role of its bearer since.
THEOREM GrantsKept == Spec => []GrantsAsIssued
  <1>1. ASSUME TokenInv, NEW q \in Requests, Accepted(q),
               RolesOf(request[q].who) \cap request[q].history.rewritten = {}
        PROVE  {d \in Decisions(request[q].who) : d[3] \in request[q].history.existing}
                 = request[q].history.decisions
    <2>1. request[q].step = "issued" /\ Current(request[q].who) = request[q].fingerprint
      BY <1>1 DEF Accepted
    <2>2. TokenSound(request[q])
      BY <1>1, <2>1 DEF TokenInv, TokensSound
    <2> QED BY <1>1, <2>1, <2>2 DEF TokenSound, DecidedOn
  <1>2. TokenInv => GrantsAsIssued
    BY <1>1 DEF GrantsAsIssued
  <1> QED BY <1>2, TokenInvariant, PTL

\* A rotation of an account's credential ends its tokens, those whose requests were
\* still reading included.
THEOREM RotationEnds == Spec => []RotationEndsTokens
  <1>1. ASSUME TokenInv, NEW q \in Requests, Accepted(q), request[q].who \in Accounts
        PROVE  /\ ~request[q].history.rotated
               /\ credential[request[q].who][request[q].key] = "ACTIVE" \/ request[q].overtaken
    <2>1. /\ request[q].step = "issued"
          /\ principal[request[q].who].session = request[q].session
      BY <1>1 DEF Accepted
    <2>2. FollowedAs(request[q]) /\ request[q].session \in Nat
      BY <1>1, <2>1, RequestKinds DEF TokenInv, Followed, Token
    <2> QED BY <1>1, <2>1, <2>2 DEF FollowedAs, KeyStands
  <1>2. TokenInv => RotationEndsTokens
    BY <1>1 DEF RotationEndsTokens
  <1> QED BY <1>2, TokenInvariant, PTL
=============================================================================
