------------------------------ MODULE RoleGrants ------------------------------
(***************************************************************************)
(* Roles, their permissions, their assignments and the access roles of     *)
(* projects, in one organization: src/src/platform/access-control, and the *)
(* parts of src/src/modules/projects that decide who sees a project.       *)
(*                                                                         *)
(* A command of an administrator is one transaction, shown at its commit:  *)
(* two that write one document conflict, and what one of them read of      *)
(* other documents in an older snapshot could as well have been changed    *)
(* right after it.  The reconciliation of roles at the start of a process  *)
(* has no transaction: each of its calls is a step.                        *)
(***************************************************************************)
EXTENDS Naturals, FiniteSets, Sequences

CONSTANTS
    Users,        \* users of the organization
    Accounts,     \* its service accounts
    Templates,    \* DEFAULT_ORG_ROLE_TEMPLATES: role -> its permissions
    Custom,       \* the roles administrators create
    Registry,     \* PERMISSION_REGISTRY, in the order of the collection
    Former,       \* the permissions an earlier release has seeded
    ProjectRead,  \* the permission projects.project.read
    Projects,
    Processes,    \* processes of the backend
    MaxChanges,   \* bound: commands of administrators
    MaxStarts     \* bound: starts of processes

SUPERADMIN == "SUPERADMIN"
Organization == "organization"

Principals  == Users \cup Accounts
SystemRoles == DOMAIN Templates \cup {SUPERADMIN}
Roles       == SystemRoles \cup Custom
Permissions == {Registry[i] : i \in DOMAIN Registry}
Scopes      == Projects \cup {Organization}

ASSUME GrantAssumption ==
    /\ Former \subseteq Permissions /\ ProjectRead \in Former
    /\ SUPERADMIN \notin DOMAIN Templates \cup Custom
    /\ DOMAIN Templates \cap Custom = {}
    /\ \A r \in DOMAIN Templates : Templates[r] \subseteq Permissions
    /\ Users \cap Accounts = {} /\ Organization \notin Projects
    /\ MaxChanges \in Nat /\ MaxStarts \in Nat

VARIABLES
    catalog,     \* active permission definitions
    role,        \* role -> its version, 0 before it exists, and its permissions
    assigned,    \* principal -> its active assignments, role and scope
    principal,   \* principal -> its session and authorization versions
    project,     \* project -> whether it exists, and its access roles
    policy,      \* version of the GLOBAL access policy
    start,       \* process -> its start in progress
    changes,     \* commands so far
    starts       \* starts so far

grantVars == <<catalog, role, assigned, principal, project, policy, start, changes, starts>>

----------------------------------------------------------------------------
(* Decisions                                                               *)

Exists(r) == role[r].version > 0

Allowing(rs, permission) ==
    {r \in rs : Exists(r) /\ permission \in role[r].permissions \cap catalog}

\* The roles a principal holds in a scope that covers the project.
Matched(p, j) == {r \in Roles : \E s \in {Organization, j} : <<r, s>> \in assigned[p]}

\* The access role may be another matching role than the one with the permission.
Can(p, permission, j) ==
    /\ Allowing(Matched(p, j), permission) # {}
    /\ project[j].roles # {} => Matched(p, j) \cap project[j].roles # {}

\* getProjectCollectionAccess and the query made of it: in a listing, it must be
\* the same role.
Listed(p, permission, j) == Allowing(Matched(p, j), permission) \cap project[j].roles # {}

Decisions(p) ==
    {d \in {"can", "list"} \X Permissions \X {j \in Projects : project[j].exists} :
        IF d[1] = "can" THEN Can(p, d[2], d[3]) ELSE Listed(p, d[2], d[3])}

\* Its hash is as good as what is hashed.
Fingerprint(bump, entries, version) ==
    [bump   |-> bump,
     roles  |-> {<<e[1], e[2], role[e[1]].version>> : e \in entries},
     policy |-> version]

Current(p) == Fingerprint(principal[p].bump, assigned[p], policy)

----------------------------------------------------------------------------
(* Commands                                                                *)

Command == changes < MaxChanges /\ changes' = changes + 1

WithPermissions(r, granted) ==
    [role EXCEPT ![r] = [version |-> @.version + 1, permissions |-> granted]]

CreateRole(r) ==
    /\ Command
    /\ r \in Custom /\ ~Exists(r)
    /\ role' = [role EXCEPT ![r].version = 1]
    /\ UNCHANGED <<catalog, assigned, principal, project, policy, start, starts>>

\* SUPERADMIN keeps every active permission.
AssignPermissions(r, granted) ==
    /\ Command
    /\ Exists(r)
    /\ granted \subseteq catalog
    /\ r = SUPERADMIN => granted = catalog
    /\ role' = WithPermissions(r, granted)
    /\ UNCHANGED <<catalog, assigned, principal, project, policy, start, starts>>

Bumped(u) == [principal EXCEPT ![u].bump = @ + 1]

\* The scope of a module covers its projects as the organization's does.
InOrganization(scope) == scope \in {Organization} \cup {j \in Projects : project[j].exists}

\* One active assignment of a role in a scope, by the unique index.
AssignRole(u, r, scope) ==
    /\ Command
    /\ Exists(r)
    /\ InOrganization(scope)
    /\ <<r, scope>> \notin assigned[u]
    /\ assigned' = [assigned EXCEPT ![u] = @ \cup {<<r, scope>>}]
    /\ principal' = Bumped(u)
    /\ UNCHANGED <<catalog, role, project, policy, start, starts>>

Covering == Exists(SUPERADMIN) /\ catalog \subseteq role[SUPERADMIN].permissions

Ensured == IF Exists(SUPERADMIN) THEN role[SUPERADMIN].version ELSE 1

\* reconcileSuperadminRole: creates the role if need be and completes it.
SuperadminReconciled ==
    IF Covering THEN role
    ELSE [role EXCEPT ![SUPERADMIN] = [version |-> Ensured + 1, permissions |-> catalog]]

Readable == Allowing(Roles, ProjectRead)

\* The access roles a request for `requested` leads to; none asks for all readable.
Resolved(requested) == (IF requested = {} THEN Readable ELSE requested) \cup {SUPERADMIN}

CreateProject(j, requested) ==
    /\ Command
    /\ ~project[j].exists
    /\ requested \subseteq Readable
    /\ role' = SuperadminReconciled
    /\ project' = [project EXCEPT ![j] = [exists |-> TRUE, roles |-> Resolved(requested)]]
    /\ UNCHANGED <<catalog, assigned, principal, policy, start, starts>>

\* Faulty: the change of a project's access roles is not announced.
UpdateAccessRolesQuietly(j, requested) ==
    /\ Command
    /\ project[j].exists
    /\ requested \subseteq Readable
    /\ role' = SuperadminReconciled
    /\ project' = [project EXCEPT ![j].roles = Resolved(requested)]
    /\ UNCHANGED <<catalog, assigned, principal, policy, start, starts>>

\* Roles that are the project's already change nothing of the project.
UpdateAccessRoles(j, requested) ==
    /\ Command
    /\ project[j].exists
    /\ requested \subseteq Readable
    /\ role' = SuperadminReconciled
    /\ project' = [project EXCEPT ![j].roles = Resolved(requested)]
    /\ policy' = IF project' = project THEN policy ELSE policy + 1
    /\ UNCHANGED <<catalog, assigned, principal, start, starts>>

Legacy == {j \in Projects : project[j].exists /\ project[j].roles = {}}

\* The script that makes a user a superadmin and gives legacy projects the roles
\* that can read them.
BootstrapSuperadmin(u) ==
    LET held == <<SUPERADMIN, Organization>> \in assigned[u]
    IN  /\ Command
        /\ role' = [role EXCEPT ![SUPERADMIN] = [version     |-> Ensured + 1,
                                                 permissions |-> catalog]]
        /\ assigned' = [assigned EXCEPT ![u] = @ \cup {<<SUPERADMIN, Organization>>}]
        /\ principal' = [principal EXCEPT
                            ![u] = [session |-> @.session + 1,
                                    bump    |-> IF held THEN @.bump ELSE @.bump + 1]]
        /\ project' = [j \in Projects |->
                          IF j \in Legacy
                          THEN [project[j] EXCEPT !.roles = Readable \cup {SUPERADMIN}]
                          ELSE project[j]]
        /\ policy' = IF Legacy = {} THEN policy ELSE policy + 1
        /\ UNCHANGED <<catalog, start, starts>>

----------------------------------------------------------------------------
(* The start of a process                                                  *)

Down == [step |-> "down"]

Expected(r, permissions) == IF r = SUPERADMIN THEN permissions ELSE Templates[r]

\* Upserts: a permission that is there stays as it is.
SeedPermissions(s) ==
    /\ starts < MaxStarts
    /\ start[s].step \in {"down", "up"}
    /\ starts' = starts + 1
    /\ catalog' = catalog \cup Permissions
    /\ start' = [start EXCEPT ![s] = [step |-> "seeded"]]
    /\ UNCHANGED <<role, assigned, principal, project, policy, changes>>

\* Permissions and system roles are read once, for the whole reconciliation.
ReadRoles(s) ==
    /\ start[s].step = "seeded"
    /\ start' = [start EXCEPT ![s] =
          [step |-> "next", permissions |-> catalog, versions |-> [r \in SystemRoles |-> role[r].version],
           todo |-> {r \in SystemRoles : Exists(r)}]]
    /\ UNCHANGED <<catalog, role, assigned, principal, project, policy, changes, starts>>

\* The permissions a role has, against those it should have.
CompareRole(s, r) ==
    LET held   == start[s]
        wanted == Expected(r, held.permissions)
        rest   == [held EXCEPT !.todo = @ \ {r}]
    IN  /\ held.step = "next" /\ r \in held.todo
        /\ start' = [start EXCEPT ![s] =
              IF role[r].permissions = wanted \/ ~(wanted \subseteq held.permissions) THEN rest
              ELSE [step |-> "delete", role |-> r, left |-> wanted, rest |-> rest]]
        /\ UNCHANGED <<catalog, role, assigned, principal, project, policy, changes, starts>>

DeletePermissions(s) ==
    /\ start[s].step = "delete"
    /\ role' = [role EXCEPT ![start[s].role].permissions = {}]
    /\ start' = [start EXCEPT ![s].step = "insert"]
    /\ UNCHANGED <<catalog, assigned, principal, project, policy, changes, starts>>

Earliest(permissions) ==
    {p \in permissions : \E i \in DOMAIN Registry :
        /\ Registry[i] = p
        /\ \A k \in 1 .. i - 1 : Registry[k] \notin permissions}

\* One of the ordered inserts.  A permission that another start has inserted
\* meanwhile is a duplicate key, and the start fails.
InsertPermission(s) ==
    LET held == start[s]
    IN  /\ held.step = "insert"
        /\ \E p \in Earliest(held.left) :
              IF p \in role[held.role].permissions
              THEN /\ start' = [start EXCEPT ![s] = Down]
                   /\ UNCHANGED role
              ELSE /\ role' = [role EXCEPT ![held.role].permissions = @ \cup {p}]
                   /\ start' = [start EXCEPT ![s].left = @ \ {p}]
        /\ UNCHANGED <<catalog, assigned, principal, project, policy, changes, starts>>

\* The version is the one the start read, plus one, whatever happened since.
SaveRole(s) ==
    LET held == start[s]
    IN  /\ held.step = "insert" /\ held.left = {}
        /\ role' = [role EXCEPT ![held.role].version = held.rest.versions[held.role] + 1]
        /\ start' = [start EXCEPT ![s] = held.rest]
        /\ UNCHANGED <<catalog, assigned, principal, project, policy, changes, starts>>

\* Comes up when no role is left.
ComeUp(s) ==
    /\ start[s].step = "next" /\ start[s].todo = {}
    /\ start' = [start EXCEPT ![s] = [step |-> "up"]]
    /\ UNCHANGED <<catalog, role, assigned, principal, project, policy, changes, starts>>

\* The process dies.
Die(s) ==
    /\ start[s].step \notin {"down", "up"}
    /\ start' = [start EXCEPT ![s] = Down]
    /\ UNCHANGED <<catalog, role, assigned, principal, project, policy, changes, starts>>

Rewriting(s) == start[s].step \in {"delete", "insert"}

=============================================================================
