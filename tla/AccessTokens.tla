----------------------------- MODULE AccessTokens -----------------------------
(***************************************************************************)
(* Access tokens of users and of service accounts, over the roles that the *)
(* tokens' fingerprints stand for: src/src/platform/sessions (issuers and  *)
(* validator) and src/src/modules/integrations (service accounts).         *)
(*                                                                         *)
(* A request for a token reads the account, the assignments, the policy    *)
(* and the roles in calls of their own, none of them in the transaction    *)
(* that then writes the session; commands, rotations and starts run        *)
(* between any two.  A rotation is one transaction, shown at its commit:   *)
(* two of one account conflict on the account.  Tokens do not act on one   *)
(* another, so that a request is followed to the one token it leads to.    *)
(***************************************************************************)
EXTENDS RoleGrants

CONSTANTS
    Requests,       \* requests for a token
    MaxRotations    \* bound: rotations of an account

ASSUME RotationAssumption == MaxRotations \in Nat

VARIABLES
    credential,   \* account, key -> status of the credential
    request       \* request -> what it holds, and its session and token in the end

vars == <<grantVars, credential, request>>

----------------------------------------------------------------------------
Keys == 1 .. MaxRotations + 1
NoKey == 0

Idle == [step |-> "idle"]

ActiveKeys(a) == {k \in Keys : credential[a][k] = "ACTIVE"}

\* What is remembered of a token (history).
History(held) ==
    [decisions |-> Decisions(held.who),                   \* what was allowed and listed
     existing  |-> {j \in Projects : project[j].exists},  \* of which projects
     rotated   |-> held.rotated,   \* whether the account was rotated since it was read
     rewritten |-> {}]             \* roles a start has worked on since

Init ==
    /\ catalog = Former
    /\ role = [r \in Roles |->
                  IF r \in DOMAIN Templates
                  THEN [version |-> 2, permissions |-> Templates[r] \cap Former]
                  ELSE [version |-> 0, permissions |-> {}]]
    /\ \E u \in Users : \E r \in DOMAIN Templates :
          assigned = [p \in Principals |-> IF p = u THEN {<<r, Organization>>} ELSE {}]
    /\ principal = [p \in Principals |->
                       [session |-> 0, bump |-> IF assigned[p] = {} THEN 0 ELSE 1]]
    /\ project \in [Projects -> {[exists |-> FALSE, roles |-> {}], [exists |-> TRUE, roles |-> {}]}]
    /\ policy = 1
    /\ start = [s \in Processes |-> Down]
    /\ changes = 0 /\ starts = 0
    /\ credential = [a \in Accounts |-> [k \in Keys |-> "NONE"]]
    /\ request = [q \in Requests |-> Idle]

----------------------------------------------------------------------------
(* Service accounts                                                        *)

Known(a) == credential[a][1] # "NONE"

CreateServiceAccount(a, r) ==
    /\ Command
    /\ ~Known(a) /\ Exists(r)
    /\ credential' = [credential EXCEPT ![a][1] = "ACTIVE"]
    /\ assigned' = [assigned EXCEPT ![a] = {<<r, Organization>>}]
    /\ principal' = [principal EXCEPT ![a] = [session |-> 0, bump |-> 1]]
    /\ UNCHANGED <<catalog, role, project, policy, start, starts, request>>

IssuedTo(q, p) == request[q].step = "issued" /\ request[q].who = p

\* What a rotation does to the requests for tokens of the account.
Revoked(a) ==
    [q \in Requests |->
        CASE IssuedTo(q, a) ->
                [request[q] EXCEPT !.revoked = TRUE, !.history.rotated = TRUE]
          [] request[q].step = "reading" /\ request[q].who = a ->
                [request[q] EXCEPT !.rotated = TRUE]
          [] request[q].step = "verified" /\ request[q].who = a ->
                [request[q] EXCEPT !.overtaken = TRUE]
          [] OTHER -> request[q]]

\* Faulty: the credential that is replaced stays active.
RotatedKeysKept(a, k) == [credential[a] EXCEPT ![k] = "ACTIVE"]

RotatedKeys(a, k) ==
    [j \in Keys |-> IF j = k THEN "ACTIVE"
                    ELSE IF credential[a][j] = "ACTIVE" THEN "REVOKED" ELSE credential[a][j]]

\* Faulty: revokes the sessions it finds, and leaves the version of the account.
RotateCredentialOnly(a, k) ==
    /\ Known(a)
    /\ credential[a][k] = "NONE" /\ credential[a][k - 1] # "NONE"
    /\ credential' = [credential EXCEPT ![a] = RotatedKeys(a, k)]
    /\ request' = Revoked(a)
    /\ UNCHANGED grantVars

RotateCredential(a, k) ==
    /\ Known(a)
    /\ credential[a][k] = "NONE" /\ credential[a][k - 1] # "NONE"
    /\ credential' = [credential EXCEPT ![a] = RotatedKeys(a, k)]
    /\ principal' = [principal EXCEPT ![a].session = @ + 1]
    /\ request' = Revoked(a)
    /\ UNCHANGED <<catalog, role, assigned, project, policy, start, changes, starts>>

----------------------------------------------------------------------------
(* A request for a token                                                   *)

Move(q, held) ==
    /\ request' = [request EXCEPT ![q] = held]
    /\ UNCHANGED <<grantVars, credential>>

\* The secret is verified against an active credential.
Verify(q, a, k) ==
    /\ request[q].step = "idle"
    /\ k \in ActiveKeys(a)
    /\ Move(q, [step |-> "verified", who |-> a, key |-> k, overtaken |-> FALSE])

\* The versions of the principal, as this read returns them.
Reading(p, k, overtaken) ==
    [step |-> "reading", who |-> p, key |-> k, overtaken |-> overtaken,
     session |-> principal[p].session, bump |-> principal[p].bump,
     todo |-> {"assignments", "policies"}, entries |-> {}, policy |-> 0, rotated |-> FALSE]

ReadAccount(q) ==
    /\ request[q].step = "verified"
    /\ Move(q, Reading(request[q].who, request[q].key, request[q].overtaken))

\* The session a user has already: its token is issued anew.
ReissueForUser(q, u) ==
    /\ request[q].step = "idle"
    /\ Move(q, Reading(u, NoKey, FALSE))

ReadAssignments(q) ==
    /\ request[q].step = "reading" /\ "assignments" \in request[q].todo
    /\ Move(q, [request[q] EXCEPT !.todo = @ \ {"assignments"},
                                  !.entries = assigned[request[q].who]])

ReadPolicies(q) ==
    /\ request[q].step = "reading" /\ "policies" \in request[q].todo
    /\ Move(q, [request[q] EXCEPT !.todo = @ \ {"policies"}, !.policy = policy])

\* The roles are read, and the session is written with the token; a change of a
\* role between the two is like one right after both.
Issue(q) ==
    LET held == request[q]
    IN  /\ held.step = "reading" /\ held.todo = {}
        /\ Move(q, [step |-> "issued", who |-> held.who, key |-> held.key,
                    overtaken |-> held.overtaken, session |-> held.session,
                    fingerprint |-> Fingerprint(held.bump, held.entries, held.policy),
                    revoked |-> FALSE,
                    history |-> History(held)])

\* What the validator finds: the session, the principal, the fingerprint.
Accepted(q) ==
    /\ request[q].step = "issued"
    /\ ~request[q].revoked
    /\ principal[request[q].who].session = request[q].session
    /\ Current(request[q].who) = request[q].fingerprint

----------------------------------------------------------------------------
(* Specification                                                           *)

\* The writes of a start are noted in the history of the tokens.
Noted(r) ==
    [q \in Requests |-> IF request[q].step = "issued"
                        THEN [request[q] EXCEPT !.history.rewritten = @ \cup {r}]
                        ELSE request[q]]

StartStep(s) ==
    \/ /\ SeedPermissions(s) \/ ReadRoles(s) \/ ComeUp(s) \/ Die(s)
          \/ \E r \in SystemRoles : CompareRole(s, r)
       /\ UNCHANGED <<credential, request>>
    \/ /\ DeletePermissions(s) \/ InsertPermission(s) \/ SaveRole(s)
       /\ request' = Noted(start[s].role)
       /\ UNCHANGED credential

CommandStep ==
    /\ \/ \E r \in Roles : CreateRole(r) \/ \E granted \in SUBSET catalog : AssignPermissions(r, granted)
       \/ \E u \in Users : \/ BootstrapSuperadmin(u)
                           \/ \E r \in Roles, scope \in Scopes : AssignRole(u, r, scope)
       \/ \E j \in Projects, requested \in SUBSET Roles :
             CreateProject(j, requested) \/ UpdateAccessRoles(j, requested)
    /\ UNCHANGED <<credential, request>>

RequestStep(q) ==
    \/ \E a \in Accounts, k \in Keys : Verify(q, a, k)
    \/ \E u \in Users : ReissueForUser(q, u)
    \/ ReadAccount(q) \/ ReadAssignments(q) \/ ReadPolicies(q) \/ Issue(q)

Next ==
    \/ CommandStep
    \/ \E s \in Processes : StartStep(s)
    \/ \E a \in Accounts : \/ \E r \in Roles : CreateServiceAccount(a, r)
                           \/ \E k \in Keys \ {1} : RotateCredential(a, k)
    \/ \E q \in Requests : RequestStep(q)

Spec == Init /\ [][Next]_vars

----------------------------------------------------------------------------
(* What must hold                                                          *)

Role == [version : Nat, permissions : SUBSET Permissions]

\* The documents have the shape their schemas give them, and a role that exists
\* is the only kind that is assigned or gives access to a project.
TypeOK ==
    /\ catalog \subseteq Permissions
    /\ role \in [Roles -> Role]
    /\ assigned \in [Principals -> SUBSET ({r \in Roles : Exists(r)} \X Scopes)]
    /\ principal \in [Principals -> [session : Nat, bump : Nat]]
    /\ project \in [Projects -> [exists : BOOLEAN, roles : SUBSET {r \in Roles : Exists(r)}]]
    /\ policy \in Nat \ {0}
    /\ credential \in [Accounts -> [Keys -> {"NONE", "ACTIVE", "REVOKED"}]]
    /\ \A a \in Accounts : Known(a) <=> Cardinality(ActiveKeys(a)) = 1

RolesOf(p) == {r \in Roles : \E s \in Scopes : <<r, s>> \in assigned[p]}

\* A token the validator accepts lets its bearer do and see what it did when it was made:
\* although its fingerprint was put together from reads at four times, every change
\* of the assignments, of the permissions of a role held or of the access roles of
\* a project since has made it unacceptable.  Only what a start of a process does to
\* a role goes unannounced: its permissions change before its version, and the
\* version it writes may be one the role has had.
GrantsAsIssued ==
    \A q \in Requests : Accepted(q) =>
        LET t == request[q]
        IN  RolesOf(t.who) \cap t.history.rewritten = {} =>
                {d \in Decisions(t.who) : d[3] \in t.history.existing} = t.history.decisions

\* A rotation ends the tokens of the account: no token is accepted whose request read
\* the account before, the ones whose sessions were not there yet to be revoked
\* included.  The credential of an accepted token is the active one, but for the
\* request whose account was read after a rotation and its credential before.
RotationEndsTokens ==
    \A q \in Requests : (Accepted(q) /\ request[q].who \in Accounts) =>
        /\ ~request[q].history.rotated
        /\ credential[request[q].who][request[q].key] = "ACTIVE" \/ request[q].overtaken
=============================================================================
