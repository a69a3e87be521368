-------------------------- MODULE SessionRotation --------------------------
(***************************************************************************)
(* The sessions of one user: src/src/platform/sessions, with the user      *)
(* document of src/src/platform/identity.                                  *)
(*                                                                         *)
(* A login creates a session, a refresh replaces one by a new one, a       *)
(* logout revokes one, and a logout-all revokes every session and          *)
(* outdates the user's sessionVersion.  Requests overlap, and much of what *)
(* they decide on is read outside their transactions; inside, a document   *)
(* another running transaction has written cannot be written, and neither  *)
(* can one committed since the snapshot (the driver then runs the          *)
(* transaction again).                                                     *)
(*                                                                         *)
(* A refresh token names its session for life, so tokens are identified    *)
(* with sessions.  Users share no document: one user stands for all.       *)
(***************************************************************************)
EXTENDS Naturals, FiniteSets

CONSTANTS
    Sessions,        \* session ids
    Workers,         \* requests served at the same time
    Organizations,   \* values of activeOrganizationId
    MaxVersion,      \* bound: logout-alls
    NoSession        \* no session

ASSUME SessionsAssumption ==
    Sessions # {} /\ Organizations # {} /\ MaxVersion \in Nat /\ NoSession \notin Sessions

VARIABLES
    registered,   \* the user exists
    version,      \* the user's sessionVersion
    sessions,     \* id -> the session document
    expired,      \* sessions whose expiresAt has passed
    req,          \* worker -> the request it serves
    ended         \* history: sessions that existed when a completed logout-all began

vars == <<registered, version, sessions, expired, req, ended>>

----------------------------------------------------------------------------
(* Documents and requests                                                  *)

\* revokedAt and revokeReason: only ROTATED is told apart from other reasons.
SessionState == {"ABSENT", "LIVE", "ROTATED", "REVOKED"}

\* line (history): the session and those it replaces, back to the login.
Session == [state : SessionState, version : 0 .. MaxVersion, org : Organizations,
            replacedBy : Sessions \cup {NoSession}, line : SUBSET Sessions]

SomeOrganization == CHOOSE o \in Organizations : TRUE

Absent == [state |-> "ABSENT", version |-> 0, org |-> SomeOrganization,
           replacedBy |-> NoSession, line |-> {}]

\* A session document as create stores it.
NewSession(seen, org, line) ==
    [state |-> "LIVE", version |-> seen, org |-> org, replacedBy |-> NoSession,
     line |-> line]

Created   == {s \in Sessions : sessions[s].state # "ABSENT"}
Live(s)   == sessions[s].state = "LIVE"
Usable(s) == Live(s) /\ sessions[s].version = version

\* What a request holds: the session whose token it presents, the user's version
\* and the organization it read, the live and all sessions of a logout-all's
\* snapshot, whether one of the live ones was committed since, and (history)
\* whether the session was usable when a validation began.
Idle == [step |-> "idle", token |-> NoSession, seen |-> 0, org |-> SomeOrganization,
         saw |-> {}, all |-> {}, stale |-> FALSE, was |-> FALSE]

Steps == {"idle", "issue", "checkUser", "rotate", "replace", "create", "ending",
          "validating"}

Request == [step : Steps, token : Sessions \cup {NoSession},
            seen : 0 .. MaxVersion, org : Organizations, saw : SUBSET Sessions,
            all : SUBSET Sessions, stale : BOOLEAN, was : BOOLEAN]

\* A running transaction has written session s.
Locked(s) == \E w \in Workers : req[w].step \in {"replace", "create"} /\ req[w].token = s

\* The requests after a commit that wrote session s.
Conflicting(s, requests) ==
    [w \in Workers |-> IF requests[w].step = "ending" /\ s \in requests[w].saw
                       THEN [requests[w] EXCEPT !.stale = TRUE] ELSE requests[w]]

Init ==
    /\ registered = FALSE
    /\ version = 0
    /\ sessions = [s \in Sessions |-> Absent]
    /\ expired = {}
    /\ req = [w \in Workers |-> Idle]
    /\ ended = {}

----------------------------------------------------------------------------
(* Sign-in                                                                 *)

\* register: the user and the first session, in one transaction.
Register(s, org) ==
    /\ ~ registered /\ s \notin Created
    /\ registered' = TRUE
    /\ sessions' = [sessions EXCEPT ![s] = NewSession(0, org, {s})]
    /\ UNCHANGED <<version, expired, req, ended>>

\* login, up to issueHumanSession's read of the user, outside the transaction.
Login(w) ==
    /\ registered
    /\ req[w].step = "idle"
    /\ req' = [req EXCEPT ![w] = [Idle EXCEPT !.step = "issue", !.seen = version]]
    /\ UNCHANGED <<registered, version, sessions, expired, ended>>

\* Faulty: the new session carries the version after the user's.
CreateSessionAhead(w, s, org) ==
    /\ req[w].step = "issue"
    /\ s \notin Created /\ req[w].seen < MaxVersion
    /\ sessions' = [sessions EXCEPT ![s] = NewSession(req[w].seen + 1, org, {s})]
    /\ req' = [req EXCEPT ![w] = Idle]
    /\ UNCHANGED <<registered, version, expired, ended>>

\* login commits: an insert, which conflicts with nothing.
CreateSession(w, s, org) ==
    /\ req[w].step = "issue"
    /\ s \notin Created
    /\ sessions' = [sessions EXCEPT ![s] = NewSession(req[w].seen, org, {s})]
    /\ req' = [req EXCEPT ![w] = Idle]
    /\ UNCHANGED <<registered, version, expired, ended>>

----------------------------------------------------------------------------
(* Refresh                                                                 *)

\* refresh: the checks on the session, outside the transaction.  A session that
\* fails them is refused, which changes nothing.
Refresh(w, s) ==
    /\ req[w].step = "idle"
    /\ Live(s) /\ s \notin expired
    /\ req' = [req EXCEPT ![w] = [Idle EXCEPT !.step = "checkUser", !.token = s,
                                           !.org = sessions[s].org]]
    /\ UNCHANGED <<registered, version, sessions, expired, ended>>

\* refresh: the check on the user, outside the transaction too.
CheckUser(w) ==
    /\ req[w].step = "checkUser"
    /\ version = sessions[req[w].token].version
    /\ req' = [req EXCEPT ![w].step = "rotate"]
    /\ UNCHANGED <<registered, version, sessions, expired, ended>>

\* Faulty: the update does not ask whether the session is revoked.
RotateRevoked(w) ==
    LET s == req[w].token
    IN  /\ req[w].step = "rotate"
        /\ s \notin expired /\ ~ Locked(s)
        /\ req' = [req EXCEPT ![w] = [@ EXCEPT !.step = "replace", !.org = sessions[s].org]]
        /\ UNCHANGED <<registered, version, sessions, expired, ended>>

\* Faulty: the replacement takes the organization of the first read.
RotateFirstRead(w) ==
    LET s == req[w].token
    IN  /\ req[w].step = "rotate"
        /\ Live(s) /\ s \notin expired /\ ~ Locked(s)
        /\ req' = [req EXCEPT ![w].step = "replace"]
        /\ UNCHANGED <<registered, version, sessions, expired, ended>>

\* refresh: the conditional update that revokes the session as ROTATED, visible to
\* others when the transaction commits.  It conflicts with another transaction that
\* writes the session; without a match it detects a replay (Refused).
Rotate(w) ==
    LET s == req[w].token
    IN  /\ req[w].step = "rotate"
        /\ Live(s) /\ s \notin expired /\ ~ Locked(s)
        /\ req' = [req EXCEPT ![w] = [@ EXCEPT !.step = "replace", !.org = sessions[s].org]]
        /\ UNCHANGED <<registered, version, sessions, expired, ended>>

\* issueReplacementSession reads the user again, outside the transaction.
ReadUser(w) ==
    /\ req[w].step = "replace"
    /\ req' = [req EXCEPT ![w] = [@ EXCEPT !.step = "create", !.seen = version]]
    /\ UNCHANGED <<registered, version, sessions, expired, ended>>

\* refresh commits: the session is revoked, linked to its replacement, replaced.
Replace(w, t) ==
    LET s == req[w].token
    IN  /\ req[w].step = "create"
        /\ t \notin Created
        /\ sessions' =
              [sessions EXCEPT
                 ![s].state = "ROTATED", ![s].replacedBy = t,
                 ![t] = NewSession(req[w].seen, req[w].org, sessions[s].line \cup {t})]
        /\ req' = Conflicting(s, [req EXCEPT ![w] = Idle])
        /\ UNCHANGED <<registered, version, expired, ended>>

----------------------------------------------------------------------------
(* Logout, and the active organization                                     *)

\* Faulty: revokes, whatever the session's state.
RevokeAgain(s) ==
    /\ s \in Created /\ ~ Locked(s)
    /\ sessions' = [sessions EXCEPT ![s].state = "REVOKED"]
    /\ req' = Conflicting(s, req)
    /\ UNCHANGED <<registered, version, expired, ended>>

\* Faulty: deletes the document's state instead of revoking.
RevokeExpired(s) ==
    /\ Live(s) /\ ~ Locked(s)
    /\ sessions' = [sessions EXCEPT ![s].state = "EXPIRED"]
    /\ req' = Conflicting(s, req)
    /\ UNCHANGED <<registered, version, expired, ended>>

\* logout and revokeOwnSession: one conditional update.
Revoke(s) ==
    /\ Live(s) /\ ~ Locked(s)
    /\ sessions' = [sessions EXCEPT ![s].state = "REVOKED"]
    /\ req' = Conflicting(s, req)
    /\ UNCHANGED <<registered, version, expired, ended>>

\* setActiveOrganizationForHumanSession, for activate and bootstrap.
ActivateOrganization(s, org) ==
    /\ Live(s) /\ ~ Locked(s)
    /\ sessions' = [sessions EXCEPT ![s].org = org]
    /\ req' = Conflicting(s, req)
    /\ UNCHANGED <<registered, version, expired, ended>>

\* logoutAll: bumpSessionVersion opens the transaction and writes the user, which
\* keeps a second logout-all out; the snapshot it takes is that of its updateMany.
BeginLogoutAll(w) ==
    /\ req[w].step = "idle"
    /\ \A v \in Workers : req[v].step # "ending"
    /\ Created # {} /\ version < MaxVersion
    /\ req' = [req EXCEPT ![w] = [Idle EXCEPT !.step = "ending", !.all = Created,
                                           !.saw = {s \in Sessions : Live(s)}]]
    /\ UNCHANGED <<registered, version, sessions, expired, ended>>

\* Faulty: the sessions are left to the version.
CommitLogoutAllByVersion(w) ==
    /\ req[w].step = "ending" /\ ~ req[w].stale
    /\ version' = version + 1
    /\ ended' = ended \cup req[w].all
    /\ req' = [req EXCEPT ![w] = Idle]
    /\ UNCHANGED <<registered, sessions, expired>>

\* logoutAll revokes the live sessions of its snapshot and commits; a session that
\* another transaction writes, or has committed since, is a conflict (Abort).
CommitLogoutAll(w) ==
    /\ req[w].step = "ending" /\ ~ req[w].stale
    /\ \A s \in req[w].saw : ~ Locked(s)
    /\ version' = version + 1
    /\ sessions' = [s \in Sessions |-> IF s \in req[w].saw
                                       THEN [sessions[s] EXCEPT !.state = "REVOKED"]
                                       ELSE sessions[s]]
    /\ ended' = ended \cup req[w].all
    /\ req' = [req EXCEPT ![w] = Idle]
    /\ UNCHANGED <<registered, expired>>

\* A request ends without effect (a replay is detected, a check fails, the process
\* dies), or its transaction is run again from its start.
Abort(w) ==
    /\ req[w].step # "idle"
    /\ \/ req' = [req EXCEPT ![w] = Idle]
       \/ /\ req[w].step \in {"replace", "create"}
          /\ req' = [req EXCEPT ![w].step = "rotate"]
    /\ UNCHANGED <<registered, version, sessions, expired, ended>>

----------------------------------------------------------------------------
(* Access tokens, and time                                                 *)

\* validate: the session, then the user, are read in two calls.
Validate(w, s) ==
    /\ req[w].step = "idle"
    /\ Live(s) /\ s \notin expired
    /\ req' = [req EXCEPT ![w] = [Idle EXCEPT !.step = "validating", !.token = s,
                                           !.was = Usable(s)]]
    /\ UNCHANGED <<registered, version, sessions, expired, ended>>

Accepts(w) == req[w].step = "validating" /\ version = sessions[req[w].token].version

Accept(w) ==
    /\ Accepts(w)
    /\ req' = [req EXCEPT ![w] = Idle]
    /\ UNCHANGED <<registered, version, sessions, expired, ended>>

Expire(s) ==
    /\ s \in Created \ expired
    /\ expired' = expired \cup {s}
    /\ UNCHANGED <<registered, version, sessions, req, ended>>

WorkerStep(w) ==
    \/ \E s \in Sessions : \/ \E org \in Organizations : CreateSession(w, s, org)
                           \/ Refresh(w, s) \/ Replace(w, s) \/ Validate(w, s)
    \/ Login(w) \/ CheckUser(w) \/ Rotate(w) \/ ReadUser(w)
    \/ BeginLogoutAll(w) \/ CommitLogoutAll(w)
    \/ Accept(w) \/ Abort(w)

Next ==
    \/ \E s \in Sessions, org \in Organizations : Register(s, org) \/ ActivateOrganization(s, org)
    \/ \E s \in Sessions : Revoke(s) \/ Expire(s)
    \/ \E w \in Workers : WorkerStep(w)

Spec == Init /\ [][Next]_vars

----------------------------------------------------------------------------
(* What must hold                                                          *)

\* Documents and requests have the shape the schemas and the code give them.
TypeOK ==
    /\ registered \in BOOLEAN
    /\ version \in 0 .. MaxVersion
    /\ sessions \in [Sessions -> Session]
    /\ expired \in SUBSET Sessions
    /\ req \in [Workers -> Request]
    /\ \A w \in Workers : req[w].step \notin {"idle", "issue", "ending"} => req[w].token \in Sessions
    /\ ended \in SUBSET Sessions

\* A refresh token is good for one replacement: of all the sessions that descend
\* from one login, by whatever refreshes that raced, one at most is not revoked.
OneLivePerLogin ==
    \A s, t \in Sessions :
        Live(s) /\ Live(t) /\ sessions[s].line \cap sessions[t].line # {} => s = t

\* After a logout-all, no session that existed when it began is usable, and neither
\* is any session that a refresh running meanwhile made of one of those.
LogoutAllEnds ==
    \A s \in Sessions : Usable(s) => sessions[s].line \cap ended = {}

\* A request is accepted only if its session was usable when its validation began,
\* although the session and the user are read one after the other.
AcceptedWasUsable == \A w \in Workers : Accepts(w) => req[w].was

\* The organization a user activated is not lost to a refresh that runs meanwhile:
\* the replacement has the one its predecessor had last.
OrganizationKept ==
    [][\A s, t \in Sessions :
          sessions[s].replacedBy = NoSession /\ sessions'[s].replacedBy = t =>
              sessions'[t].org = sessions[s].org]_vars

\* What ended a session stays on record: no overlapping request changes the reason,
\* the replacement, the version or the organization of a revoked session, so that
\* the replay of a rotated token is told from the use of a revoked one.
RevocationStands ==
    [][\A s \in Sessions : sessions[s].state \in {"ROTATED", "REVOKED"} =>
          sessions'[s] = sessions[s]]_vars

=============================================================================
