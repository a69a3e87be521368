----------------------- MODULE SessionRotationProofs -----------------------
(***************************************************************************)
(* What SessionRotation states, for any sessions, workers, organizations   *)
(* and number of logout-alls.                                              *)
(*                                                                         *)
(* SessionInv is inductive.  Its parts: a session's line holds itself and  *)
(* created sessions only; lines that meet are prefixes of one another, and *)
(* a live session is the end of every line it is on; a refresh that has    *)
(* rotated its session is alone to hold it, live, and knows its            *)
(* organization; one logout-all runs at a time, and without a conflict it  *)
(* has in its snapshot every live session that descends from one it found; *)
(* nothing live descends from a session that a completed logout-all found. *)
(***************************************************************************)
EXTENDS SessionRotation, TLAPS

Line(s) == sessions[s].line

Lines ==
    \A s \in Sessions : /\ Line(s) \subseteq Created
                        /\ s \in Created <=> s \in Line(s)

Families == \A s, t \in Sessions : Line(s) \cap Line(t) # {} => s \in Line(t) \/ t \in Line(s)

Tips == \A s, t \in Sessions : Live(s) /\ s \in Line(t) => s = t

Versions ==
    /\ \A s \in Sessions : sessions[s].version <= version
    /\ \A w \in Workers : req[w].seen <= version

Holds(w) == req[w].step \in {"replace", "create"}

Holding ==
    \A w \in Workers : Holds(w) =>
        /\ Live(req[w].token)
        /\ req[w].org = sessions[req[w].token].org
        /\ \A v \in Workers : Holds(v) /\ req[v].token = req[w].token => v = w

Ending ==
    \A w \in Workers : req[w].step = "ending" =>
        /\ version < MaxVersion
        /\ \A v \in Workers : req[v].step = "ending" => v = w
        /\ req[w].saw \subseteq Created /\ req[w].all \subseteq Created
        /\ ~ req[w].stale =>
              /\ \A s \in req[w].saw : Live(s)
              /\ \A s \in Sessions : Live(s) /\ Line(s) \cap req[w].all # {} => s \in req[w].saw

Ended ==
    /\ ended \subseteq Created
    /\ \A s \in Sessions : Live(s) => Line(s) \cap ended = {}

Validating ==
    \A w \in Workers : req[w].step = "validating" =>
        /\ req[w].token \in Created
        /\ version = sessions[req[w].token].version => req[w].was

SessionInv == /\ TypeOK /\ Lines /\ Families /\ Tips /\ Versions
              /\ Holding /\ Ending /\ Ended /\ Validating

----------------------------------------------------------------------------

LEMMA NewSessionType ==
    ASSUME NEW seen \in 0 .. MaxVersion, NEW org \in Organizations,
           NEW line \in SUBSET Sessions
    PROVE  NewSession(seen, org, line) \in Session
  BY DEF NewSession, Session, SessionState

LEMMA IdleType == Idle \in Request
  <1>1. SomeOrganization \in Organizations
    BY SessionsAssumption DEF SomeOrganization
  <1> QED BY <1>1, SessionsAssumption DEF Idle, Request, Steps

\* What Conflicting changes: nothing but the stale flags of logout-alls.
LEMMA ConflictingMarks ==
    ASSUME NEW s, NEW requests \in [Workers -> Request]
    PROVE  /\ Conflicting(s, requests) \in [Workers -> Request]
           /\ \A w \in Workers :
                 LET old == requests[w]
                     new == Conflicting(s, requests)[w]
                 IN  /\ new.step = old.step /\ new.token = old.token /\ new.seen = old.seen
                     /\ new.org = old.org /\ new.saw = old.saw /\ new.all = old.all
                     /\ new.was = old.was
                     /\ new.stale <=> (old.stale \/ (old.step = "ending" /\ s \in old.saw))
  BY DEF Conflicting, Request

LEMMA InitInv == Init => SessionInv
  <1> SUFFICES ASSUME Init PROVE SessionInv
    OBVIOUS
  <1>1. SomeOrganization \in Organizations
    BY SessionsAssumption DEF SomeOrganization
  <1>2. Absent \in Session
    BY <1>1, SessionsAssumption DEF Absent, Session, SessionState
  <1>3. TypeOK
    <2>1. version \in 0 .. MaxVersion
      BY SessionsAssumption DEF Init
    <2>2. sessions \in [Sessions -> Session]
      BY <1>2 DEF Init
    <2>3. req \in [Workers -> Request]
      BY IdleType DEF Init
    <2>4. \A w \in Workers : req[w].step = "idle"
      BY DEF Init, Idle
    <2> QED BY <2>1, <2>2, <2>3, <2>4 DEF Init, TypeOK
  <1>4. Created = {} /\ \A s \in Sessions : Line(s) = {} /\ ~ Live(s)
    BY DEF Init, Created, Line, Live, Absent
  <1>5. Lines /\ Families /\ Tips /\ Ended
    BY <1>4 DEF Init, Lines, Families, Tips, Ended
  <1>6. Versions
    BY DEF Init, Versions, Absent, Idle
  <1>7. Holding /\ Ending /\ Validating
    BY DEF Init, Holding, Ending, Validating, Holds, Idle
  <1> QED BY <1>3, <1>5, <1>6, <1>7 DEF SessionInv

----------------------------------------------------------------------------
(* Steps that change requests only                                         *)

\* What the invariant asks of one request w, which holds its session alone.
RequestOK(w) ==
    /\ req[w].step \notin {"idle", "issue", "ending"} => req[w].token \in Sessions
    /\ req[w].seen <= version
    /\ Holds(w) => /\ Live(req[w].token)
                   /\ req[w].org = sessions[req[w].token].org
                   /\ \A v \in Workers : Holds(v) /\ req[v].token = req[w].token => v = w
    /\ req[w].step = "ending" =>
          /\ version < MaxVersion
          /\ \A v \in Workers : req[v].step = "ending" => v = w
          /\ req[w].saw \subseteq Created /\ req[w].all \subseteq Created
          /\ ~ req[w].stale =>
                /\ \A s \in req[w].saw : Live(s)
                /\ \A s \in Sessions :
                      Live(s) /\ Line(s) \cap req[w].all # {} => s \in req[w].saw
    /\ req[w].step = "validating" =>
          /\ req[w].token \in Created
          /\ version = sessions[req[w].token].version => req[w].was

LEMMA RequestsOK ==
    ASSUME SessionInv, NEW w \in Workers
    PROVE  RequestOK(w)
  BY DEF SessionInv, TypeOK, Versions, Holding, Ending, Validating, RequestOK

LEMMA RequestStep ==
    ASSUME SessionInv, UNCHANGED <<registered, version, sessions, expired, ended>>,
           NEW w \in Workers, req' \in [Workers -> Request],
           \A v \in Workers \ {w} : req'[v] = req[v],
           RequestOK(w)'
    PROVE  SessionInv'
  <1>1. TypeOK' /\ Lines' /\ Families' /\ Tips' /\ Ended'
    <2>1. TypeOK'
      BY DEF SessionInv, TypeOK, RequestOK
    <2>2. Lines' /\ Families' /\ Tips' /\ Ended'
      BY DEF SessionInv, Lines, Families, Tips, Ended, Line, Created, Live
    <2> QED BY <2>1, <2>2
  <1>2. Versions'
    BY DEF SessionInv, Versions, RequestOK
  <1>3. Holding'
    BY DEF SessionInv, Holding, RequestOK, Holds, Live
  <1>4. Ending'
    BY DEF SessionInv, Ending, RequestOK, Created, Live, Line
  <1>5. Validating'
    BY DEF SessionInv, Validating, RequestOK, Created
  <1> QED BY <1>1, <1>2, <1>3, <1>4, <1>5 DEF SessionInv

LEMMA IdleKeeps ==
    ASSUME SessionInv, UNCHANGED <<registered, version, sessions, expired, ended>>,
           NEW w \in Workers, req' = [req EXCEPT ![w] = Idle]
    PROVE  SessionInv'
  <1>1. req' \in [Workers -> Request] /\ req'[w] = Idle
    BY IdleType DEF SessionInv, TypeOK
  <1>2. RequestOK(w)'
    BY <1>1 DEF SessionInv, TypeOK, RequestOK, Idle, Holds
  <1> QED BY <1>1, <1>2, RequestStep

LEMMA AcceptKeeps == ASSUME SessionInv, NEW w \in Workers, Accept(w) PROVE SessionInv'
  BY IdleKeeps DEF Accept

LEMMA IdleFields == Idle \in Request /\ Idle.seen = 0
  BY IdleType DEF Idle

LEMMA LoginKeeps == ASSUME SessionInv, NEW w \in Workers, Login(w) PROVE SessionInv'
  <1> DEFINE r == [Idle EXCEPT !.step = "issue", !.seen = version]
  <1>1. r \in Request /\ r.step = "issue" /\ r.seen = version
    BY IdleFields DEF SessionInv, TypeOK, Request, Steps
  <1> HIDE DEF r
  <1>2. req' = [req EXCEPT ![w] = r]
    BY DEF Login, r
  <1>3. req' \in [Workers -> Request] /\ req'[w] = r /\ \A v \in Workers \ {w} : req'[v] = req[v]
    BY <1>1, <1>2 DEF SessionInv, TypeOK
  <1>4. RequestOK(w)'
    BY <1>1, <1>3 DEF Login, SessionInv, TypeOK, RequestOK, Holds
  <1> QED BY <1>3, <1>4, RequestStep DEF Login

LEMMA RefreshKeeps ==
    ASSUME SessionInv, NEW w \in Workers, NEW s \in Sessions, Refresh(w, s)
    PROVE  SessionInv'
  <1> DEFINE r == [Idle EXCEPT !.step = "checkUser", !.token = s, !.org = sessions[s].org]
  <1>0. sessions[s].org \in Organizations /\ 0 \in 0 .. MaxVersion
    BY SessionsAssumption DEF SessionInv, TypeOK, Session
  <1>1. r \in Request /\ r.step = "checkUser" /\ r.token = s /\ r.seen = 0
    BY <1>0, IdleFields DEF Request, Steps
  <1> HIDE DEF r
  <1>2. req' = [req EXCEPT ![w] = r]
    BY DEF Refresh, r
  <1>3. req' \in [Workers -> Request] /\ req'[w] = r /\ \A v \in Workers \ {w} : req'[v] = req[v]
    BY <1>1, <1>2 DEF SessionInv, TypeOK
  <1>4. 0 <= version'
    BY SessionsAssumption DEF Refresh, SessionInv, TypeOK
  <1>5. RequestOK(w)'
    BY <1>1, <1>3, <1>4 DEF RequestOK, Holds
  <1> QED BY <1>3, <1>5, RequestStep DEF Refresh

LEMMA CheckUserKeeps ==
    ASSUME SessionInv, NEW w \in Workers, CheckUser(w)
    PROVE  SessionInv'
  <1>1. /\ req' \in [Workers -> Request] /\ req'[w].step = "rotate"
        /\ req'[w].token = req[w].token /\ req'[w].seen = req[w].seen
    BY DEF CheckUser, SessionInv, TypeOK, Request, Steps
  <1>2. RequestOK(w)'
    BY <1>1, RequestsOK DEF CheckUser, RequestOK, Holds
  <1> QED BY <1>1, <1>2, RequestStep DEF CheckUser, SessionInv, TypeOK

\* The update finds the session live and no other transaction at it.
LEMMA RotateKeeps == ASSUME SessionInv, NEW w \in Workers, Rotate(w) PROVE SessionInv'
  <1> DEFINE s == req[w].token
             r == [req[w] EXCEPT !.step = "replace", !.org = sessions[s].org]
  <1>1. s \in Sessions /\ req[w] \in Request /\ sessions[s] \in Session
    BY RequestsOK DEF Rotate, RequestOK, SessionInv, TypeOK
  <1>2. /\ r \in Request /\ r.step = "replace" /\ r.token = s /\ r.seen = req[w].seen
        /\ r.org = sessions[s].org
    BY <1>1 DEF Request, Steps, Session
  <1>3. req' = [req EXCEPT ![w] = r]
    BY DEF Rotate
  <1> HIDE DEF r
  <1>4. req' \in [Workers -> Request] /\ req'[w] = r /\ \A v \in Workers \ {w} : req'[v] = req[v]
    BY <1>2, <1>3 DEF SessionInv, TypeOK
  <1>5. \A v \in Workers : Holds(v) => req[v].token # s
    BY DEF Rotate, Locked, Holds
  <1>6. Live(s) /\ RequestOK(w)
    BY RequestsOK DEF Rotate
  <1>7. RequestOK(w)'
    BY <1>1, <1>2, <1>4, <1>5, <1>6 DEF Rotate, RequestOK, Holds, Live
  <1> QED BY <1>4, <1>7, RequestStep DEF Rotate

LEMMA ReadUserKeeps == ASSUME SessionInv, NEW w \in Workers, ReadUser(w) PROVE SessionInv'
  <1> DEFINE r == [req[w] EXCEPT !.step = "create", !.seen = version]
  <1>1. req[w] \in Request /\ version \in 0 .. MaxVersion
    BY DEF SessionInv, TypeOK
  <1>2. /\ r \in Request /\ r.step = "create" /\ r.token = req[w].token
        /\ r.seen = version /\ r.org = req[w].org
    BY <1>1 DEF Request, Steps
  <1>3. req' = [req EXCEPT ![w] = r]
    BY DEF ReadUser
  <1> HIDE DEF r
  <1>4. req' \in [Workers -> Request] /\ req'[w] = r /\ \A v \in Workers \ {w} : req'[v] = req[v]
    BY <1>2, <1>3 DEF SessionInv, TypeOK
  <1>5. RequestOK(w) /\ Holds(w)
    BY RequestsOK DEF ReadUser, Holds
  <1>6. RequestOK(w)'
    BY <1>1, <1>2, <1>4, <1>5 DEF ReadUser, RequestOK, Holds, Live
  <1> QED BY <1>4, <1>6, RequestStep DEF ReadUser

LEMMA BeginLogoutAllKeeps ==
    ASSUME SessionInv, NEW w \in Workers, BeginLogoutAll(w)
    PROVE  SessionInv'
  <1> DEFINE found == {s \in Sessions : Live(s)}
             r == [Idle EXCEPT !.step = "ending", !.all = Created, !.saw = found]
  <1>1. found \subseteq Created /\ Created \subseteq Sessions /\ 0 \in 0 .. MaxVersion
    BY SessionsAssumption DEF Created, Live
  <1>2. found \in SUBSET Sessions /\ \A s \in Sessions : s \in found <=> Live(s)
    OBVIOUS
  <1>3. req' = [req EXCEPT ![w] = r]
    BY DEF BeginLogoutAll
  <1> HIDE DEF found
  <1>4. r \in Request /\ r.step = "ending" /\ r.saw = found /\ r.all = Created /\ r.seen = 0
    BY <1>1, <1>2, IdleFields DEF Request, Steps
  <1> HIDE DEF r
  <1>5. req' \in [Workers -> Request] /\ req'[w] = r /\ \A v \in Workers \ {w} : req'[v] = req[v]
    BY <1>3, <1>4 DEF SessionInv, TypeOK
  <1>6. UNCHANGED Created
    BY DEF BeginLogoutAll, Created
  <1>7. 0 <= version' /\ version' < MaxVersion /\ UNCHANGED sessions
    BY SessionsAssumption DEF BeginLogoutAll, SessionInv, TypeOK
  <1>8. \A v \in Workers : req'[v].step = "ending" => v = w
    BY <1>5 DEF BeginLogoutAll
  <1>9. RequestOK(w)'
    BY <1>1, <1>2, <1>4, <1>5, <1>6, <1>7, <1>8 DEF RequestOK, Holds, Live
  <1> QED BY <1>5, <1>9, RequestStep DEF BeginLogoutAll

LEMMA ValidateKeeps ==
    ASSUME SessionInv, NEW w \in Workers, NEW s \in Sessions, Validate(w, s)
    PROVE  SessionInv'
  <1> DEFINE r == [Idle EXCEPT !.step = "validating", !.token = s, !.was = Usable(s)]
  <1>1. Usable(s) \in BOOLEAN /\ 0 \in 0 .. MaxVersion
    BY SessionsAssumption DEF Usable, Live
  <1>2. /\ r \in Request /\ r.step = "validating" /\ r.token = s /\ r.was = Usable(s)
        /\ r.seen = 0
    BY <1>1, IdleFields DEF Request, Steps
  <1>3. req' = [req EXCEPT ![w] = r]
    BY DEF Validate
  <1> HIDE DEF r
  <1>4. req' \in [Workers -> Request] /\ req'[w] = r /\ \A v \in Workers \ {w} : req'[v] = req[v]
    BY <1>2, <1>3 DEF SessionInv, TypeOK
  <1>5. 0 <= version' /\ UNCHANGED <<version, sessions>> /\ s \in Created
    BY SessionsAssumption DEF Validate, SessionInv, TypeOK, Live, Created
  <1>6. Usable(s) <=> version = sessions[s].version
    BY DEF Validate, Usable
  <1>7. RequestOK(w)'
    BY <1>2, <1>4, <1>5, <1>6 DEF RequestOK, Holds, Created
  <1> QED BY <1>4, <1>7, RequestStep DEF Validate

LEMMA AbortKeeps == ASSUME SessionInv, NEW w \in Workers, Abort(w) PROVE SessionInv'
  <1>1. CASE req' = [req EXCEPT ![w] = Idle]
    BY <1>1, IdleKeeps DEF Abort
  <1>2. CASE req[w].step \in {"replace", "create"} /\ req' = [req EXCEPT ![w].step = "rotate"]
    <2>1. /\ req' \in [Workers -> Request] /\ req'[w].step = "rotate"
          /\ req'[w].token = req[w].token /\ req'[w].seen = req[w].seen
          /\ \A v \in Workers \ {w} : req'[v] = req[v]
      BY <1>2 DEF SessionInv, TypeOK, Request, Steps
    <2>2. RequestOK(w)'
      BY <1>2, <2>1, RequestsOK DEF Abort, RequestOK, Holds
    <2> QED BY <2>1, <2>2, RequestStep DEF Abort
  <1> QED BY <1>1, <1>2 DEF Abort

----------------------------------------------------------------------------
(* Steps that write sessions                                               *)

LEMMA ExpireKeeps ==
    ASSUME SessionInv, NEW s \in Sessions, Expire(s)
    PROVE  SessionInv'
  <1>1. TypeOK' /\ Lines' /\ Families' /\ Tips' /\ Ended'
    <2>1. TypeOK'
      BY DEF Expire, SessionInv, TypeOK
    <2>2. Lines' /\ Families' /\ Tips' /\ Ended'
      BY DEF Expire, SessionInv, Lines, Families, Tips, Ended, Line, Created, Live
    <2> QED BY <2>1, <2>2
  <1>2. Versions' /\ Holding' /\ Validating'
    BY DEF Expire, SessionInv, Versions, Holding, Validating, Holds, Live, Created
  <1>3. Ending'
    BY DEF Expire, SessionInv, Ending, Live, Created, Line
  <1> QED BY <1>1, <1>2, <1>3 DEF SessionInv

LEMMA StutterKeeps == ASSUME SessionInv, UNCHANGED vars PROVE SessionInv'
  <1>1. TypeOK' /\ Lines' /\ Families' /\ Tips' /\ Ended'
    <2>1. TypeOK'
      BY DEF vars, SessionInv, TypeOK
    <2>2. Lines' /\ Families' /\ Tips' /\ Ended'
      BY DEF vars, SessionInv, Lines, Families, Tips, Ended, Line, Created, Live
    <2> QED BY <2>1, <2>2
  <1>2. Versions' /\ Holding' /\ Validating'
    BY DEF vars, SessionInv, Versions, Holding, Validating, Holds, Live, Created
  <1>3. Ending'
    BY DEF vars, SessionInv, Ending, Live, Created, Line
  <1> QED BY <1>1, <1>2, <1>3 DEF SessionInv

\* A login's session is a line of its own, which no running logout-all found.
LEMMA AddKeeps ==
    ASSUME SessionInv, NEW s \in Sessions, s \notin Created,
           NEW seen \in 0 .. MaxVersion, seen <= version, NEW org \in Organizations,
           sessions' = [sessions EXCEPT ![s] = NewSession(seen, org, {s})],
           UNCHANGED <<version, expired, ended>>, registered' \in BOOLEAN,
           req' \in [Workers -> Request],
           \A w \in Workers : req'[w] = req[w] \/ req'[w] = Idle
    PROVE  SessionInv'
  <1> DEFINE n == NewSession(seen, org, {s})
  <1>1. n \in Session /\ n.state = "LIVE" /\ n.version = seen /\ n.line = {s}
    BY NewSessionType DEF NewSession
  <1> HIDE DEF n
  <1>2. /\ sessions' \in [Sessions -> Session] /\ sessions'[s] = n
        /\ \A t \in Sessions \ {s} : sessions'[t] = sessions[t]
    BY <1>1 DEF SessionInv, TypeOK, n
  <1>3. Created' = Created \cup {s} /\ ~ Live(s)
    BY <1>1, <1>2 DEF Created, Live
  <1>4. \A t \in Sessions : s \notin Line(t)
    BY DEF SessionInv, Lines
  <1>5. /\ Line(s)' = {s} /\ Live(s)'
        /\ \A t \in Sessions \ {s} : Line(t)' = Line(t) /\ (Live(t)' <=> Live(t))
    BY <1>1, <1>2 DEF Line, Live
  <1>6. Idle.step = "idle" /\ Idle.seen = 0
    BY DEF Idle
  <1>7. TypeOK'
    BY <1>2, <1>6 DEF SessionInv, TypeOK
  <1>8. Lines' /\ Families' /\ Tips' /\ Ended'
    <2>1. Lines'
      BY <1>3, <1>5 DEF SessionInv, Lines
    <2>2. Families'
      BY <1>4, <1>5 DEF SessionInv, Families
    <2>3. Tips'
      BY <1>4, <1>5 DEF SessionInv, Tips
    <2>4. Ended'
      BY <1>3, <1>5 DEF SessionInv, Ended
    <2> QED BY <2>1, <2>2, <2>3, <2>4
  <1>9. Versions'
    BY <1>1, <1>2, <1>6, SessionsAssumption DEF SessionInv, TypeOK, Versions
  <1>10. Holding'
    BY <1>2, <1>3, <1>5, <1>6 DEF SessionInv, Holding, Holds, TypeOK
  <1>11. Ending'
    BY <1>3, <1>5, <1>6 DEF SessionInv, Ending, TypeOK, Request
  <1>12. Validating'
    BY <1>2, <1>3, <1>6 DEF SessionInv, Validating, TypeOK
  <1> QED BY <1>7, <1>8, <1>9, <1>10, <1>11, <1>12 DEF SessionInv

LEMMA RegisterKeeps ==
    ASSUME SessionInv, NEW s \in Sessions, NEW org \in Organizations, Register(s, org)
    PROVE  SessionInv'
  <1>1. 0 \in 0 .. MaxVersion /\ 0 <= version
    BY SessionsAssumption DEF SessionInv, TypeOK
  <1>2. req' \in [Workers -> Request] /\ \A w \in Workers : req'[w] = req[w]
    BY DEF Register, SessionInv, TypeOK
  <1> QED BY <1>1, <1>2, AddKeeps DEF Register

LEMMA CreateSessionKeeps ==
    ASSUME SessionInv, NEW w \in Workers, NEW s \in Sessions, NEW org \in Organizations,
           CreateSession(w, s, org)
    PROVE  SessionInv'
  <1>1. req[w].seen \in 0 .. MaxVersion /\ req[w].seen <= version
    BY DEF SessionInv, TypeOK, Versions, Request
  <1>2. req' \in [Workers -> Request] /\ \A v \in Workers : req'[v] \in {req[v], Idle}
    BY IdleType DEF CreateSession, SessionInv, TypeOK
  <1> QED BY <1>1, <1>2, AddKeeps DEF CreateSession, SessionInv, TypeOK

\* A live session nobody else writes is revoked, or its organization changed.
LEMMA WriteKeeps ==
    ASSUME SessionInv, NEW s \in Sessions, Live(s), ~ Locked(s), NEW r \in Session,
           r.state \in {"LIVE", "REVOKED"}, r.version = sessions[s].version, r.line = Line(s),
           sessions' = [sessions EXCEPT ![s] = r], req' = Conflicting(s, req),
           UNCHANGED <<registered, version, expired, ended>>
    PROVE  SessionInv'
  <1>1. /\ sessions' \in [Sessions -> Session] /\ sessions'[s] = r
        /\ \A t \in Sessions \ {s} : sessions'[t] = sessions[t]
    BY DEF SessionInv, TypeOK
  <1>2. Created' = Created
    BY <1>1 DEF Created, Live
  <1>3. /\ \A t \in Sessions : Line(t)' = Line(t) /\ (Live(t)' => Live(t))
        /\ \A t \in Sessions : sessions'[t].version = sessions[t].version
        /\ \A t \in Sessions \ {s} : Live(t) => Live(t)'
    BY <1>1 DEF Line, Live
  <1>4. /\ req' \in [Workers -> Request]
        /\ \A w \in Workers :
              /\ req'[w].step = req[w].step /\ req'[w].token = req[w].token
              /\ req'[w].seen = req[w].seen /\ req'[w].org = req[w].org
              /\ req'[w].saw = req[w].saw /\ req'[w].all = req[w].all
              /\ req'[w].was = req[w].was
              /\ req'[w].stale <=> (req[w].stale \/ (req[w].step = "ending" /\ s \in req[w].saw))
    BY ConflictingMarks DEF SessionInv, TypeOK
  <1>5. TypeOK'
    BY <1>1, <1>4 DEF SessionInv, TypeOK
  <1>6. Lines' /\ Families' /\ Tips' /\ Ended'
    BY <1>2, <1>3 DEF SessionInv, Lines, Families, Tips, Ended
  <1>7. Versions'
    BY <1>3, <1>4 DEF SessionInv, Versions
  <1>8. \A w \in Workers : Holds(w) => req[w].token # s
    BY DEF Locked, Holds
  <1>9. Holding'
    BY <1>1, <1>3, <1>4, <1>8 DEF SessionInv, Holding, Holds, TypeOK
  <1>10. Ending'
    <2>1. ASSUME NEW w \in Workers, req'[w].step = "ending", ~ req'[w].stale
          PROVE  s \notin req[w].saw /\ req[w].step = "ending" /\ ~ req[w].stale
      BY <2>1, <1>4
    <2>2. ASSUME NEW w \in Workers, req'[w].step = "ending"
          PROVE  req[w].saw \in SUBSET Sessions
      BY DEF SessionInv, TypeOK, Request
    <2> QED BY <2>1, <2>2, <1>2, <1>3, <1>4 DEF SessionInv, Ending
  <1>11. Validating'
    BY <1>2, <1>3, <1>4 DEF SessionInv, Validating, TypeOK
  <1> QED BY <1>5, <1>6, <1>7, <1>9, <1>10, <1>11 DEF SessionInv

LEMMA RevokeKeeps ==
    ASSUME SessionInv, NEW s \in Sessions, Revoke(s)
    PROVE  SessionInv'
  <1> DEFINE r == [sessions[s] EXCEPT !.state = "REVOKED"]
  <1>1. sessions[s] \in Session
    BY DEF SessionInv, TypeOK
  <1>2. /\ r \in Session /\ r.state = "REVOKED" /\ r.version = sessions[s].version
        /\ r.line = Line(s)
    BY <1>1 DEF Session, SessionState, Line
  <1>3. sessions' = [sessions EXCEPT ![s] = r]
    BY DEF Revoke
  <1> HIDE DEF r
  <1> QED BY <1>2, <1>3, WriteKeeps DEF Revoke

LEMMA ActivateKeeps ==
    ASSUME SessionInv, NEW s \in Sessions, NEW org \in Organizations,
           ActivateOrganization(s, org)
    PROVE  SessionInv'
  <1> DEFINE r == [sessions[s] EXCEPT !.org = org]
  <1>1. sessions[s] \in Session
    BY DEF SessionInv, TypeOK
  <1>2. /\ r \in Session /\ r.state = sessions[s].state /\ r.version = sessions[s].version
        /\ r.line = Line(s)
    BY <1>1 DEF Session, SessionState, Line
  <1>3. sessions' = [sessions EXCEPT ![s] = r]
    BY DEF ActivateOrganization
  <1> HIDE DEF r
  <1> QED BY <1>2, <1>3, WriteKeeps DEF ActivateOrganization, Live

\* A commit revokes the live session it holds and adds the end of its line.
LEMMA ReplaceKeeps ==
    ASSUME SessionInv, NEW w \in Workers, NEW t \in Sessions, Replace(w, t)
    PROVE  SessionInv'
  <1>0. PICK s \in Sessions : s = req[w].token
    BY RequestsOK DEF Replace, RequestOK
  <1> DEFINE n == NewSession(req[w].seen, req[w].org, Line(s) \cup {t})
             o == [sessions[s] EXCEPT !.state = "ROTATED", !.replacedBy = t]
             requests == [req EXCEPT ![w] = Idle]
  <1>1. s \in Sessions /\ Live(s) /\ RequestOK(w) /\ req[w] \in Request /\ sessions[s] \in Session
    BY <1>0, RequestsOK DEF Replace, RequestOK, SessionInv, TypeOK, Holds
  <1>2. t \notin Created /\ t # s
    BY <1>1 DEF Replace, Created, Live
  <1>3. n \in Session /\ n.state = "LIVE" /\ n.version = req[w].seen /\ n.line = Line(s) \cup {t}
    BY <1>1, NewSessionType DEF NewSession, Request, Session, Line
  <1>4. /\ o \in Session /\ o.state = "ROTATED" /\ o.version = sessions[s].version
        /\ o.line = Line(s)
    BY <1>1 DEF Session, SessionState, Line
  <1>5. sessions' = [sessions EXCEPT ![s] = o, ![t] = n]
    BY <1>0, <1>1, <1>2 DEF Replace, Line, SessionInv, TypeOK
  <1>6. req' = Conflicting(s, requests)
    BY <1>0 DEF Replace
  <1> HIDE DEF n, o
  <1>7. /\ sessions' \in [Sessions -> Session] /\ sessions'[s] = o /\ sessions'[t] = n
        /\ \A u \in Sessions \ {s, t} : sessions'[u] = sessions[u]
    BY <1>1, <1>2, <1>3, <1>4, <1>5 DEF SessionInv, TypeOK
  <1>8. Created' = Created \cup {t} /\ s \in Created /\ ~ Live(t)
    BY <1>1, <1>2, <1>3, <1>4, <1>7 DEF Created, Live
  <1>9. \A u \in Sessions : t \notin Line(u)
    BY <1>2 DEF SessionInv, Lines
  <1>10. /\ Line(t)' = Line(s) \cup {t} /\ Live(t)' /\ Line(s)' = Line(s) /\ ~ Live(s)'
         /\ \A u \in Sessions \ {s, t} : Line(u)' = Line(u) /\ (Live(u)' <=> Live(u))
    BY <1>2, <1>3, <1>4, <1>7 DEF Line, Live
  <1>11. requests \in [Workers -> Request] /\ requests[w] = Idle
         /\ \A v \in Workers \ {w} : requests[v] = req[v]
    BY IdleType DEF SessionInv, TypeOK
  <1> HIDE DEF requests
  <1>12. Idle.step = "idle" /\ Idle.seen = 0
    BY DEF Idle
  <1>13. /\ req' \in [Workers -> Request] /\ req'[w].step = "idle" /\ req'[w].seen = 0
         /\ \A v \in Workers \ {w} :
              /\ req'[v].step = req[v].step /\ req'[v].token = req[v].token
              /\ req'[v].seen = req[v].seen /\ req'[v].org = req[v].org
              /\ req'[v].saw = req[v].saw /\ req'[v].all = req[v].all
              /\ req'[v].was = req[v].was
              /\ req'[v].stale <=> (req[v].stale \/ (req[v].step = "ending" /\ s \in req[v].saw))
    BY <1>6, <1>11, <1>12, ConflictingMarks
  <1>14. TypeOK'
    BY <1>7, <1>13 DEF Replace, SessionInv, TypeOK
  <1>15. Lines' /\ Families' /\ Tips' /\ Ended'
    <2>1. Lines'
      BY <1>8, <1>9, <1>10 DEF SessionInv, Lines
    <2>2. \A u \in Sessions : Line(s) \cap Line(u) # {} => u \in Line(s)
      BY <1>1, <1>8 DEF SessionInv, Families, Tips, Lines
    <2>3. Families'
      BY <2>2, <1>2, <1>9, <1>10 DEF SessionInv, Families
    <2>4. Tips'
      BY <1>9, <1>10 DEF SessionInv, Tips
    <2>5. t \notin ended /\ UNCHANGED ended
      BY <1>2 DEF Replace, SessionInv, Ended
    <2>6. Ended'
      BY <1>1, <1>8, <1>10, <2>5 DEF SessionInv, Ended
    <2> QED BY <2>1, <2>3, <2>4, <2>6
  <1>16. Versions'
    <2>1. 0 <= version /\ UNCHANGED version /\ req[w].seen <= version
      BY <1>1, SessionsAssumption DEF Replace, SessionInv, TypeOK, RequestOK
    <2>2. \A u \in Sessions : sessions'[u].version <= version
      BY <1>1, <1>3, <1>4, <1>7, <2>1 DEF SessionInv, Versions
    <2>3. \A v \in Workers : req'[v].seen <= version
      BY <1>13, <2>1 DEF SessionInv, Versions
    <2> QED BY <2>1, <2>2, <2>3 DEF Versions
  <1>17. Holding'
    <2>1. ASSUME NEW v \in Workers, Holds(v)'
          PROVE  /\ v # w /\ Holds(v) /\ req[v].token # s /\ req[v].token # t
                 /\ req[v].token \in Sessions
      <3>1. v # w /\ Holds(v)
        BY <2>1, <1>13 DEF Holds
      <3>2. RequestOK(v) /\ Live(req[v].token) /\ req[v].token \in Sessions
        BY <3>1, RequestsOK DEF RequestOK, Holds
      <3>3. Holds(w)
        BY DEF Replace, Holds
      <3> QED BY <3>1, <3>2, <3>3, <1>0, <1>8 DEF SessionInv, Holding
    <2> QED BY <2>1, <1>7, <1>10, <1>13 DEF SessionInv, Holding
  <1>18. Ending'
    <2>1. ASSUME NEW v \in Workers, req'[v].step = "ending"
          PROVE  /\ v # w /\ req[v].step = "ending" /\ req[v].saw \in SUBSET Sessions
                 /\ req'[v].saw = req[v].saw /\ req'[v].all = req[v].all
                 /\ ~ req'[v].stale => ~ req[v].stale /\ s \notin req[v].saw
      BY <2>1, <1>13 DEF SessionInv, TypeOK, Request
    <2>2. ASSUME NEW v \in Workers, req[v].step = "ending"
          PROVE  t \notin req[v].saw /\ t \notin req[v].all
      BY <2>2, <1>2 DEF SessionInv, Ending
    <2>3. ASSUME NEW v \in Workers, req'[v].step = "ending", ~ req'[v].stale
          PROVE  /\ \A u \in req[v].saw : Live(u)'
                 /\ \A u \in Sessions : Live(u)' /\ Line(u)' \cap req[v].all # {}
                                           => u \in req[v].saw
      <3>1. ~ req[v].stale /\ s \notin req[v].saw /\ req[v].step = "ending"
            /\ t \notin req[v].saw /\ t \notin req[v].all /\ req[v].saw \in SUBSET Sessions
        BY <2>1, <2>2, <2>3
      <3>2. /\ \A u \in req[v].saw : Live(u)
            /\ \A u \in Sessions : Live(u) /\ Line(u) \cap req[v].all # {} => u \in req[v].saw
        BY <3>1 DEF SessionInv, Ending
      <3>3. Line(s) \cap req[v].all = {}
        BY <3>1, <3>2, <1>1
      <3> QED BY <3>1, <3>2, <3>3, <1>10
    <2>4. ASSUME NEW v \in Workers, req'[v].step = "ending"
          PROVE  /\ version' < MaxVersion
                 /\ \A u \in Workers : req'[u].step = "ending" => u = v
                 /\ req[v].saw \subseteq Created' /\ req[v].all \subseteq Created'
      BY <2>1, <2>4, <1>8 DEF Replace, SessionInv, Ending
    <2> QED BY <2>1, <2>3, <2>4 DEF Ending
  <1>19. Validating'
    <2>1. UNCHANGED version
      BY DEF Replace
    <2>2. ASSUME NEW v \in Workers, req'[v].step = "validating"
          PROVE  /\ req[v].step = "validating" /\ req'[v].token = req[v].token
                 /\ req'[v].was = req[v].was /\ req[v].token \in Created
                 /\ sessions'[req[v].token].version = sessions[req[v].token].version
      <3>1. v # w /\ req[v].step = "validating"
        BY <2>2, <1>13
      <3>2. req[v].token \in Created
        BY <3>1 DEF SessionInv, Validating
      <3> QED BY <3>1, <3>2, <1>2, <1>4, <1>7, <1>13 DEF Created
    <2> QED BY <2>1, <2>2, <1>8 DEF SessionInv, Validating
  <1> QED BY <1>14, <1>15, <1>16, <1>17, <1>18, <1>19 DEF SessionInv

\* A logout-all that meets no conflict revokes every live session it found, and so
\* everything live that descends from a session that existed when it began.
LEMMA CommitLogoutAllKeeps ==
    ASSUME SessionInv, NEW w \in Workers, CommitLogoutAll(w)
    PROVE  SessionInv'
  <1>0. PICK found \in SUBSET Sessions : found = req[w].saw
    BY DEF SessionInv, TypeOK, Request
  <1>1. /\ req[w].step = "ending" /\ version < MaxVersion /\ req[w].all \subseteq Created
        /\ \A v \in Workers : req[v].step = "ending" => v = w
        /\ \A s \in found : Live(s)
        /\ \A s \in Sessions : Live(s) /\ Line(s) \cap req[w].all # {} => s \in found
    BY <1>0, RequestsOK DEF CommitLogoutAll, RequestOK
  <1>2. version \in 0 .. MaxVersion /\ version' = version + 1
    BY DEF CommitLogoutAll, SessionInv, TypeOK
  <1>3. /\ sessions' \in [Sessions -> Session]
        /\ \A s \in Sessions :
              /\ sessions'[s].state = IF s \in found THEN "REVOKED" ELSE sessions[s].state
              /\ sessions'[s].version = sessions[s].version
              /\ sessions'[s].org = sessions[s].org /\ Line(s)' = Line(s)
    <2>1. \A s \in Sessions : [sessions[s] EXCEPT !.state = "REVOKED"] \in Session
      BY DEF SessionInv, TypeOK, Session, SessionState
    <2>2. \A s \in Sessions : sessions[s] \in Session
      BY DEF SessionInv, TypeOK
    <2>3. sessions' = [s \in Sessions |-> IF s \in found
                                         THEN [sessions[s] EXCEPT !.state = "REVOKED"]
                                         ELSE sessions[s]]
      BY <1>0 DEF CommitLogoutAll
    <2> QED BY <2>1, <2>2, <2>3 DEF Line, Session
  <1>4. \A s \in Sessions : Live(s)' <=> Live(s) /\ s \notin found
    BY <1>3 DEF Live
  <1>5. Created' = Created
    BY <1>1, <1>3 DEF Created, Live
  <1>6. /\ req' \in [Workers -> Request] /\ req'[w].step = "idle" /\ req'[w].seen = 0
        /\ \A v \in Workers \ {w} : req'[v] = req[v]
    BY IdleType DEF CommitLogoutAll, Idle, SessionInv, TypeOK
  <1>7. ended' = ended \cup req[w].all /\ Created \subseteq Sessions
    BY DEF CommitLogoutAll, Created
  <1>8. TypeOK'
    <2>1. version' \in 0 .. MaxVersion
      BY <1>1, <1>2, SessionsAssumption
    <2> QED BY <2>1, <1>1, <1>3, <1>6, <1>7 DEF CommitLogoutAll, SessionInv, TypeOK
  <1>9. Lines' /\ Families' /\ Tips'
    BY <1>3, <1>4, <1>5 DEF SessionInv, Lines, Families, Tips
  <1>10. Ended'
    BY <1>1, <1>3, <1>4, <1>5, <1>7 DEF SessionInv, Ended
  <1>11. Versions'
    <2>1. \A s \in Sessions : sessions[s].version \in Nat
      BY SessionsAssumption DEF SessionInv, TypeOK, Session
    <2>2. \A v \in Workers : req[v].seen \in Nat
      BY SessionsAssumption DEF SessionInv, TypeOK, Request
    <2> QED BY <2>1, <2>2, <1>2, <1>3, <1>6 DEF SessionInv, Versions
  <1>12. Holding'
    <2>1. ASSUME NEW v \in Workers, Holds(v)'
          PROVE  v # w /\ Holds(v) /\ req[v].token \in Sessions /\ req[v].token \notin found
      <3>1. v # w /\ Holds(v)
        BY <2>1, <1>6 DEF Holds
      <3> QED BY <3>1, <1>0, RequestsOK DEF RequestOK, Holds, CommitLogoutAll, Locked
    <2>2. ASSUME NEW v \in Workers, Holds(v)' PROVE req'[v] = req[v]
      BY <2>1, <2>2, <1>6
    <2> QED BY <2>1, <2>2, <1>3, <1>4 DEF SessionInv, Holding
  <1>13. Ending'
    BY <1>1, <1>6 DEF Ending
  <1>14. Validating'
    <2>1. ASSUME NEW v \in Workers, req'[v].step = "validating"
          PROVE  /\ req'[v] = req[v] /\ req[v].token \in Created
                 /\ sessions'[req[v].token].version \in 0 .. version
      <3>1. v # w /\ req'[v] = req[v]
        BY <2>1, <1>6
      <3>2. req[v].token \in Created
        BY <2>1, <3>1 DEF SessionInv, Validating
      <3> QED BY <3>1, <3>2, <1>2, <1>3 DEF Created, SessionInv, Versions, TypeOK, Session
    <2> QED BY <2>1, <1>2, <1>5 DEF Validating
  <1> QED BY <1>8, <1>9, <1>10, <1>11, <1>12, <1>13, <1>14 DEF SessionInv

----------------------------------------------------------------------------

LEMMA NextInv == SessionInv /\ [Next]_vars => SessionInv'
  <1> SUFFICES ASSUME SessionInv, [Next]_vars PROVE SessionInv'
    OBVIOUS
  <1>1. CASE UNCHANGED vars
    BY <1>1, StutterKeeps
  <1>2. CASE \E s \in Sessions, org \in Organizations :
                Register(s, org) \/ ActivateOrganization(s, org)
    BY <1>2, RegisterKeeps, ActivateKeeps
  <1>3. CASE \E s \in Sessions : Revoke(s) \/ Expire(s)
    BY <1>3, RevokeKeeps, ExpireKeeps
  <1>4. ASSUME NEW w \in Workers, WorkerStep(w) PROVE SessionInv'
    <2>1. CASE \E s \in Sessions : \/ \E org \in Organizations : CreateSession(w, s, org)
                                  \/ Refresh(w, s) \/ Replace(w, s) \/ Validate(w, s)
      BY <2>1, CreateSessionKeeps, RefreshKeeps, ReplaceKeeps, ValidateKeeps
    <2>2. CASE Login(w) \/ CheckUser(w) \/ Rotate(w) \/ ReadUser(w)
      BY <2>2, LoginKeeps, CheckUserKeeps, RotateKeeps, ReadUserKeeps
    <2>3. CASE BeginLogoutAll(w) \/ CommitLogoutAll(w) \/ Accept(w) \/ Abort(w)
      BY <2>3, BeginLogoutAllKeeps, CommitLogoutAllKeeps, AcceptKeeps, AbortKeeps
    <2> QED BY <1>4, <2>1, <2>2, <2>3 DEF WorkerStep
  <1> QED BY <1>1, <1>2, <1>3, <1>4 DEF Next

\* The sessions of a user and the requests that serve them stay consistent,
\* whatever logins, refreshes and logouts overlap.
THEOREM SessionInvariant == Spec => []SessionInv
  BY InitInv, NextInv, PTL DEF Spec

\* Documents and requests keep their shape.
THEOREM TypeCorrect == Spec => []TypeOK
  BY SessionInvariant, PTL DEF SessionInv

\* One login has at most one live session at any time, whatever refreshes of its
\* tokens race: session-refresh.service.ts, the conditional update.
THEOREM OneLive == Spec => []OneLivePerLogin
  <1>1. SessionInv => OneLivePerLogin
    BY DEF SessionInv, Families, Tips, OneLivePerLogin, Line
  <1> QED BY <1>1, SessionInvariant, PTL

\* A logout-all ends every session that existed when it began, with its
\* replacements: sessions.service.ts, logoutAll.
THEOREM LogoutAllComplete == Spec => []LogoutAllEnds
  <1>1. SessionInv => LogoutAllEnds
    BY DEF SessionInv, Ended, LogoutAllEnds, Usable, Line
  <1> QED BY <1>1, SessionInvariant, PTL

\* Reading the session and the user one after the other accepts no token that was
\* unusable all along: access-token-session.validator.ts, validate.
THEOREM AcceptanceJustified == Spec => []AcceptedWasUsable
  <1>1. SessionInv => AcceptedWasUsable
    BY DEF SessionInv, Validating, AcceptedWasUsable, Accepts
  <1> QED BY <1>1, SessionInvariant, PTL

\* What a step does to a session: nothing, or it writes one that is absent or live.
LEMMA Writes ==
    ASSUME SessionInv, [Next]_vars, NEW s \in Sessions,
           sessions[s].state \in {"ROTATED", "REVOKED"}
    PROVE  sessions'[s] = sessions[s]
  <1>1. s \in Created /\ ~ Live(s) /\ sessions \in [Sessions -> Session]
    BY DEF Created, Live, SessionInv, TypeOK
  <1>2. CASE UNCHANGED sessions
    BY <1>2
  <1>3. CASE \E u \in Sessions, org \in Organizations :
                Register(u, org) \/ ActivateOrganization(u, org)
    BY <1>1, <1>3 DEF Register, ActivateOrganization
  <1>4. CASE \E u \in Sessions : Revoke(u)
    BY <1>1, <1>4 DEF Revoke
  <1>5. CASE \E w \in Workers, u \in Sessions, org \in Organizations : CreateSession(w, u, org)
    BY <1>1, <1>5 DEF CreateSession
  <1>6. ASSUME NEW w \in Workers, NEW t \in Sessions, Replace(w, t)
        PROVE  sessions'[s] = sessions[s]
    <2>1. Live(req[w].token)
      BY <1>6, RequestsOK DEF Replace, RequestOK, Holds
    <2>2. s # t /\ s # req[w].token
      BY <1>1, <1>6, <2>1 DEF Replace
    <2> QED BY <1>1, <1>6, <2>2 DEF Replace
  <1>7. ASSUME NEW w \in Workers, CommitLogoutAll(w) PROVE sessions'[s] = sessions[s]
    <2>1. s \notin req[w].saw
      BY <1>1, <1>7, RequestsOK DEF CommitLogoutAll, RequestOK
    <2> QED BY <1>7, <2>1 DEF CommitLogoutAll
  <1>8. CASE \E u \in Sessions : Expire(u)
    BY <1>2, <1>8 DEF Expire
  <1>9. ASSUME NEW w \in Workers, WorkerStep(w) PROVE sessions'[s] = sessions[s]
    <2>1. CASE \E u \in Sessions : \/ \E org \in Organizations : CreateSession(w, u, org)
                                  \/ Refresh(w, u) \/ Replace(w, u) \/ Validate(w, u)
      BY <2>1, <1>2, <1>5, <1>6 DEF Refresh, Validate
    <2>2. CASE Login(w) \/ CheckUser(w) \/ Rotate(w) \/ ReadUser(w)
      BY <2>2, <1>2 DEF Login, CheckUser, Rotate, ReadUser
    <2>3. CASE BeginLogoutAll(w) \/ CommitLogoutAll(w) \/ Accept(w) \/ Abort(w)
      BY <2>3, <1>2, <1>7 DEF BeginLogoutAll, Accept, Abort
    <2> QED BY <1>9, <2>1, <2>2, <2>3 DEF WorkerStep
  <1> QED BY <1>2, <1>3, <1>4, <1>8, <1>9 DEF Next, vars

\* A revoked session keeps the reason and the link it was revoked with, whatever
\* runs meanwhile: the filters on revokedAt of sessions.service.ts and of
\* session-refresh.service.ts.
THEOREM RevocationPermanent == Spec => RevocationStands
  <1>1. SessionInv /\ [Next]_vars =>
          \A s \in Sessions : sessions[s].state \in {"ROTATED", "REVOKED"} =>
              sessions'[s] = sessions[s]
    BY Writes
  <1> QED BY <1>1, SessionInvariant, PTL DEF Spec, RevocationStands

\* Only a refresh links a session to a replacement.
LEMMA Links ==
    ASSUME SessionInv, [Next]_vars, NEW s \in Sessions, NEW t \in Sessions,
           sessions[s].replacedBy = NoSession, sessions'[s].replacedBy = t
    PROVE  sessions'[t].org = sessions[s].org
  <1>1. t # NoSession /\ sessions \in [Sessions -> Session]
    BY SessionsAssumption DEF SessionInv, TypeOK
  <1>2. CASE UNCHANGED sessions
    BY <1>1, <1>2
  <1>3. CASE \E u \in Sessions, org \in Organizations :
                Register(u, org) \/ ActivateOrganization(u, org)
    BY <1>1, <1>3 DEF Register, ActivateOrganization, NewSession, Session
  <1>4. CASE \E u \in Sessions : Revoke(u)
    BY <1>1, <1>4 DEF Revoke, Session
  <1>5. CASE \E w \in Workers, u \in Sessions, org \in Organizations : CreateSession(w, u, org)
    BY <1>1, <1>5 DEF CreateSession, NewSession
  <1>6. ASSUME NEW w \in Workers, NEW u \in Sessions, Replace(w, u)
        PROVE  sessions'[t].org = sessions[s].org
    <2>1. /\ Live(req[w].token) /\ req[w].org = sessions[req[w].token].org
          /\ req[w].token \in Sessions
      BY <1>6, RequestsOK DEF Replace, RequestOK, Holds
    <2>2. u # req[w].token /\ sessions'[u].org = req[w].org /\ sessions'[u].replacedBy = NoSession
      BY <1>1, <1>6, <2>1 DEF Replace, NewSession, Created, Live
    <2>3. \A v \in Sessions \ {u, req[w].token} : sessions'[v] = sessions[v]
      BY <1>1, <1>6 DEF Replace
    <2>4. s = req[w].token
      BY <1>1, <2>2, <2>3
    <2>5. sessions'[s].replacedBy = u
      BY <1>1, <1>6, <2>1, <2>2, <2>4 DEF Replace, Session
    <2> QED BY <2>1, <2>2, <2>4, <2>5
  <1>7. ASSUME NEW w \in Workers, CommitLogoutAll(w) PROVE sessions'[t].org = sessions[s].org
    BY <1>1, <1>7 DEF CommitLogoutAll, Session
  <1>8. CASE \E u \in Sessions : Expire(u)
    BY <1>2, <1>8 DEF Expire
  <1>9. ASSUME NEW w \in Workers, WorkerStep(w) PROVE sessions'[t].org = sessions[s].org
    <2>1. CASE \E u \in Sessions : \/ \E org \in Organizations : CreateSession(w, u, org)
                                  \/ Refresh(w, u) \/ Replace(w, u) \/ Validate(w, u)
      BY <2>1, <1>2, <1>5, <1>6 DEF Refresh, Validate
    <2>2. CASE Login(w) \/ CheckUser(w) \/ Rotate(w) \/ ReadUser(w)
      BY <2>2, <1>2 DEF Login, CheckUser, Rotate, ReadUser
    <2>3. CASE BeginLogoutAll(w) \/ CommitLogoutAll(w) \/ Accept(w) \/ Abort(w)
      BY <2>3, <1>2, <1>7 DEF BeginLogoutAll, Accept, Abort
    <2> QED BY <1>9, <2>1, <2>2, <2>3 DEF WorkerStep
  <1> QED BY <1>2, <1>3, <1>4, <1>8, <1>9 DEF Next, vars

\* A replacement has the organization its predecessor had when it committed, an
\* activation that overlapped the refresh included: session-refresh.service.ts,
\* issueReplacementSession.
THEOREM OrganizationSurvives == Spec => OrganizationKept
  <1>1. SessionInv /\ [Next]_vars =>
          \A s, t \in Sessions :
             sessions[s].replacedBy = NoSession /\ sessions'[s].replacedBy = t =>
                 sessions'[t].org = sessions[s].org
    BY Links
  <1> QED BY <1>1, SessionInvariant, PTL DEF Spec, OrganizationKept

=============================================================================
