----------------------------- MODULE ProjectTeam -----------------------------
(***************************************************************************)
(* The memberships of one project: src/src/modules/projects (team          *)
(* operations).  A user, or an address, may have one active membership.    *)
(*                                                                         *)
(* A transaction that makes a membership active looks for another one of   *)
(* the same user or address in its snapshot, and writes its own document   *)
(* only: two of them overlap without a conflict, and the unique indexes    *)
(* decide.  A write to the document itself since the snapshot is a         *)
(* conflict, and so is an expectedVersion the document has outgrown.       *)
(***************************************************************************)
EXTENDS Naturals

CONSTANTS
    Members,   \* membership documents, existing or to come
    Users,     \* users of the organization
    Emails,    \* normalised addresses
    Managers   \* transactions in progress at the same time

VARIABLES
    member,   \* membership document
    change    \* manager -> the change it has in progress

teamVars == <<member, change>>

----------------------------------------------------------------------------
NoUser  == "none"
NoEmail == "none"

MemberStatus == {"PLANNED", "ACTIVE", "INACTIVE"}
NoMember     == [status |-> "ABSENT", user |-> NoUser, email |-> NoEmail]

\* Name, role and capacity, which every membership has, decide nothing here.
Member == [status : MemberStatus, user : Users \cup {NoUser}, email : Emails \cup {NoEmail}]

NoChange == [op |-> "none"]
Change   == [op : {"save"}, member : Members, document : Member, stale : BOOLEAN]

TeamInit ==
    /\ member = [m \in Members |-> NoMember]
    /\ change = [g \in Managers |-> NoChange]

SameUser(d, e)  == d.user # NoUser /\ d.user = e.user
SameEmail(d, e) == d.email # NoEmail /\ d.email = e.email

ActiveOthers(m) == {n \in Members \ {m} : member[n].status = "ACTIVE"}

NoDuplicate(m, d) ==
    \A n \in ActiveOthers(m) : ~SameUser(d, member[n]) /\ ~SameEmail(d, member[n])

\* Faulty: the collection has no unique index on the address.
UserIndexOnly(m, d) ==
    d.status = "ACTIVE" => \A n \in ActiveOthers(m) : ~SameUser(d, member[n])

\* The two partial unique indexes of the active memberships.
UniqueActive(m, d) ==
    d.status = "ACTIVE" =>
        \A n \in ActiveOthers(m) : ~SameUser(d, member[n]) /\ ~SameEmail(d, member[n])

\* A commit that wrote m: the changes of m in progress will conflict.
Write(m, d) ==
    /\ member' = [member EXCEPT ![m] = d]
    /\ change' = [g \in Managers |->
          IF change[g] # NoChange /\ change[g].member = m
          THEN [change[g] EXCEPT !.stale = TRUE] ELSE change[g]]

----------------------------------------------------------------------------
Decide(g, m, d) ==
    /\ change[g] = NoChange
    /\ d.status = "ACTIVE" => NoDuplicate(m, d)
    /\ change' = [change EXCEPT ![g] = [op |-> "save", member |-> m, document |-> d,
                                        stale |-> FALSE]]
    /\ UNCHANGED member

BeginCreate(g, m, d) ==
    /\ member[m] = NoMember /\ d.status \in {"PLANNED", "ACTIVE"}
    /\ Decide(g, m, d)

\* All but the status of any membership may be changed, the name only for instance.
BeginUpdate(g, m, d) ==
    /\ member[m] # NoMember /\ d.status = member[m].status
    /\ Decide(g, m, d)

BeginActivate(g, m) ==
    /\ member[m] # NoMember
    /\ Decide(g, m, [member[m] EXCEPT !.status = "ACTIVE"])

CommitChange(g) ==
    /\ change[g] # NoChange /\ ~change[g].stale
    /\ UniqueActive(change[g].member, change[g].document)
    /\ member' = [member EXCEPT ![change[g].member] = change[g].document]
    /\ change' = [h \in Managers |->
          IF h = g THEN NoChange
          ELSE IF change[h] # NoChange /\ change[h].member = change[g].member
          THEN [change[h] EXCEPT !.stale = TRUE] ELSE change[h]]

AbortChange(g) ==
    /\ change[g] # NoChange
    /\ change' = [change EXCEPT ![g] = NoChange]
    /\ UNCHANGED member

\* Decides on nothing but the document it writes.
Deactivate(m) ==
    /\ member[m] # NoMember
    /\ Write(m, [member[m] EXCEPT !.status = "INACTIVE"])

TeamStep ==
    \/ \E g \in Managers, m \in Members, d \in Member : BeginCreate(g, m, d) \/ BeginUpdate(g, m, d)
    \/ \E g \in Managers, m \in Members : BeginActivate(g, m)
    \/ \E g \in Managers : CommitChange(g) \/ AbortChange(g)
    \/ \E m \in Members : Deactivate(m)

----------------------------------------------------------------------------
\* Values of the state variables.
TeamTypeOK ==
    /\ member \in [Members -> Member \cup {NoMember}]
    /\ change \in [Managers -> Change \cup {NoChange}]

\* No user and no address has two active memberships of the project, though creations,
\* activations and changes of user or address overlap.
OneMembership ==
    \A m, n \in Members :
        /\ m # n /\ member[m].status = "ACTIVE" /\ member[n].status = "ACTIVE"
        => ~SameUser(member[m], member[n]) /\ ~SameEmail(member[m], member[n])
=============================================================================
