----------------------------- MODULE Membership -----------------------------
(***************************************************************************)
(* The members of one organization (apps/org) and the invitations to it    *)
(* (apps/invitation).  A request reads rows, checks something, and saves   *)
(* whole rows later; nothing locks a row, and requests run in parallel.    *)
(***************************************************************************)
EXTENDS Integers, Roles

CONSTANTS
    User,       \* the people, each with an e-mail address
    FirstAccounts, \* the sets of people who may have an account at first
    Staff,      \* those who work for the vendor
    InDomain,   \* those with an address in a verified domain of the company
    Handler,    \* the processes that serve requests
    Wanted,     \* the roles that requests ask for
    DomainRoles,\* the roles that staff give to those with such an address
    None, NoRow,
    MaxInvite,  \* bound on the invitations
    MaxRequest, \* bound on the other requests
    MaxFault    \* bound on handlers that fail half-way

ASSUME MembershipAssumption ==
    /\ FirstAccounts \subseteq SUBSET User
    /\ Staff \subseteq User /\ InDomain \subseteq User
    /\ None \notin User /\ Wanted \subseteq Role /\ DomainRoles \subseteq Role
    /\ MaxInvite \in Nat /\ MaxRequest \in Nat /\ MaxFault \in Nat

VARIABLES
    account,   \* account[u]: "none", "on" or "off"
    member,    \* member[u]: the OrgMembership row of u, or NoRow
    invite,    \* invite[i]: the i-th invitation, or NoRow
    sent,      \* how many invitations were created
    session,   \* session[u]: the invitation that the browser of u accepted, or 0
    job,       \* what handler h is about to write
    requests, faults,
    crossed,   \* members whose rows were written by overlapping requests (history)
    torn,      \* invitations written while another request held them (history)
    joins,     \* joins[i]: how often somebody joined with invitation i (history)
    enrolled,  \* members created by the API and not edited since (history)
    excuse     \* how an owner was lost by other means than an edit (history)

rows == <<account, member, invite, sent, session>>
bounds == <<requests, faults>>
history == <<crossed, torn, joins, enrolled, excuse>>
vars == <<rows, job, bounds, history>>

Row == [role : Role, perm : Role, admin : BOOLEAN, active : BOOLEAN]
Invite == [email : User, role : Role, accepted : BOOLEAN]
Id == 1..MaxInvite

ASSUME NoRowAssumption == NoRow \notin Row \cup Invite

\* DEFAULT_ROLE; the mutant is the role of a member who was removed.
NoRole == "00"
DefaultRole == "m1"

\* A handler at rest, and one that goes to "at" with user u and row r.
Idle == [at |-> "idle", on |-> None, row |-> NoRow, new |-> FALSE,
         admin |-> FALSE, inv |-> 0, copy |-> NoRow, role |-> DefaultRole]
Goto(h, j) == job' = [job EXCEPT ![h] = j]
Others(h) == Handler \ {h}

Init ==
    /\ \E A \in FirstAccounts :
         account = [u \in User |-> IF u \in A \cup Staff THEN "on" ELSE "none"]
    /\ member = [u \in User |-> NoRow]
    /\ invite = [i \in Id |-> NoRow]
    /\ sent = 0
    /\ session = [u \in User |-> 0]
    /\ job = [h \in Handler |-> Idle]
    /\ requests = 0 /\ faults = 0
    /\ crossed = {} /\ torn = {} /\ enrolled = {}
    /\ joins = [i \in Id |-> 0]
    /\ excuse = {"new"}
-----------------------------------------------------------------------------
(* What the requests ask of the rows. *)

IsMember(u) == account[u] = "on" /\ member[u] # NoRow /\ member[u].active
IsOwner(u) == IsMember(u) /\ member[u].role = "a0"
OwnerCount == {u \in User : IsOwner(u)}

HasPermission(u, p) ==
    \/ u \in Staff
    \/ member[u] # NoRow /\ member[u].active /\ p \in RolePermissions[member[u].perm]

\* The roles that the membership form offers to user u.
Choices(u) ==
    IF u \in Staff THEN Role
    ELSE {r \in Role : Rank[member[u].role] <= Rank[r] /\ Rank[r] < 6}

\* The row that register_user saves for u, and its mutants.
RegisteredActive(u, role, admin) ==
    IF member[u] = NoRow
    THEN [role |-> role, perm |-> role, admin |-> admin, active |-> TRUE]
    ELSE [member[u] EXCEPT !.role = role, !.perm = role, !.active = TRUE]
RegisteredRole(u, role, admin) ==
    IF member[u] = NoRow
    THEN [role |-> role, perm |-> role, admin |-> admin, active |-> TRUE]
    ELSE [member[u] EXCEPT !.role = role]
Registered(u, role, admin) ==
    IF member[u] = NoRow
    THEN [role |-> role, perm |-> role, admin |-> admin, active |-> TRUE]
    ELSE [member[u] EXCEPT !.role = role, !.perm = role]

\* Only its creator knows an organization that is being created.
Known == excuse \cap {"new", "creating"} = {}

\* A request starts on handler h.
Asked(h) ==
    /\ job[h].at = "idle"
    /\ requests < MaxRequest /\ requests' = requests + 1

\* The members that handlers other than h are about to write.
Pending(h) == {job[g].on : g \in {f \in Others(h) :
                            job[f].at \in {"update", "insert", "joined"}}}
\* Handler h writes the row of u; others may be about to.
WriteMember(h, u, row) ==
    /\ member' = [member EXCEPT ![u] = row]
    /\ crossed' = IF Pending(h) = {} THEN crossed
                  ELSE crossed \cup {u} \cup Pending(h)
\* Handler h writes invitation i; others may hold an older copy.
WriteInvite(h, i, row) ==
    /\ invite' = [invite EXCEPT ![i] = row]
    /\ torn' = IF \E g \in Others(h) : job[g].inv = i THEN torn \cup {i} ELSE torn

\* An invitation is saved, and inserted again if it is gone, if its address has
\* no other.
CanSave(i, row) ==
    \A k \in Id \ {i} : invite[k] # NoRow => invite[k].email # row.email
-----------------------------------------------------------------------------
(* The organization and its members. *)

\* The organization is created and its creator registered as the owner.
CreateOrg(h, u) ==
    /\ "new" \in excuse
    /\ account[u] = "on"
    /\ job[h].at = "idle"
    /\ excuse' = {"creating"}
    /\ Goto(h, [Idle EXCEPT !.at = "join", !.on = u, !.role = "a0", !.admin = TRUE])
    /\ UNCHANGED <<rows, bounds, crossed, torn, joins, enrolled>>

\* The checks of OrgMembershipForm, and a mutant that forgets the last owner.
CleanLax(u, role, active) == ~(role = "a0" /\ ~active)
Clean(u, role, active) ==
    /\ ~(role = "a0" /\ ~active)
    /\ role # "a0" /\ IsOwner(u) => \E v \in OwnerCount : v # u

\* The membership form was sent and is valid.
Edit(h, by, u, role, active) ==
    /\ Asked(h)
    /\ account[by] = "on" /\ HasPermission(by, "can_manage_users")
    /\ member[u] # NoRow
    /\ role \in Choices(by) /\ Clean(u, role, active)
    /\ Goto(h, [Idle EXCEPT !.at = "update", !.on = u,
                  !.row = [role |-> role, perm |-> role,
                           admin |-> role \in {"a0", "a1"}, active |-> active]])
    /\ UNCHANGED <<rows, faults, history>>

Update(h) ==
    /\ job[h].at = "update"
    /\ WriteMember(h, job[h].on, job[h].row)
    /\ enrolled' = enrolled \ {job[h].on}
    /\ Goto(h, Idle)
    /\ UNCHANGED <<account, invite, sent, session, bounds, torn, joins, excuse>>

\* The API registers a user who is not a member.  The serializer does not
\* write permissions: the row gets those of the default role.
Register(h, by, u, role, active) ==
    /\ Asked(h)
    /\ Known
    /\ account[by] = "on" /\ HasPermission(by, "can_manage_users")
    /\ account[u] # "none" /\ member[u] = NoRow
    /\ role \in ApiRoles
    /\ Goto(h, [Idle EXCEPT !.at = "insert", !.on = u,
                  !.row = [role |-> role, perm |-> DefaultRole,
                           admin |-> role \in {"a0", "a1"}, active |-> active]])
    /\ UNCHANGED <<rows, faults, history>>

\* There is one row for each member: inserting a second one is an error.
Insert(h) ==
    LET u == job[h].on
    IN  /\ job[h].at = "insert"
        /\ IF member[u] = NoRow
           THEN WriteMember(h, u, job[h].row) /\ enrolled' = enrolled \cup {u}
           ELSE UNCHANGED <<member, crossed, enrolled>>
        /\ Goto(h, Idle)
        /\ UNCHANGED <<account, invite, sent, session, bounds, torn, joins, excuse>>

\* Staff switch an account off or on again.
SwitchAccount(u) ==
    /\ account[u] # "none" /\ u \notin Staff
    /\ requests < MaxRequest /\ requests' = requests + 1
    /\ account' = [account EXCEPT ![u] = IF @ = "on" THEN "off" ELSE "on"]
    /\ excuse' = IF IsOwner(u) \/ "creating" \in excuse
                  THEN excuse \cup {"account"} ELSE excuse
    /\ UNCHANGED <<member, invite, sent, session, job, faults,
                   crossed, torn, joins, enrolled>>

\* A user confirms an address in a verified domain of the organization, whose
\* default_role staff may set and change.
ConfirmEmail(h, u, role) ==
    /\ Known
    /\ u \in InDomain /\ account[u] # "none"
    /\ ~IsMember(u)
    /\ Asked(h)
    /\ Goto(h, [Idle EXCEPT !.at = "join", !.on = u, !.role = role])
    /\ UNCHANGED <<rows, faults, history>>

\* register_user reads the row of the user, if there is one ...
JoinRead(h) ==
    LET u == job[h].on
    IN  /\ job[h].at = "join"
        /\ Goto(h, [job[h] EXCEPT !.at = "joined", !.new = member[u] = NoRow,
                      !.row = Registered(u, job[h].role, job[h].admin)])
        /\ UNCHANGED <<rows, bounds, history>>

\* Of two requests that found no row, only one can insert it.
Refused(h) ==
    \/ job[h].new /\ member[job[h].on] # NoRow
    \/ job[h].inv # 0 /\ ~CanSave(job[h].inv, job[h].copy)

\* ... and saves it; an invitation is accepted in the same transaction, which the
\* database refuses as a whole.
JoinWrite(h) ==
    LET u == job[h].on
        i == job[h].inv
    IN  /\ job[h].at = "joined"
        /\ Goto(h, Idle)
        /\ IF Refused(h)
           THEN UNCHANGED <<member, invite, crossed, torn, joins, excuse>>
           ELSE /\ WriteMember(h, u, job[h].row)
                /\ IF i = 0 THEN UNCHANGED <<invite, torn, joins>>
                   ELSE /\ WriteInvite(h, i, [job[h].copy EXCEPT !.accepted = TRUE])
                        /\ joins' = [joins EXCEPT ![i] = @ + 1]
                /\ excuse' = IF job[h].admin THEN excuse \ {"creating"}
                             ELSE IF IsOwner(u) /\ job[h].role # "a0"
                             THEN excuse \cup {"rejoined"}
                             ELSE excuse
        /\ UNCHANGED <<account, sent, session, bounds, enrolled>>
-----------------------------------------------------------------------------
(* Invitations. *)

\* An invitation is created, with the default role by the API and with any role
\* by the form, which refuses members.  There is one for each address.
Send(e, role) ==
    /\ Known
    /\ \A i \in Id : invite[i] # NoRow => invite[i].email # e
    /\ role \in FormRoles /\ role \in Wanted \cup {DefaultRole}
    /\ role # DefaultRole => member[e] = NoRow
    /\ sent < MaxInvite /\ sent' = sent + 1
    /\ invite' = [invite EXCEPT ![sent'] =
                    [email |-> e, role |-> role, accepted |-> FALSE]]
    /\ UNCHANGED <<account, member, session, job, bounds, history>>

\* The form sends an invitation again, and will save it as it was read.
Resend(h, i) ==
    /\ invite[i] # NoRow
    /\ Asked(h)
    /\ Goto(h, [Idle EXCEPT !.at = "resend", !.inv = i, !.copy = invite[i]])
    /\ UNCHANGED <<rows, faults, history>>

Resent(h) ==
    LET i == job[h].inv
    IN  /\ job[h].at = "resend"
        /\ IF CanSave(i, job[h].copy) THEN WriteInvite(h, i, job[h].copy)
                                      ELSE UNCHANGED <<invite, torn>>
        /\ Goto(h, Idle)
        /\ UNCHANGED <<account, member, sent, session, bounds,
                       crossed, joins, enrolled, excuse>>

DeleteInvite(h, i) ==
    /\ job[h].at = "idle" /\ invite[i] # NoRow
    /\ WriteInvite(h, i, NoRow)
    /\ UNCHANGED <<account, member, sent, session, job, bounds,
                   crossed, joins, enrolled, excuse>>

\* Somebody, in the browser of user b, accepts invitation i.
Accept(h, b, i) ==
    /\ invite[i] # NoRow /\ ~invite[i].accepted
    /\ Asked(h)
    /\ Goto(h, [Idle EXCEPT !.at = "accept", !.on = b, !.inv = i,
                  !.copy = invite[i], !.role = invite[i].role])
    /\ UNCHANGED <<rows, faults, history>>

\* The form saves the row as it was read.  An address with an account joins,
\* unless it was disabled; without one, the browser remembers the invitation.
Accepted(h) ==
    LET i == job[h].inv
        e == job[h].copy.email
    IN  /\ job[h].at = "accept"
        /\ CASE ~CanSave(i, job[h].copy) ->
                  Goto(h, Idle) /\ UNCHANGED <<invite, torn, session>>
             [] CanSave(i, job[h].copy) /\ account[e] = "none" ->
                  /\ WriteInvite(h, i, job[h].copy)
                  /\ session' = [session EXCEPT ![job[h].on] = i]
                  /\ Goto(h, Idle)
             [] OTHER ->
                  /\ WriteInvite(h, i, job[h].copy)
                  /\ UNCHANGED session
                  /\ IF member[e] # NoRow /\ ~member[e].active THEN Goto(h, Idle)
                     ELSE Goto(h, [job[h] EXCEPT !.at = "join", !.on = e])
        /\ UNCHANGED <<account, member, sent, bounds,
                       crossed, joins, enrolled, excuse>>

\* Mutant: signing up does not look whether the invitation was accepted.
SignUpUnchecked(h, u) ==
    LET i == session[u]
    IN  /\ account[u] = "none"
        /\ Asked(h)
        /\ account' = [account EXCEPT ![u] = "on"]
        /\ session' = [session EXCEPT ![u] = 0]
        /\ IF i = 0 \/ invite[i] = NoRow THEN UNCHANGED job
           ELSE Goto(h, [Idle EXCEPT !.at = "join", !.on = u, !.inv = i,
                           !.copy = invite[i], !.role = invite[i].role])
        /\ UNCHANGED <<member, invite, sent, faults, history>>

\* A new account, with the invitation that the browser remembers.
SignUp(h, u) ==
    LET i == session[u]
    IN  /\ account[u] = "none"
        /\ Asked(h)
        /\ account' = [account EXCEPT ![u] = "on"]
        /\ session' = [session EXCEPT ![u] = 0]
        /\ IF i = 0 \/ invite[i] = NoRow \/ invite[i].accepted THEN UNCHANGED job
           ELSE Goto(h, [Idle EXCEPT !.at = "join", !.on = u, !.inv = i,
                           !.copy = invite[i], !.role = invite[i].role])
        /\ UNCHANGED <<member, invite, sent, faults, history>>

\* A handler fails between two statements.
Fail(h) ==
    /\ job[h].at # "idle"
    /\ faults < MaxFault /\ faults' = faults + 1
    /\ Goto(h, Idle)
    /\ UNCHANGED <<rows, requests, history>>
-----------------------------------------------------------------------------
Members(h) ==
    \/ \E u \in User : CreateOrg(h, u)
    \/ \E u \in User, role \in DomainRoles : ConfirmEmail(h, u, role)
    \/ \E by, u \in User, role \in Wanted, active \in BOOLEAN :
         Edit(h, by, u, role, active) \/ Register(h, by, u, role, active)
    \/ Update(h) \/ Insert(h) \/ JoinRead(h) \/ JoinWrite(h)

Invitations(h) ==
    \/ \E i \in Id : \/ Resend(h, i) \/ DeleteInvite(h, i)
                     \/ \E b \in User : Accept(h, b, i)
    \/ Resent(h) \/ Accepted(h)
    \/ \E u \in User : SignUp(h, u)

Next == \/ \E h \in Handler : Members(h) \/ Invitations(h) \/ Fail(h)
        \/ \E u \in User : SwitchAccount(u)
        \/ \E e \in User, role \in Role : Send(e, role)

Spec == Init /\ [][Next]_vars
-----------------------------------------------------------------------------
(* Properties. *)

Job == [at : {"idle", "update", "insert", "join", "joined", "resend", "accept"},
        on : User \cup {None}, row : Row \cup {NoRow},
        new : BOOLEAN, admin : BOOLEAN, inv : 0..MaxInvite,
        copy : Invite \cup {NoRow}, role : Role]

\* Rows, invitations and the work of the handlers keep to their types.
TypeOK ==
    /\ account \in [User -> {"none", "on", "off"}]
    /\ member \in [User -> Row \cup {NoRow}]
    /\ invite \in [Id -> Invite \cup {NoRow}]
    /\ sent \in 0..MaxInvite
    /\ session \in [User -> 0..MaxInvite]
    /\ job \in [Handler -> Job]
    /\ requests \in 0..MaxRequest /\ faults \in 0..MaxFault
    /\ crossed \subseteq User /\ enrolled \subseteq User
    /\ torn \subseteq Id /\ joins \in [Id -> Nat]
    /\ excuse \subseteq {"new", "creating", "account", "rejoined"}

\* The organization keeps an owner whatever the forms, the API and the sign-ups
\* do, with four exceptions: two requests that wrote membership rows at the same
\* time; an owner whose account was switched off; an owner who accepted an
\* invitation or confirmed an address and was given the lesser role of it; a
\* creation that stopped before its creator was registered.
OwnerRemains == excuse = {} /\ crossed = {} => OwnerCount # {}

\* What the form says (org/forms.py:124, "Cannot remove owner: organization must
\* have an owner"): while no account is switched off and no request overlaps
\* another, an organization that was created has an owner.
OrgHasOwner ==
    excuse \cap {"new", "creating", "account"} = {} /\ crossed = {}
        => OwnerCount # {}

\* One person joins with one invitation, however many accept it, sign up with
\* it, send it again or delete it, unless one of these requests wrote the
\* invitation while another one held it.
InvitationUsedOnce == \A i \in Id \ torn : joins[i] <= 1

\* A member who was disabled comes back by an edit of the membership only: no
\* invitation, sign-up or confirmed address does it, unless two requests wrote
\* the row of the member at the same time.
DisabledStaysOut ==
    [][\A u \in User \ crossed' :
         (member[u] # NoRow /\ ~member[u].active /\ member'[u].active)
         => \E h \in Handler : job[h].at = "update" /\ job[h].on = u]_vars

\* What a member may do is what the role says that is shown to everybody, except
\* for those whom the API registered and nobody edited since.
PermissionsFollowRole ==
    \A u \in User \ enrolled :
        member[u] # NoRow => member[u].perm = member[u].role
=============================================================================
