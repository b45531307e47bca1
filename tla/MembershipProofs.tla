-------------------------- MODULE MembershipProofs --------------------------
(***************************************************************************)
(* Proofs about Membership, for any people, handlers, roles that requests  *)
(* ask for, and bounds.                                                    *)
(***************************************************************************)
EXTENDS Membership, TLAPS

Writing == {"update", "insert", "joined"}

\* A handler that is about to write has what it writes.
JobHeld(h) ==
    /\ job[h].at = "idle" => job[h].inv = 0 /\ ~job[h].admin
    /\ job[h].at \in Writing \cup {"join", "accept"} => job[h].on \in User
    /\ job[h].at \in Writing => job[h].row \in Row
    /\ job[h].at \in {"resend", "accept"} => job[h].inv \in Id
    /\ job[h].inv \in Id => job[h].copy \in Invite

JobInv == \A h \in Handler : JobHeld(h)

\* The rows that edits and sign-ups are about to write have the permissions of
\* their role.
RowInv ==
    /\ PermissionsFollowRole
    /\ \A h \in Handler :
          job[h].at \in {"update", "joined"} => job[h].row.perm = job[h].row.role

\* A handler about to save what register_user read has read the row as it is,
\* unless some other handler wrote a row meanwhile.
FreshRead(h) ==
    /\ job[h].new = (member[job[h].on] = NoRow)
    /\ job[h].row = Registered(job[h].on, job[h].role, job[h].admin)

SnapInv ==
    \A h \in Handler :
        job[h].at = "joined" /\ job[h].on \notin crossed => FreshRead(h)

\* Of an invitation that is not torn: nobody has joined with it, or it is
\* accepted in the table and in the hands of everybody who holds it.
Spent(i) ==
    /\ invite[i] = NoRow \/ invite[i].accepted
    /\ \A h \in Handler :
          job[h].inv = i => job[h].at = "resend" /\ job[h].copy.accepted

InviteInv ==
    /\ \A i \in Id : i > sent => invite[i] = NoRow /\ joins[i] = 0
    /\ \A h \in Handler : job[h].inv <= sent
    /\ \A u \in User : session[u] <= sent
    /\ \A i \in Id \ torn : joins[i] = 0 \/ (joins[i] = 1 /\ Spent(i))

\* Until its creator is registered the organization has no rows, and only the
\* handler that creates it works on it.
PhaseInv ==
    /\ "new" \in excuse => "creating" \notin excuse
    /\ ~Known =>
          /\ \A u \in User : member[u] = NoRow
          /\ sent = 0
    /\ \A h \in Handler : ~Known => job[h].admin \/ job[h].at = "idle"
    /\ \A h \in Handler : job[h].admin =>
          /\ "creating" \in excuse
          /\ job[h].at \in {"join", "joined"} /\ job[h].role = "a0" /\ job[h].inv = 0
          /\ "account" \notin excuse => account[job[h].on] = "on"
    /\ \A g, h \in Handler : job[g].admin /\ job[h].admin => g = h

\* While nothing excuses it: there is an owner, and an edit about to be saved
\* leaves one.
OwnerInv ==
    excuse = {} /\ crossed = {} =>
        /\ \E v \in User : IsOwner(v)
        /\ \A h \in Handler : job[h].at = "update" =>
              /\ job[h].row.role = "a0" => job[h].row.active
              /\ \/ job[h].row.role = "a0"
                 \/ \E v \in User \ {job[h].on} : IsOwner(v)

IInv == TypeOK /\ JobInv /\ RowInv /\ SnapInv /\ InviteInv /\ PhaseInv /\ OwnerInv

-----------------------------------------------------------------------------
(* The steps. *)

\* The roles, by name.
LEMMA RoleSet == Role = {"s0", "a0", "a1", "m1", "r1", "d1"}
BY DEF Role, RolePermissions

LEMMA IdleType == Idle \in Job
BY MembershipAssumption, RoleSet DEF Idle, Job, DefaultRole

LEMMA IdleFields == Idle.at = "idle" /\ Idle.inv = 0 /\ Idle.admin = FALSE
BY DEF Idle

LEMMA InitIInv == Init => IInv
<1> SUFFICES ASSUME Init PROVE IInv
    OBVIOUS
<1> USE MembershipAssumption, NoRowAssumption, RoleSet
<1>2. TypeOK
    BY IdleType DEF Init, TypeOK
<1>3. JobInv /\ RowInv /\ SnapInv
    BY DEF Init, JobInv, JobHeld, RowInv, PermissionsFollowRole, SnapInv, Idle, Writing, Id
<1>4. InviteInv /\ PhaseInv /\ OwnerInv
    BY DEF Init, InviteInv, PhaseInv, OwnerInv, Idle, Id, Known
<1> QED
    BY <1>2, <1>3, <1>4 DEF IInv

\* What a handler writes keeps the types of the rows and of the histories.
LEMMA WriteMemberType ==
    ASSUME TypeOK, JobInv, NEW h \in Handler, NEW u \in User, NEW row \in Row,
           WriteMember(h, u, row)
    PROVE  member' \in [User -> Row \cup {NoRow}] /\ crossed' \subseteq User
<1>1. Pending(h) \subseteq User
    BY DEF Pending, Others, JobInv, JobHeld, Writing
<1> QED
    BY <1>1 DEF WriteMember, TypeOK

LEMMA WriteInviteType ==
    ASSUME TypeOK, NEW h \in Handler, NEW i \in Id, NEW row \in Invite \cup {NoRow},
           WriteInvite(h, i, row)
    PROVE  invite' \in [Id -> Invite \cup {NoRow}] /\ torn' \subseteq Id
BY DEF WriteInvite, TypeOK

\* register_user saves a row.
LEMMA RegisteredRow ==
    ASSUME TypeOK, NEW u \in User, NEW r \in Role, NEW a \in BOOLEAN
    PROVE  /\ Registered(u, r, a) \in Row
           /\ Registered(u, r, a).perm = Registered(u, r, a).role
<1>1. CASE member[u] = NoRow
    BY <1>1 DEF Registered, Row
<1>2. CASE member[u] # NoRow
    <2>1. member[u] \in Row
        BY <1>2 DEF TypeOK
    <2> QED
        BY <1>2, <2>1 DEF Registered, Row
<1> QED
    BY <1>1, <1>2

\* The form that accepts an invitation ends, or goes on to register its addressee.
LEMMA AcceptedMove ==
    ASSUME TypeOK, JobInv, NEW h \in Handler, Accepted(h)
    PROVE  /\ job[h].inv \in Id /\ job[h].copy \in Invite
           /\ \A g \in Handler \ {h} : job'[g] = job[g]
           /\ \/ job'[h] = Idle
              \/ /\ job'[h].at = "join" /\ job'[h].on = job[h].copy.email
                 /\ job'[h].inv = job[h].inv /\ job'[h].copy = job[h].copy
                 /\ job'[h].role = job[h].role /\ job'[h].admin = job[h].admin
                 /\ CanSave(job[h].inv, job[h].copy)
<1>1. job[h].inv \in Id /\ job[h].copy \in Invite /\ job[h] \in Job
    BY DEF Accepted, JobInv, JobHeld, TypeOK
<1>2. \/ job' = [job EXCEPT ![h] = Idle]
      \/ /\ job' = [job EXCEPT ![h] = [job[h] EXCEPT !.at = "join",
                                          !.on = job[h].copy.email]]
         /\ CanSave(job[h].inv, job[h].copy)
    BY DEF Accepted, Goto
<1>3. CASE job' = [job EXCEPT ![h] = Idle]
    BY <1>1, <1>3 DEF TypeOK
<1>4. CASE job' # [job EXCEPT ![h] = Idle]
    <2>1. /\ job' = [job EXCEPT ![h] = [job[h] EXCEPT !.at = "join",
                                           !.on = job[h].copy.email]]
          /\ CanSave(job[h].inv, job[h].copy)
        BY <1>2, <1>4
    <2>2. \A g \in Handler \ {h} : job'[g] = job[g]
        BY <2>1 DEF TypeOK
    <2>3. job'[h] = [job[h] EXCEPT !.at = "join", !.on = job[h].copy.email]
        BY <2>1 DEF TypeOK
    <2>4. /\ job'[h].at = "join" /\ job'[h].on = job[h].copy.email
          /\ job'[h].inv = job[h].inv /\ job'[h].copy = job[h].copy
          /\ job'[h].role = job[h].role /\ job'[h].admin = job[h].admin
        BY <1>1, <2>3 DEF Job
    <2> QED
        BY <1>1, <2>1, <2>2, <2>4
<1> QED
    BY <1>3, <1>4

\* A sign-up leaves the handler alone, or goes on to register the new account
\* with an invitation that nobody has used.
LEMMA SignUpMove ==
    ASSUME TypeOK, JobInv, NEW h \in Handler, NEW u \in User, SignUp(h, u)
    PROVE  /\ \A g \in Handler \ {h} : job'[g] = job[g]
           /\ \/ job' = job
              \/ /\ session[u] \in Id /\ invite[session[u]] \in Invite
                 /\ ~invite[session[u]].accepted
                 /\ job'[h].at = "join" /\ job'[h].on = u /\ ~job'[h].admin
                 /\ job'[h].inv = session[u] /\ job'[h].copy = invite[session[u]]
<1>1. CASE job' = job
    BY <1>1
<1>2. CASE job' # job
    <2>1. /\ session[u] \in Id /\ invite[session[u]] # NoRow
          /\ ~invite[session[u]].accepted
          /\ job' = [job EXCEPT ![h] = [Idle EXCEPT !.at = "join", !.on = u,
                 !.inv = session[u], !.copy = invite[session[u]],
                 !.role = invite[session[u]].role]]
        BY <1>2, MembershipAssumption DEF SignUp, Goto, TypeOK, Id
    <2>2. invite[session[u]] \in Invite
        BY <2>1 DEF TypeOK
    <2> QED
        BY <2>1, <2>2 DEF TypeOK, Idle
<1> QED
    BY <1>1, <1>2

\* Every step keeps the types.
LEMMA TypeStep == IInv /\ [Next]_vars => TypeOK'
<1> SUFFICES ASSUME IInv, [Next]_vars PROVE TypeOK'
    OBVIOUS
<1> USE MembershipAssumption, NoRowAssumption, RoleSet DEF IInv, TypeOK, JobInv, JobHeld, Id, Writing
<1>1. ASSUME NEW h \in Handler, NEW u \in User, CreateOrg(h, u) PROVE TypeOK'
    <2>1. [Idle EXCEPT !.at = "join", !.on = u, !.role = "a0", !.admin = TRUE] \in Job
        BY <1>1, IdleType DEF Job
    <2>8. job' \in [Handler -> Job]
        BY <1>1, <2>1 DEF CreateOrg, Goto
    <2> QED
        BY <1>1, <2>8 DEF CreateOrg, Goto, rows, bounds, history
<1>2. ASSUME NEW h \in Handler, NEW u \in User, NEW role \in DomainRoles,
             ConfirmEmail(h, u, role)
      PROVE  TypeOK'
    <2>1. [Idle EXCEPT !.at = "join", !.on = u, !.role = role] \in Job
        BY <1>2, IdleType, MembershipAssumption DEF Job
    <2>8. job' \in [Handler -> Job]
        BY <1>2, <2>1 DEF ConfirmEmail, Asked, Goto
    <2> QED
        BY <1>2, <2>8 DEF ConfirmEmail, Asked, Goto, rows, bounds, history
<1>3. ASSUME NEW h \in Handler, NEW by \in User, NEW u \in User,
             NEW role \in Wanted, NEW active \in BOOLEAN,
             Edit(h, by, u, role, active) PROVE TypeOK'
    <2>1. [role |-> role, perm |-> role, admin |-> role \in {"a0", "a1"},
           active |-> active] \in Row
        BY DEF Row
    <2>2. [Idle EXCEPT !.at = "update", !.on = u,
             !.row = [role |-> role, perm |-> role,
                      admin |-> role \in {"a0", "a1"}, active |-> active]] \in Job
        BY <2>1, IdleType DEF Job
    <2>3. job' \in [Handler -> Job]
        BY <1>3, <2>2 DEF Edit, Goto
    <2> QED
        BY <1>3, <2>3 DEF Edit, Asked, rows, history
<1>4. ASSUME NEW h \in Handler, NEW by \in User, NEW u \in User,
             NEW role \in Wanted, NEW active \in BOOLEAN,
             Register(h, by, u, role, active) PROVE TypeOK'
    <2>1. [role |-> role, perm |-> DefaultRole, admin |-> role \in {"a0", "a1"},
           active |-> active] \in Row
        BY DEF Row, DefaultRole
    <2>2. [Idle EXCEPT !.at = "insert", !.on = u,
             !.row = [role |-> role, perm |-> DefaultRole,
                      admin |-> role \in {"a0", "a1"}, active |-> active]] \in Job
        BY <2>1, IdleType DEF Job
    <2>3. job' \in [Handler -> Job]
        BY <1>4, <2>2 DEF Register, Goto
    <2> QED
        BY <1>4, <2>3 DEF Register, Asked, rows, history
<1>5. ASSUME NEW h \in Handler, Update(h) PROVE TypeOK'
    <2>1. job[h].on \in User /\ job[h].row \in Row
        BY <1>5 DEF Update
    <2>2. member' \in [User -> Row \cup {NoRow}] /\ crossed' \subseteq User
        BY <1>5, <2>1, WriteMemberType DEF Update
    <2> QED
        BY <1>5, <2>2, IdleType DEF Update, Goto, bounds
<1>6. ASSUME NEW h \in Handler, Insert(h) PROVE TypeOK'
    <2>1. job[h].on \in User /\ job[h].row \in Row
        BY <1>6 DEF Insert
    <2>2. /\ member' \in [User -> Row \cup {NoRow}]
          /\ crossed' \subseteq User /\ enrolled' \subseteq User
        BY <1>6, <2>1, WriteMemberType DEF Insert
    <2> QED
        BY <1>6, <2>2, IdleType DEF Insert, Goto, bounds
<1>7. ASSUME NEW h \in Handler, JoinRead(h) PROVE TypeOK'
    <2>1. job[h].on \in User /\ job[h] \in Job
        BY <1>7 DEF JoinRead
    <2>2. job[h].role \in Role /\ job[h].admin \in BOOLEAN
        BY <2>1 DEF Job
    <2>3. Registered(job[h].on, job[h].role, job[h].admin) \in Row
        BY <2>1, <2>2, RegisteredRow
    <2>4. [job[h] EXCEPT !.at = "joined", !.new = member[job[h].on] = NoRow,
             !.row = Registered(job[h].on, job[h].role, job[h].admin)] \in Job
        BY <2>1, <2>3 DEF Job
    <2> QED
        BY <1>7, <2>4 DEF JoinRead, Goto, rows, bounds, history
<1>8. ASSUME NEW h \in Handler, JoinWrite(h) PROVE TypeOK'
    <2>1. job[h].on \in User /\ job[h].row \in Row /\ job[h].inv \in 0..MaxInvite
        BY <1>8 DEF JoinWrite, Job
    <2>2. job' \in [Handler -> Job]
        BY <1>8, IdleType DEF JoinWrite, Goto
    <2>3. member' \in [User -> Row \cup {NoRow}] /\ crossed' \subseteq User
        BY <1>8, <2>1, WriteMemberType DEF JoinWrite
    <2>4. /\ invite' \in [Id -> Invite \cup {NoRow}] /\ torn' \subseteq Id
          /\ joins' \in [Id -> Nat]
        <3>1. CASE UNCHANGED <<invite, torn, joins>>
            BY <3>1
        <3>2. CASE ~UNCHANGED <<invite, torn, joins>>
            <4>1. /\ job[h].inv \in Id
                  /\ WriteInvite(h, job[h].inv, [job[h].copy EXCEPT !.accepted = TRUE])
                  /\ joins' = [joins EXCEPT ![job[h].inv] = @ + 1]
                BY <1>8, <2>1, <3>2 DEF JoinWrite
            <4>2. job[h].copy \in Invite
                BY <4>1
            <4>3. [job[h].copy EXCEPT !.accepted = TRUE] \in Invite
                BY <4>2 DEF Invite
            <4> QED
                BY <4>1, <4>3, WriteInviteType, SMTT(30)
        <3> QED
            BY <3>1, <3>2
    <2>5. excuse' \subseteq {"new", "creating", "account", "rejoined"}
        BY <1>8 DEF JoinWrite
    <2> QED
        BY <1>8, <2>2, <2>3, <2>4, <2>5 DEF JoinWrite, bounds
<1>9. ASSUME NEW h \in Handler, NEW i \in Id, Resend(h, i) PROVE TypeOK'
    <2>1. invite[i] \in Invite /\ i \in 0..MaxInvite
        BY <1>9 DEF Resend
    <2>2. [Idle EXCEPT !.at = "resend", !.inv = i, !.copy = invite[i]] \in Job
        BY <2>1, IdleType DEF Job
    <2> QED
        BY <1>9, <2>2 DEF Resend, Asked, Goto, rows, history
<1>10. ASSUME NEW h \in Handler, NEW i \in Id, DeleteInvite(h, i) PROVE TypeOK'
    <2>1. invite' \in [Id -> Invite \cup {NoRow}] /\ torn' \subseteq Id
        BY <1>10, WriteInviteType DEF DeleteInvite
    <2> QED
        BY <1>10, <2>1 DEF DeleteInvite, bounds
<1>11. ASSUME NEW h \in Handler, NEW b \in User, NEW i \in Id, Accept(h, b, i) PROVE TypeOK'
    <2>1. invite[i] \in Invite /\ i \in 0..MaxInvite
        BY <1>11 DEF Accept
    <2>2. invite[i].role \in Role
        BY <2>1 DEF Invite
    <2>3. [Idle EXCEPT !.at = "accept", !.on = b, !.inv = i,
             !.copy = invite[i], !.role = invite[i].role] \in Job
        BY <2>1, <2>2, IdleType DEF Job
    <2> QED
        BY <1>11, <2>3, SMTT(30) DEF Accept, Asked, Goto, rows, history
<1>12. ASSUME NEW h \in Handler, Resent(h) PROVE TypeOK'
    <2>1. job[h].inv \in Id /\ job[h].copy \in Invite
        BY <1>12 DEF Resent
    <2>2. invite' \in [Id -> Invite \cup {NoRow}] /\ torn' \subseteq Id
        BY <1>12, <2>1, WriteInviteType DEF Resent
    <2> QED
        BY <1>12, <2>2, IdleType DEF Resent, Goto, bounds
<1>13. ASSUME NEW h \in Handler, Accepted(h) PROVE TypeOK'
    <2>1. job[h].inv \in Id /\ job[h].copy \in Invite /\ job[h].on \in User
        BY <1>13 DEF Accepted
    <2>2. job[h].copy.email \in User /\ job[h] \in Job
        BY <2>1 DEF Invite
    <2>3. [job[h] EXCEPT !.at = "join", !.on = job[h].copy.email] \in Job
        BY <2>2 DEF Job
    <2>4. invite' \in [Id -> Invite \cup {NoRow}] /\ torn' \subseteq Id
        BY <1>13, <2>1, WriteInviteType DEF Accepted
    <2>5. job' \in [Handler -> Job]
        <3>1. \/ job' = [job EXCEPT ![h] = Idle]
              \/ job' = [job EXCEPT ![h] = [job[h] EXCEPT !.at = "join",
                                              !.on = job[h].copy.email]]
            BY <1>13, Zenon DEF Accepted, Goto
        <3> QED
            BY <2>3, <3>1, IdleType
    <2>6. session' \in [User -> 0..MaxInvite]
        BY <1>13, <2>1, SMTT(30) DEF Accepted
    <2> QED
        BY <1>13, <2>4, <2>5, <2>6 DEF Accepted, bounds
<1>14. ASSUME NEW h \in Handler, NEW u \in User, SignUp(h, u) PROVE TypeOK'
    <2>1. job' \in [Handler -> Job]
        <3>1. CASE UNCHANGED job
            BY <3>1
        <3>2. CASE ~UNCHANGED job
            <4>1. session[u] \in Id /\ invite[session[u]] \in Invite
                BY <1>14, <3>2 DEF SignUp
            <4>2. invite[session[u]].role \in Role
                BY <4>1 DEF Invite
            <4>3. [Idle EXCEPT !.at = "join", !.on = u, !.inv = session[u],
                     !.copy = invite[session[u]],
                     !.role = invite[session[u]].role] \in Job
                BY <4>1, <4>2, IdleType DEF Job
            <4>4. job' = [job EXCEPT ![h] = [Idle EXCEPT !.at = "join", !.on = u,
                    !.inv = session[u], !.copy = invite[session[u]],
                    !.role = invite[session[u]].role]]
                BY <1>14, <3>2 DEF SignUp, Goto
            <4> QED
                BY <4>3, <4>4
        <3> QED
            BY <3>1, <3>2
    <2> QED
        BY <1>14, <2>1 DEF SignUp, Asked, history
<1>15. ASSUME NEW h \in Handler, Fail(h) PROVE TypeOK'
    BY <1>15, IdleType DEF Fail, Goto, rows, history
<1>16. ASSUME NEW u \in User, SwitchAccount(u) PROVE TypeOK'
    BY <1>16 DEF SwitchAccount, rows, bounds, history
<1>17. ASSUME NEW e \in User, NEW role \in Role, Send(e, role) PROVE TypeOK'
    <2>1. sent' \in Id
        BY <1>17 DEF Send
    <2>2. [email |-> e, role |-> role, accepted |-> FALSE] \in Invite
        BY DEF Invite
    <2> QED
        BY <1>17, <2>1, <2>2 DEF Send, bounds, history
<1>18. CASE UNCHANGED vars
    BY <1>18 DEF vars, rows, bounds, history
<1> HIDE DEF IInv, TypeOK, JobInv, JobHeld, Id, Writing
<1> QED
    BY <1>1, <1>2, <1>3, <1>4, <1>5, <1>6, <1>7, <1>8, <1>9, <1>10, <1>11, <1>12,
       <1>13, <1>14, <1>15, <1>16, <1>17, <1>18 DEF Next, Members, Invitations

\* Every step keeps what the handlers hold.
LEMMA JobStep == IInv /\ [Next]_vars => JobInv'
<1> SUFFICES ASSUME IInv, [Next]_vars PROVE JobInv'
    OBVIOUS
<1> USE MembershipAssumption, NoRowAssumption, RoleSet DEF IInv, TypeOK, JobInv, JobHeld, Id, Writing
<1>1. ASSUME NEW h \in Handler, NEW u \in User, CreateOrg(h, u) PROVE JobInv'
    BY <1>1 DEF CreateOrg, Goto, Idle, DefaultRole, rows, bounds, history
<1>2. ASSUME NEW h \in Handler, NEW u \in User, NEW role \in DomainRoles,
             ConfirmEmail(h, u, role)
      PROVE  JobInv'
    BY <1>2 DEF ConfirmEmail, Asked, Goto, Idle, DefaultRole, rows, bounds,
       history
<1>3. ASSUME NEW h \in Handler, NEW by \in User, NEW u \in User,
             NEW role \in Wanted, NEW active \in BOOLEAN,
             Edit(h, by, u, role, active) PROVE JobInv'
    BY <1>3 DEF Edit, Asked, Goto, Idle, DefaultRole, Choices, rows, bounds,
       history, Row
<1>4. ASSUME NEW h \in Handler, NEW by \in User, NEW u \in User,
             NEW role \in Wanted, NEW active \in BOOLEAN,
             Register(h, by, u, role, active) PROVE JobInv'
    BY <1>4 DEF Register, Asked, Goto, Idle, DefaultRole, ApiRoles, rows,
       bounds, history, Row
<1>5. ASSUME NEW h \in Handler, Update(h) PROVE JobInv'
    BY <1>5 DEF Update, WriteMember, Goto, Idle, DefaultRole, Pending, rows,
       bounds, history
<1>6. ASSUME NEW h \in Handler, Insert(h) PROVE JobInv'
    BY <1>6 DEF Insert, WriteMember, Goto, Idle, DefaultRole, Pending, rows,
       bounds, history
<1>7. ASSUME NEW h \in Handler, JoinRead(h) PROVE JobInv'
    <2>1. job[h].on \in User /\ job[h] \in Job
        BY <1>7 DEF JoinRead
    <2>2. job[h].role \in Role /\ job[h].admin \in BOOLEAN
        BY <2>1 DEF Job
    <2>3. Registered(job[h].on, job[h].role, job[h].admin) \in Row
        BY <2>1, <2>2, RegisteredRow
    <2>4. [job[h] EXCEPT !.at = "joined", !.new = member[job[h].on] = NoRow,
             !.row = Registered(job[h].on, job[h].role, job[h].admin)] \in Job
        BY <2>1, <2>3 DEF Job
    <2> QED
        BY <1>7, <2>1, <2>3 DEF JoinRead, Goto, Job
<1>8. ASSUME NEW h \in Handler, JoinWrite(h) PROVE JobInv'
    BY <1>8 DEF JoinWrite, WriteMember, WriteInvite, Goto, Idle,
       DefaultRole, Pending, rows, bounds, history
<1>9. ASSUME NEW h \in Handler, NEW i \in Id, Resend(h, i) PROVE JobInv'
    BY <1>9 DEF Resend, Asked, Goto, Idle, DefaultRole, rows, bounds,
       history
<1>10. ASSUME NEW h \in Handler, NEW i \in Id, DeleteInvite(h, i) PROVE JobInv'
    BY <1>10 DEF DeleteInvite, WriteInvite, rows, bounds, history
<1>11. ASSUME NEW h \in Handler, NEW b \in User, NEW i \in Id, Accept(h, b, i) PROVE JobInv'
    BY <1>11 DEF Accept, Asked, Goto, Idle, DefaultRole, rows, bounds,
       history
<1>12. ASSUME NEW h \in Handler, Resent(h) PROVE JobInv'
    BY <1>12 DEF Resent, WriteInvite, Goto, Idle, DefaultRole, rows, bounds,
       history
<1>13. ASSUME NEW h \in Handler, Accepted(h) PROVE JobInv'
    <2>1. /\ job[h].inv \in Id /\ job[h].copy \in Invite
          /\ \A g \in Handler \ {h} : job'[g] = job[g]
          /\ \/ job'[h] = Idle
             \/ /\ job'[h].at = "join" /\ job'[h].on = job[h].copy.email
                /\ job'[h].inv = job[h].inv /\ job'[h].copy = job[h].copy
        BY <1>13, AcceptedMove
    <2>2. job[h].copy.email \in User
        BY <2>1 DEF Invite
    <2>3. CASE job'[h] = Idle
        <3>1. job'[h].at = "idle" /\ job'[h].inv = 0 /\ ~job'[h].admin
            BY <2>3, IdleFields
        <3>2. 0 \notin Id
            BY DEF Id
        <3>3. JobHeld(h)'
            BY <3>1, <3>2 DEF JobHeld
        <3>4. ASSUME NEW g \in Handler \ {h} PROVE JobHeld(g)'
            BY <2>1, <3>4 DEF JobHeld
        <3> QED
            BY <3>3, <3>4
    <2>4. CASE job'[h] # Idle
        BY <2>1, <2>2, <2>4
    <2> QED
        BY <2>3, <2>4
<1>14. ASSUME NEW h \in Handler, NEW u \in User, SignUp(h, u) PROVE JobInv'
    <2>1. CASE job' = job
        BY <2>1
    <2>2. CASE job' # job
        <3>1. /\ \A g \in Handler \ {h} : job'[g] = job[g]
              /\ job'[h].at = "join" /\ job'[h].on = u
              /\ job'[h].copy \in Invite
            BY <1>14, <2>2, SignUpMove
        <3> QED
            BY <3>1
    <2> QED
        BY <2>1, <2>2
<1>15. ASSUME NEW h \in Handler, Fail(h) PROVE JobInv'
    BY <1>15 DEF Fail, Goto, Idle, DefaultRole, rows, bounds, history
<1>16. ASSUME NEW u \in User, SwitchAccount(u) PROVE JobInv'
    BY <1>16 DEF SwitchAccount, rows, bounds, history
<1>17. ASSUME NEW e \in User, NEW role \in Role, Send(e, role) PROVE JobInv'
    BY <1>17 DEF Send, rows, bounds, history
<1>18. CASE UNCHANGED vars
    BY <1>18 DEF vars, rows, bounds, history
<1> HIDE DEF IInv, TypeOK, JobInv, JobHeld, Id, Writing
<1> QED
    BY <1>1, <1>2, <1>3, <1>4, <1>5, <1>6, <1>7, <1>8, <1>9, <1>10, <1>11, <1>12,
       <1>13, <1>14, <1>15, <1>16, <1>17, <1>18 DEF Next, Members, Invitations

\* Every step keeps the permissions in line with the roles.
LEMMA RowStep == IInv /\ [Next]_vars => RowInv'
<1> SUFFICES ASSUME IInv, [Next]_vars PROVE RowInv'
    OBVIOUS
<1> USE MembershipAssumption, NoRowAssumption, RoleSet DEF IInv, TypeOK, JobInv, JobHeld, Id, Writing, RowInv,
       PermissionsFollowRole
<1>1. ASSUME NEW h \in Handler, NEW u \in User, CreateOrg(h, u) PROVE RowInv'
    BY <1>1 DEF CreateOrg, Goto, Idle, DefaultRole, rows, bounds, history
<1>2. ASSUME NEW h \in Handler, NEW u \in User, NEW role \in DomainRoles,
             ConfirmEmail(h, u, role)
      PROVE  RowInv'
    BY <1>2 DEF ConfirmEmail, Asked, Goto, Idle, DefaultRole, rows, bounds,
       history
<1>3. ASSUME NEW h \in Handler, NEW by \in User, NEW u \in User,
             NEW role \in Wanted, NEW active \in BOOLEAN,
             Edit(h, by, u, role, active) PROVE RowInv'
    BY <1>3 DEF Edit, Asked, Goto, Idle, DefaultRole, Choices, rows, bounds,
       history, Row
<1>4. ASSUME NEW h \in Handler, NEW by \in User, NEW u \in User,
             NEW role \in Wanted, NEW active \in BOOLEAN,
             Register(h, by, u, role, active) PROVE RowInv'
    BY <1>4 DEF Register, Asked, Goto, Idle, DefaultRole, ApiRoles, rows,
       bounds, history, Row
<1>5. ASSUME NEW h \in Handler, Update(h) PROVE RowInv'
    BY <1>5 DEF Update, WriteMember, Goto, Idle, DefaultRole, Pending, rows,
       bounds, history
<1>6. ASSUME NEW h \in Handler, Insert(h) PROVE RowInv'
    BY <1>6 DEF Insert, WriteMember, Goto, Idle, DefaultRole, Pending, rows,
       bounds, history
<1>7. ASSUME NEW h \in Handler, JoinRead(h) PROVE RowInv'
    <2>1. /\ job[h].on \in User /\ job[h].role \in Role /\ job[h].admin \in BOOLEAN
          /\ job[h] \in Job
        BY <1>7 DEF JoinRead, Job
    <2>2. LET r == Registered(job[h].on, job[h].role, job[h].admin)
          IN  r.perm = r.role
        BY <2>1, RegisteredRow
    <2> QED
        BY <1>7, <2>1, <2>2 DEF JoinRead, Goto, rows, history, Job
<1>8. ASSUME NEW h \in Handler, JoinWrite(h) PROVE RowInv'
    BY SMTT(30), <1>8 DEF JoinWrite, WriteMember, WriteInvite, Goto, Idle,
       DefaultRole, Pending, rows, bounds, history
<1>9. ASSUME NEW h \in Handler, NEW i \in Id, Resend(h, i) PROVE RowInv'
    BY <1>9 DEF Resend, Asked, Goto, Idle, DefaultRole, rows, bounds,
       history
<1>10. ASSUME NEW h \in Handler, NEW i \in Id, DeleteInvite(h, i) PROVE RowInv'
    BY <1>10 DEF DeleteInvite, WriteInvite, rows, bounds, history
<1>11. ASSUME NEW h \in Handler, NEW b \in User, NEW i \in Id, Accept(h, b, i) PROVE RowInv'
    BY <1>11 DEF Accept, Asked, Goto, Idle, DefaultRole, rows, bounds,
       history
<1>12. ASSUME NEW h \in Handler, Resent(h) PROVE RowInv'
    BY <1>12 DEF Resent, WriteInvite, Goto, Idle, DefaultRole, rows, bounds,
       history
<1>13. ASSUME NEW h \in Handler, Accepted(h) PROVE RowInv'
    <2>1. /\ \A g \in Handler \ {h} : job'[g] = job[g]
          /\ job'[h].at \in {"idle", "join"}
        BY <1>13, AcceptedMove DEF Idle
    <2> QED
        BY <1>13, <2>1, SMTT(30) DEF Accepted
<1>14. ASSUME NEW h \in Handler, NEW u \in User, SignUp(h, u) PROVE RowInv'
    BY <1>14, SignUpMove DEF SignUp, history
<1>15. ASSUME NEW h \in Handler, Fail(h) PROVE RowInv'
    BY <1>15 DEF Fail, Goto, Idle, DefaultRole, rows, bounds, history
<1>16. ASSUME NEW u \in User, SwitchAccount(u) PROVE RowInv'
    BY <1>16 DEF SwitchAccount, rows, bounds, history
<1>17. ASSUME NEW e \in User, NEW role \in Role, Send(e, role) PROVE RowInv'
    BY <1>17 DEF Send, rows, bounds, history
<1>18. CASE UNCHANGED vars
    BY <1>18 DEF vars, rows, bounds, history
<1> HIDE DEF IInv, TypeOK, JobInv, JobHeld, Id, Writing, RowInv, PermissionsFollowRole
<1> QED
    BY <1>1, <1>2, <1>3, <1>4, <1>5, <1>6, <1>7, <1>8, <1>9, <1>10, <1>11, <1>12,
       <1>13, <1>14, <1>15, <1>16, <1>17, <1>18 DEF Next, Members, Invitations

\* What a handler read stays fresh as long as no row is written.
LEMMA SnapKept ==
    ASSUME SnapInv,
           \A g \in Handler : job'[g].at = "joined" =>
             job'[g] = job[g] /\ member' = member /\ crossed' = crossed
    PROVE  SnapInv'
BY DEF SnapInv, FreshRead, Registered

\* Every step keeps what was read in line with the rows.
LEMMA SnapStep == IInv /\ [Next]_vars => SnapInv'
<1> SUFFICES ASSUME IInv, [Next]_vars PROVE SnapInv'
    OBVIOUS
<1> USE MembershipAssumption, NoRowAssumption, RoleSet DEF IInv, TypeOK, JobInv, JobHeld, Writing
<1>1. ASSUME NEW h \in Handler, NEW u \in User, CreateOrg(h, u) PROVE SnapInv'
    <2>1. \A g \in Handler : job'[g].at = "joined" =>
            job'[g] = job[g] /\ member' = member /\ crossed' = crossed
        BY <1>1, IdleType DEF CreateOrg, Goto, Idle, rows, bounds, history
    <2> QED
        BY <2>1, SnapKept
<1>2. ASSUME NEW h \in Handler, NEW u \in User, NEW role \in DomainRoles,
             ConfirmEmail(h, u, role)
      PROVE  SnapInv'
    <2>1. \A g \in Handler : job'[g].at = "joined" =>
            job'[g] = job[g] /\ member' = member /\ crossed' = crossed
        BY <1>2, IdleType DEF ConfirmEmail, Asked, Goto, Idle, rows, bounds, history
    <2> QED
        BY <2>1, SnapKept
<1>3. ASSUME NEW h \in Handler, NEW by \in User, NEW u \in User,
             NEW role \in Wanted, NEW active \in BOOLEAN,
             Edit(h, by, u, role, active) PROVE SnapInv'
    <2>1. \A g \in Handler : job'[g].at = "joined" =>
            job'[g] = job[g] /\ member' = member /\ crossed' = crossed
        BY <1>3, IdleType DEF Edit, Goto, Idle, rows, bounds, history
    <2> QED
        BY <2>1, SnapKept
<1>4. ASSUME NEW h \in Handler, NEW by \in User, NEW u \in User,
             NEW role \in Wanted, NEW active \in BOOLEAN,
             Register(h, by, u, role, active) PROVE SnapInv'
    <2>1. \A g \in Handler : job'[g].at = "joined" =>
            job'[g] = job[g] /\ member' = member /\ crossed' = crossed
        BY <1>4, IdleType DEF Register, Goto, Idle, rows, bounds, history
    <2> QED
        BY <2>1, SnapKept
<1>5. ASSUME NEW h \in Handler, Update(h) PROVE SnapInv'
    <2>1. ASSUME NEW g \in Handler, job'[g].at = "joined"
          PROVE  job'[g] = job[g] /\ (job[g].on \in crossed'
                                      \/ (member' = member /\ crossed' = crossed))
        <3>1. g # h /\ job'[g] = job[g]
            BY <1>5, <2>1, IdleType DEF Update, Goto, Idle
        <3>2. job[g].on \in Pending(h)
            BY <2>1, <3>1 DEF Pending, Others
        <3> QED
            BY <1>5, <3>1, <3>2 DEF Update, WriteMember
    <2> QED
        BY <2>1, ZenonT(60) DEF SnapInv, FreshRead, Registered
<1>6. ASSUME NEW h \in Handler, Insert(h) PROVE SnapInv'
    <2>1. ASSUME NEW g \in Handler, job'[g].at = "joined"
          PROVE  job'[g] = job[g] /\ (job[g].on \in crossed'
                                      \/ (member' = member /\ crossed' = crossed))
        <3>1. g # h /\ job'[g] = job[g]
            BY <1>6, <2>1, IdleType DEF Insert, Goto, Idle
        <3>2. job[g].on \in Pending(h)
            BY <2>1, <3>1 DEF Pending, Others
        <3> QED
            BY <1>6, <3>1, <3>2 DEF Insert, WriteMember
    <2> QED
        BY <2>1, ZenonT(60) DEF SnapInv, FreshRead, Registered
<1>7. ASSUME NEW h \in Handler, JoinRead(h) PROVE SnapInv'
    <2>1. \A g \in Handler \ {h} : job'[g] = job[g]
        BY <1>7 DEF JoinRead, Goto
    <2>2. FreshRead(h)'
        <3>1. job[h] \in Job
            BY DEF TypeOK
        <3>2. job'[h] = [job[h] EXCEPT !.at = "joined",
                            !.new = member[job[h].on] = NoRow,
                            !.row = Registered(job[h].on, job[h].role,
                                               job[h].admin)]
            BY <1>7 DEF JoinRead, Goto
        <3>3. /\ job'[h].on = job[h].on /\ job'[h].role = job[h].role
              /\ job'[h].admin = job[h].admin
              /\ job'[h].new = (member[job[h].on] = NoRow)
              /\ job'[h].row = Registered(job[h].on, job[h].role, job[h].admin)
            BY <3>1, <3>2 DEF Job
        <3>4. member' = member
            BY <1>7 DEF JoinRead, rows
        <3> QED
            BY <3>3, <3>4 DEF FreshRead, Registered
    <2>3. member' = member /\ crossed' = crossed
        BY <1>7 DEF JoinRead, rows, history
    <2>4. \A g \in Handler \ {h} : FreshRead(g) => FreshRead(g)'
        BY <2>1, <2>3 DEF FreshRead, Registered
    <2> QED
        BY <2>1, <2>2, <2>3, <2>4 DEF SnapInv
<1>8. ASSUME NEW h \in Handler, JoinWrite(h) PROVE SnapInv'
    <2>1. ASSUME NEW g \in Handler, job'[g].at = "joined"
          PROVE  job'[g] = job[g] /\ (job[g].on \in crossed'
                                      \/ (member' = member /\ crossed' = crossed))
        <3>1. g # h /\ job'[g] = job[g]
            BY <1>8, <2>1, IdleType DEF JoinWrite, Goto, Idle
        <3>2. job[g].on \in Pending(h)
            BY <2>1, <3>1 DEF Pending, Others
        <3> QED
            BY <1>8, <3>1, <3>2 DEF JoinWrite, WriteMember
    <2> QED
        BY <2>1, ZenonT(60) DEF SnapInv, FreshRead, Registered
<1>9. ASSUME NEW h \in Handler, NEW i \in Id, Resend(h, i) PROVE SnapInv'
    <2>1. \A g \in Handler : job'[g].at = "joined" =>
            job'[g] = job[g] /\ member' = member /\ crossed' = crossed
        BY <1>9, IdleType DEF Resend, Goto, Idle, rows, bounds, history
    <2> QED
        BY <2>1, SnapKept
<1>10. ASSUME NEW h \in Handler, NEW i \in Id, DeleteInvite(h, i) PROVE SnapInv'
    <2>1. \A g \in Handler : job'[g].at = "joined" =>
            job'[g] = job[g] /\ member' = member /\ crossed' = crossed
        BY <1>10, IdleType DEF DeleteInvite, rows, bounds, history
    <2> QED
        BY <2>1, SnapKept
<1>11. ASSUME NEW h \in Handler, NEW b \in User, NEW i \in Id, Accept(h, b, i) PROVE SnapInv'
    <2>1. \A g \in Handler : job'[g].at = "joined" =>
            job'[g] = job[g] /\ member' = member /\ crossed' = crossed
        BY <1>11, IdleType DEF Accept, Goto, Idle, rows, bounds, history
    <2> QED
        BY <2>1, SnapKept
<1>12. ASSUME NEW h \in Handler, Resent(h) PROVE SnapInv'
    <2>1. \A g \in Handler : job'[g].at = "joined" =>
            job'[g] = job[g] /\ member' = member /\ crossed' = crossed
        BY <1>12, IdleType DEF Resent, Goto, Idle, rows, bounds, history
    <2> QED
        BY <2>1, SnapKept
<1>13. ASSUME NEW h \in Handler, Accepted(h) PROVE SnapInv'
    <2>1. /\ \A g \in Handler \ {h} : job'[g] = job[g]
          /\ job'[h].at \in {"idle", "join"}
        BY <1>13, AcceptedMove DEF Idle
    <2>2. member' = member /\ crossed' = crossed
        BY <1>13 DEF Accepted
    <2> QED
        BY <2>1, <2>2, SnapKept
<1>14. ASSUME NEW h \in Handler, NEW u \in User, SignUp(h, u) PROVE SnapInv'
    <2>1. \A g \in Handler : job'[g].at = "joined" =>
            job'[g] = job[g] /\ member' = member /\ crossed' = crossed
        BY <1>14, SignUpMove DEF SignUp, history
    <2> QED
        BY <2>1, SnapKept
<1>15. ASSUME NEW h \in Handler, Fail(h) PROVE SnapInv'
    <2>1. \A g \in Handler : job'[g].at = "joined" =>
            job'[g] = job[g] /\ member' = member /\ crossed' = crossed
        BY <1>15, IdleType DEF Fail, Goto, Idle, rows, bounds, history
    <2> QED
        BY <2>1, SnapKept
<1>16. ASSUME NEW u \in User, SwitchAccount(u) PROVE SnapInv'
    <2>1. \A g \in Handler : job'[g].at = "joined" =>
            job'[g] = job[g] /\ member' = member /\ crossed' = crossed
        BY <1>16, IdleType DEF SwitchAccount, rows, bounds, history
    <2> QED
        BY <2>1, SnapKept
<1>17. ASSUME NEW e \in User, NEW role \in Role, Send(e, role) PROVE SnapInv'
    <2>1. \A g \in Handler : job'[g].at = "joined" =>
            job'[g] = job[g] /\ member' = member /\ crossed' = crossed
        BY <1>17, IdleType DEF Send, rows, bounds, history
    <2> QED
        BY <2>1, SnapKept
<1>18. CASE UNCHANGED vars

    <2>1. \A g \in Handler : job'[g].at = "joined" =>
            job'[g] = job[g] /\ member' = member /\ crossed' = crossed
        BY <1>18, IdleType DEF vars, rows, history
    <2> QED
        BY <2>1, SnapKept
<1> HIDE DEF IInv, TypeOK, JobInv, JobHeld, Writing
<1> QED
    BY <1>1, <1>2, <1>3, <1>4, <1>5, <1>6, <1>7, <1>8, <1>9, <1>10, <1>11, <1>12,
       <1>13, <1>14, <1>15, <1>16, <1>17, <1>18 DEF Next, Members, Invitations

\* An invitation stays used when it is not written and nobody new holds it.
LEMMA InviteKept ==
    ASSUME TypeOK, InviteInv, UNCHANGED <<sent, session, invite, torn, joins>>,
           \A g \in Handler : job'[g] = job[g] \/ job'[g].inv = 0
    PROVE  InviteInv'
<1>1. sent \in Nat
    BY MembershipAssumption DEF TypeOK
<1>2. \A i \in Id : Spent(i) => Spent(i)'
    BY MembershipAssumption DEF Spent, Id
<1> QED
    BY <1>1, <1>2 DEF InviteInv

\* Every step keeps a used invitation used.
LEMMA InviteStep == IInv /\ [Next]_vars => InviteInv'
<1> SUFFICES ASSUME IInv, [Next]_vars PROVE InviteInv'
    OBVIOUS
<1> USE MembershipAssumption, NoRowAssumption, RoleSet DEF IInv
<1>1. ASSUME NEW h \in Handler, NEW u \in User, CreateOrg(h, u) PROVE InviteInv'
    BY <1>1 DEF TypeOK, JobInv, JobHeld, Id, Writing, InviteInv, Spent,
       CreateOrg, Goto, Idle, DefaultRole, rows, bounds, history
<1>2. ASSUME NEW h \in Handler, NEW u \in User, NEW role \in DomainRoles,
             ConfirmEmail(h, u, role)
      PROVE  InviteInv'
    BY <1>2 DEF TypeOK, JobInv, JobHeld, Id, Writing, InviteInv, Spent,
       ConfirmEmail, Asked, Goto, Idle, DefaultRole, rows, bounds, history
<1>3. ASSUME NEW h \in Handler, NEW by \in User, NEW u \in User,
             NEW role \in Wanted, NEW active \in BOOLEAN,
             Edit(h, by, u, role, active) PROVE InviteInv'
    BY <1>3 DEF TypeOK, JobInv, JobHeld, Id, Writing, InviteInv, Spent,
       Edit, Asked, Goto, Idle, DefaultRole, Choices, rows, bounds, history
<1>4. ASSUME NEW h \in Handler, NEW by \in User, NEW u \in User,
             NEW role \in Wanted, NEW active \in BOOLEAN,
             Register(h, by, u, role, active) PROVE InviteInv'
    BY <1>4 DEF TypeOK, JobInv, JobHeld, Id, Writing, InviteInv, Spent,
       Register, Asked, Goto, Idle, DefaultRole, ApiRoles, rows, bounds,
       history
<1>5. ASSUME NEW h \in Handler, Update(h) PROVE InviteInv'
    BY <1>5 DEF TypeOK, JobInv, JobHeld, Id, Writing, InviteInv, Spent,
       Update, WriteMember, Goto, Idle, DefaultRole, Pending, rows, bounds,
       history
<1>6. ASSUME NEW h \in Handler, Insert(h) PROVE InviteInv'
    BY <1>6 DEF TypeOK, JobInv, JobHeld, Id, Writing, InviteInv, Spent,
       Insert, WriteMember, Goto, Idle, DefaultRole, Pending, rows, bounds,
       history
<1>7. ASSUME NEW h \in Handler, JoinRead(h) PROVE InviteInv'
    BY <1>7 DEF TypeOK, JobInv, JobHeld, Id, Writing, InviteInv, Spent,
       JoinRead, Goto, rows, bounds, history
<1>8. ASSUME NEW h \in Handler, JoinWrite(h) PROVE InviteInv'
    <2>1. /\ \A g \in Handler \ {h} : job'[g] = job[g]
          /\ job'[h].inv = 0
          /\ UNCHANGED <<sent, session>> /\ sent \in Nat
        BY <1>8, IdleFields, MembershipAssumption DEF TypeOK, JoinWrite, Goto
    <2>2. CASE UNCHANGED <<invite, torn, joins>>
        BY <2>1, <2>2, InviteKept
    <2>3. CASE ~UNCHANGED <<invite, torn, joins>>
        <3>0. job[h].inv \in Id
            BY <1>8, <2>3, MembershipAssumption DEF JoinWrite, Job, TypeOK, Id
        <3> PICK i \in Id : i = job[h].inv
            BY <3>0
        <3>1. /\ i <= sent /\ job[h].at = "joined" /\ job[h].copy \in Invite
              /\ invite' = [invite EXCEPT ![i] = [job[h].copy EXCEPT !.accepted = TRUE]]
              /\ joins' = [joins EXCEPT ![i] = @ + 1]
              /\ torn' = IF \E g \in Others(h) : job[g].inv = i THEN torn \cup {i}
                                                               ELSE torn
            BY <1>8, <2>3, MembershipAssumption
               DEF JoinWrite, WriteInvite, Job, TypeOK, JobInv, JobHeld, InviteInv, Id
        <3>2. invite'[i].accepted
            BY <3>1 DEF Invite, TypeOK
        <3>3. ASSUME i \notin torn' PROVE joins'[i] = 1 /\ Spent(i)'
            <4>1. \A g \in Handler \ {h} : job[g].inv # i
                BY <3>1, <3>3 DEF Others
            <4>2. \A g \in Handler : job'[g].inv # i
                BY <2>1, <3>1, <4>1, MembershipAssumption DEF Id
            <4>3. joins[i] = 0
                BY <3>1, <3>3 DEF InviteInv, Spent
            <4> QED
                BY <3>1, <3>2, <4>2, <4>3 DEF Spent, TypeOK
        <3>4. \A k \in Id \ torn' : joins'[k] = 0 \/ (joins'[k] = 1 /\ Spent(k)')
            <4>1. ASSUME NEW k \in Id \ torn', k # i
                  PROVE  joins'[k] = 0 \/ (joins'[k] = 1 /\ Spent(k)')
                <5>1. /\ k \notin torn /\ joins'[k] = joins[k] /\ invite'[k] = invite[k]
                    BY <3>1, <4>1 DEF TypeOK
                <5>2. Spent(k) => Spent(k)'
                    BY <2>1, <4>1, <5>1, MembershipAssumption DEF Spent, Id
                <5> QED
                    BY <4>1, <5>1, <5>2 DEF InviteInv
            <4> QED
                BY <3>3, <4>1
        <3>5. \A k \in Id : k > sent => invite'[k] = NoRow /\ joins'[k] = 0
            BY <2>1, <3>1, MembershipAssumption DEF InviteInv, Id, TypeOK
        <3>6. /\ \A g \in Handler : job'[g].inv <= sent'
              /\ \A u \in User : session'[u] <= sent'
            BY <2>1 DEF InviteInv
        <3> QED
            BY <2>1, <3>4, <3>5, <3>6 DEF InviteInv
    <2> QED
        BY <2>2, <2>3
<1>9. ASSUME NEW h \in Handler, NEW i \in Id, Resend(h, i) PROVE InviteInv'
    BY <1>9 DEF TypeOK, JobInv, JobHeld, Id, Writing, InviteInv, Spent,
       Resend, Asked, Goto, Idle, DefaultRole, rows, bounds, history
<1>10. ASSUME NEW h \in Handler, NEW i \in Id, DeleteInvite(h, i) PROVE InviteInv'
    BY <1>10 DEF TypeOK, JobInv, JobHeld, Id, Writing, InviteInv, Spent,
       DeleteInvite, WriteInvite, rows, bounds, history
<1>11. ASSUME NEW h \in Handler, NEW b \in User, NEW i \in Id, Accept(h, b, i) PROVE InviteInv'
    BY <1>11 DEF TypeOK, JobInv, JobHeld, Id, Writing, InviteInv, Spent,
       Accept, Asked, Goto, Idle, DefaultRole, rows, bounds, history
<1>12. ASSUME NEW h \in Handler, Resent(h) PROVE InviteInv'
    BY <1>12 DEF TypeOK, JobInv, JobHeld, Id, Writing, InviteInv, Spent,
       Resent, WriteInvite, Goto, Idle, DefaultRole, rows, bounds, history
<1>13. ASSUME NEW h \in Handler, Accepted(h) PROVE InviteInv'
    <2> DEFINE i == job[h].inv
    <2>1. /\ i \in Id /\ \A g \in Handler \ {h} : job'[g] = job[g]
          /\ job'[h].inv = 0 \/ job'[h].inv = i
        BY <1>13, AcceptedMove, IdleFields
    <2>2. /\ job[h].at = "accept" /\ UNCHANGED <<sent, joins>>
          /\ torn \subseteq torn'
          /\ \A k \in Id \ {i} : invite'[k] = invite[k]
          /\ \A u \in User : session'[u] = session[u] \/ session'[u] = i
        BY <1>13 DEF Accepted, WriteInvite, TypeOK
    <2>3. i <= sent /\ sent \in Nat
        BY MembershipAssumption DEF InviteInv, TypeOK
    <2>4. i \notin torn' => joins[i] = 0
        BY <2>1, <2>2 DEF InviteInv, Spent
    <2>5. \A k \in Id \ torn' : joins'[k] = 0 \/ (joins'[k] = 1 /\ Spent(k)')
        <3>1. ASSUME NEW k \in Id \ torn', k # i, joins[k] # 0
              PROVE  joins[k] = 1 /\ Spent(k)'
            BY <2>1, <2>2, <3>1, MembershipAssumption DEF InviteInv, Spent, Id
        <3> QED
            BY <2>2, <2>4, <3>1
    <2>6. \A k \in Id : k > sent => invite'[k] = NoRow /\ joins'[k] = 0
        BY <2>1, <2>2, <2>3, MembershipAssumption DEF InviteInv, Id
    <2>7. /\ \A g \in Handler : job'[g].inv <= sent'
          /\ \A u \in User : session'[u] <= sent'
        BY <2>1, <2>2, <2>3 DEF InviteInv
    <2> QED
        BY <2>2, <2>5, <2>6, <2>7 DEF InviteInv
<1>14. ASSUME NEW h \in Handler, NEW u \in User, SignUp(h, u) PROVE InviteInv'
    <2>1. UNCHANGED <<sent, joins, torn, invite>> /\ sent \in Nat
          /\ \A v \in User : session'[v] = 0 \/ session'[v] = session[v]
        BY <1>14, MembershipAssumption DEF SignUp, history, TypeOK
    <2>2. CASE job' = job
        BY <2>1, <2>2 DEF InviteInv, Spent
    <2>3. CASE job' # job
        <3> DEFINE i == session[u]
        <3>1. /\ \A g \in Handler \ {h} : job'[g] = job[g]
              /\ i \in Id /\ invite[i] \in Invite
              /\ ~invite[i].accepted
              /\ job'[h].inv = i
            BY <1>14, <2>3, SignUpMove
        <3>2. i <= sent
            BY DEF InviteInv
        <3>3. i \notin torn => joins[i] = 0
            BY <3>1, NoRowAssumption DEF InviteInv, Spent
        <3>4. ASSUME NEW k \in Id \ torn, k # i, joins[k] # 0
              PROVE  joins[k] = 1 /\ Spent(k)'
            BY <2>1, <3>1, <3>4 DEF InviteInv, Spent
        <3>5. \A k \in Id \ torn' : joins'[k] = 0 \/ (joins'[k] = 1 /\ Spent(k)')
            BY <2>1, <3>3, <3>4
        <3>6. \A g \in Handler : job'[g].inv <= sent'
            BY <2>1, <3>1, <3>2 DEF InviteInv
        <3> QED
            BY <2>1, <3>5, <3>6 DEF InviteInv
    <2> QED
        BY <2>2, <2>3
<1>15. ASSUME NEW h \in Handler, Fail(h) PROVE InviteInv'
    BY <1>15 DEF TypeOK, JobInv, JobHeld, Id, Writing, InviteInv, Spent,
       Fail, Goto, Idle, DefaultRole, rows, bounds, history
<1>16. ASSUME NEW u \in User, SwitchAccount(u) PROVE InviteInv'
    BY <1>16 DEF TypeOK, JobInv, JobHeld, Id, Writing, InviteInv, Spent,
       SwitchAccount, rows, bounds, history
<1>17. ASSUME NEW e \in User, NEW role \in Role, Send(e, role) PROVE InviteInv'
    <2>1. /\ sent' = sent + 1 /\ UNCHANGED <<joins, torn, session, job>>
          /\ sent' \in Id /\ sent \in Nat
          /\ \A k \in Id \ {sent'} : invite'[k] = invite[k]
        BY <1>17, MembershipAssumption DEF Send, history, TypeOK, Id
    <2>2. joins[sent'] = 0
        BY <2>1 DEF InviteInv
    <2>3. ASSUME NEW k \in Id \ torn, joins[k] # 0 PROVE joins[k] = 1 /\ Spent(k)'
        BY <2>1, <2>2, <2>3, ZenonT(60) DEF InviteInv, Spent
    <2>4. \A g \in Handler : job'[g].inv <= sent'
        BY <2>1 DEF InviteInv, TypeOK, Job
    <2>5. \A v \in User : session'[v] <= sent'
        BY <2>1 DEF InviteInv, TypeOK
    <2>6. \A k \in Id : k > sent' => invite'[k] = NoRow /\ joins'[k] = 0
        BY <2>1 DEF InviteInv, Id
    <2> QED
        BY <2>1, <2>3, <2>4, <2>5, <2>6 DEF InviteInv
<1>18. CASE UNCHANGED vars
    BY <1>18 DEF TypeOK, JobInv, JobHeld, Id, Writing, InviteInv, Spent, vars, rows, bounds, history
<1> HIDE DEF IInv
<1> QED
    BY <1>1, <1>2, <1>3, <1>4, <1>5, <1>6, <1>7, <1>8, <1>9, <1>10, <1>11, <1>12,
       <1>13, <1>14, <1>15, <1>16, <1>17, <1>18 DEF Next, Members, Invitations

\* Every step keeps others away from an organization that is being created.
LEMMA PhaseStep == IInv /\ [Next]_vars => PhaseInv'
<1> SUFFICES ASSUME IInv, [Next]_vars PROVE PhaseInv'
    OBVIOUS
<1> USE MembershipAssumption, NoRowAssumption, RoleSet DEF IInv, TypeOK, JobInv, JobHeld, Id, Writing, PhaseInv, Known
<1>1. ASSUME NEW h \in Handler, NEW u \in User, CreateOrg(h, u) PROVE PhaseInv'
    BY <1>1 DEF CreateOrg, Goto, Idle, DefaultRole, rows, bounds, history
<1>2. ASSUME NEW h \in Handler, NEW u \in User, NEW role \in DomainRoles,
             ConfirmEmail(h, u, role)
      PROVE  PhaseInv'
    BY <1>2 DEF ConfirmEmail, Asked, Goto, Idle, DefaultRole, rows, bounds,
       history
<1>3. ASSUME NEW h \in Handler, NEW by \in User, NEW u \in User,
             NEW role \in Wanted, NEW active \in BOOLEAN,
             Edit(h, by, u, role, active) PROVE PhaseInv'
    BY <1>3 DEF Edit, Asked, Goto, Idle, DefaultRole, Choices, rows, bounds,
       history
<1>4. ASSUME NEW h \in Handler, NEW by \in User, NEW u \in User,
             NEW role \in Wanted, NEW active \in BOOLEAN,
             Register(h, by, u, role, active) PROVE PhaseInv'
    BY <1>4 DEF Register, Asked, Goto, Idle, DefaultRole, ApiRoles, rows,
       bounds, history
<1>5. ASSUME NEW h \in Handler, Update(h) PROVE PhaseInv'
    BY <1>5, ZenonT(60) DEF Update, WriteMember, Goto, Idle, DefaultRole, Pending, rows,
       bounds, history
<1>6. ASSUME NEW h \in Handler, Insert(h) PROVE PhaseInv'
    BY <1>6 DEF Insert, WriteMember, Goto, Idle, DefaultRole, Pending, rows,
       bounds, history
<1>7. ASSUME NEW h \in Handler, JoinRead(h) PROVE PhaseInv'
    BY <1>7 DEF JoinRead, Goto, rows, bounds, history, Job, Registered
<1>8. ASSUME NEW h \in Handler, JoinWrite(h) PROVE PhaseInv'
    BY <1>8 DEF JoinWrite, WriteMember, WriteInvite, Goto, Idle,
       DefaultRole, Pending, rows, bounds, history
<1>9. ASSUME NEW h \in Handler, NEW i \in Id, Resend(h, i) PROVE PhaseInv'
    <2>1. Known /\ excuse' = excuse
        <3>1. i <= sent /\ sent # 0
            BY <1>9 DEF Resend, InviteInv
        <3> QED
            BY <1>9, <3>1 DEF Resend, history
    <2> QED
        BY <1>9, <2>1 DEF Resend, Asked, Goto, Idle, rows
<1>10. ASSUME NEW h \in Handler, NEW i \in Id, DeleteInvite(h, i) PROVE PhaseInv'
    BY <1>10 DEF DeleteInvite, WriteInvite, rows, bounds, history
<1>11. ASSUME NEW h \in Handler, NEW b \in User, NEW i \in Id, Accept(h, b, i) PROVE PhaseInv'
    <2>1. Known /\ excuse' = excuse
        <3>1. i <= sent /\ sent # 0
            BY <1>11 DEF Accept, InviteInv
        <3> QED
            BY <1>11, <3>1 DEF Accept, history
    <2> QED
        BY <1>11, <2>1 DEF Accept, Asked, Goto, Idle, rows
<1>12. ASSUME NEW h \in Handler, Resent(h) PROVE PhaseInv'
    BY <1>12 DEF Resent, WriteInvite, Goto, Idle, DefaultRole, rows, bounds,
       history
<1>13. ASSUME NEW h \in Handler, Accepted(h) PROVE PhaseInv'
    <2>1. /\ \A g \in Handler \ {h} : job'[g] = job[g]
          /\ job'[h] = Idle \/ job'[h].admin = job[h].admin
        BY <1>13, AcceptedMove
    <2>2. job[h].at = "accept" /\ UNCHANGED <<account, member, sent, excuse>>
        BY <1>13 DEF Accepted
    <2>3. ~job[h].admin /\ ~job'[h].admin
        BY <2>1, <2>2, IdleFields
    <2> QED
        BY <2>1, <2>2, <2>3
<1>14. ASSUME NEW h \in Handler, NEW u \in User, SignUp(h, u) PROVE PhaseInv'
    <2>1. UNCHANGED <<member, sent, excuse>>
          /\ \A v \in User : account[v] = "on" => account'[v] = "on"
        BY <1>14 DEF SignUp, history
    <2>2. CASE job' = job
        BY <2>1, <2>2
    <2>3. CASE job' # job
        <3>1. /\ \A g \in Handler \ {h} : job'[g] = job[g]
              /\ session[u] \in Id /\ ~job'[h].admin
            BY <1>14, <2>3, SignUpMove
        <3>2. Known
            BY <3>1 DEF InviteInv
        <3> QED
            BY <2>1, <3>1, <3>2
    <2> QED
        BY <2>2, <2>3
<1>15. ASSUME NEW h \in Handler, Fail(h) PROVE PhaseInv'
    BY <1>15 DEF Fail, Goto, Idle, DefaultRole, rows, bounds, history
<1>16. ASSUME NEW u \in User, SwitchAccount(u) PROVE PhaseInv'
    BY <1>16 DEF SwitchAccount, rows, bounds, history, IsOwner, IsMember
<1>17. ASSUME NEW e \in User, NEW role \in Role, Send(e, role) PROVE PhaseInv'
    BY <1>17 DEF Send, rows, bounds, history
<1>18. CASE UNCHANGED vars
    BY <1>18 DEF vars, rows, bounds, history
<1> HIDE DEF IInv, TypeOK, JobInv, JobHeld, Id, Writing, PhaseInv, Known
<1> QED
    BY <1>1, <1>2, <1>3, <1>4, <1>5, <1>6, <1>7, <1>8, <1>9, <1>10, <1>11, <1>12,
       <1>13, <1>14, <1>15, <1>16, <1>17, <1>18 DEF Next, Members, Invitations

\* Where no owner is lost and no edit is about to be saved that was not, an owner
\* remains.
LEMMA OwnerKept ==
    ASSUME OwnerInv, excuse' = {} => excuse = {}, crossed' = {} => crossed = {},
           \A v \in User : IsOwner(v) => IsOwner(v)',
           \A g \in Handler : job'[g].at = "update" => job'[g] = job[g]
    PROVE  OwnerInv'
<1> SUFFICES ASSUME excuse' = {}, crossed' = {} PROVE OwnerInv'
    BY DEF OwnerInv
<1>1. \E v \in User : IsOwner(v)'
    BY DEF OwnerInv
<1>2. ASSUME NEW g \in Handler, job'[g].at = "update"
      PROVE  /\ job'[g].row.role = "a0" => job'[g].row.active
             /\ \/ job'[g].row.role = "a0"
                \/ \E v \in User \ {job'[g].on} : IsOwner(v)'
    <2>1. job'[g] = job[g] /\ job[g].at = "update"
        BY <1>2
    <2>2. /\ job[g].row.role = "a0" => job[g].row.active
          /\ \/ job[g].row.role = "a0"
             \/ \E v \in User \ {job[g].on} : IsOwner(v)
        BY <2>1 DEF OwnerInv
    <2> QED
        BY <2>1, <2>2
<1> QED
    BY <1>1, <1>2 DEF OwnerInv

\* Every step leaves an owner, unless something excuses it.
LEMMA OwnerStep == IInv /\ [Next]_vars => OwnerInv'
<1> SUFFICES ASSUME IInv, [Next]_vars PROVE OwnerInv'
    OBVIOUS
<1> USE MembershipAssumption, NoRowAssumption, RoleSet DEF IInv
<1>1. ASSUME NEW h \in Handler, NEW u \in User, CreateOrg(h, u) PROVE OwnerInv'
    BY <1>1 DEF CreateOrg, OwnerInv
<1>2. ASSUME NEW h \in Handler, NEW u \in User, NEW role \in DomainRoles,
             ConfirmEmail(h, u, role)
      PROVE  OwnerInv'
    <2>1. /\ excuse' = excuse /\ crossed \subseteq crossed'
          /\ \A v \in User : IsOwner(v) => IsOwner(v)'
        BY <1>2 DEF ConfirmEmail, rows, history, IsOwner, IsMember
    <2>2. \A g \in Handler : job'[g].at = "update" => job'[g] = job[g]
        BY <1>2, IdleType DEF TypeOK, ConfirmEmail, Goto, Idle
    <2> QED
        BY <2>1, <2>2, OwnerKept
<1>3. ASSUME NEW h \in Handler, NEW by \in User, NEW u \in User,
             NEW role \in Wanted, NEW active \in BOOLEAN,
             Edit(h, by, u, role, active) PROVE OwnerInv'
    <2> SUFFICES ASSUME excuse' = {}, crossed' = {} PROVE OwnerInv'
        BY DEF OwnerInv
    <2>1. /\ excuse = {} /\ crossed = {} /\ UNCHANGED <<account, member>>
          /\ Clean(u, role, active)
        BY <1>3 DEF Edit, rows, history
    <2>2. PICK w \in User : IsOwner(w)
        BY <2>1 DEF OwnerInv
    <2>3. \A v \in User : IsOwner(v)' <=> IsOwner(v)
        BY <2>1 DEF IsOwner, IsMember
    <2>4. /\ role = "a0" => active
          /\ role = "a0" \/ \E v \in User \ {u} : IsOwner(v)
        BY <2>1, <2>2 DEF Clean, OwnerCount
    <2>5. /\ \A g \in Handler \ {h} : job'[g] = job[g]
          /\ job'[h].on = u /\ job'[h].row.role = role /\ job'[h].row.active = active
        BY <1>3 DEF Edit, Goto, Idle, TypeOK
    <2> QED
        BY <2>1, <2>2, <2>3, <2>4, <2>5 DEF OwnerInv
<1>4. ASSUME NEW h \in Handler, NEW by \in User, NEW u \in User,
             NEW role \in Wanted, NEW active \in BOOLEAN,
             Register(h, by, u, role, active) PROVE OwnerInv'
    <2>1. /\ excuse' = excuse /\ crossed \subseteq crossed'
          /\ \A v \in User : IsOwner(v) => IsOwner(v)'
        BY <1>4 DEF Register, rows, history, IsOwner, IsMember
    <2>2. \A g \in Handler : job'[g].at = "update" => job'[g] = job[g]
        BY <1>4, IdleType DEF TypeOK, Register, Goto, Idle
    <2> QED
        BY <2>1, <2>2, OwnerKept
<1>5. ASSUME NEW h \in Handler, Update(h) PROVE OwnerInv'
    <2> SUFFICES ASSUME excuse' = {}, crossed' = {} PROVE OwnerInv'
        BY DEF OwnerInv
    <2>1. /\ excuse = {} /\ crossed = {} /\ Pending(h) = {} /\ job[h].at = "update"
          /\ member' = [member EXCEPT ![job[h].on] = job[h].row]
          /\ account' = account
        BY <1>5 DEF Update, WriteMember
    <2>2. job'[h].at = "idle" /\ \A g \in Handler \ {h} : job'[g] = job[g]
        BY <1>5, IdleFields DEF Update, Goto, TypeOK
    <2>3. \A g \in Handler : job'[g].at # "update"
        BY <2>1, <2>2 DEF Pending, Others
    <2>4. job[h].on \in User /\ job[h].row \in Row /\ job[h].row # NoRow
        BY <2>1, NoRowAssumption DEF JobInv, JobHeld, Writing
    <2>5. \A v \in User \ {job[h].on} : IsOwner(v)' <=> IsOwner(v)
        BY <2>1, <2>4 DEF IsOwner, IsMember, TypeOK
    <2>6. CASE job[h].row.role = "a0"
        <3>1. job[h].row.active
            BY <2>1, <2>6 DEF OwnerInv
        <3>2. IsOwner(job[h].on) =>
                account'[job[h].on] = "on" /\ member'[job[h].on] = job[h].row
            BY <2>1, <2>4 DEF IsOwner, IsMember, TypeOK
        <3>3. PICK w \in User : IsOwner(w)
            BY <2>1 DEF OwnerInv
        <3>4. CASE w # job[h].on
            BY <2>3, <2>5, <3>3, <3>4 DEF OwnerInv
        <3>5. CASE w = job[h].on
            <4>1. account'[w] = "on" /\ member'[w] = job[h].row
                BY <3>2, <3>3, <3>5
            <4>2. IsOwner(w)'
                BY <2>4, <2>6, <3>1, <4>1 DEF IsOwner, IsMember
            <4> QED
                BY <2>3, <4>2 DEF OwnerInv
        <3> QED
            BY <3>4, <3>5
    <2>7. CASE job[h].row.role # "a0"
        <3>1. PICK v \in User \ {job[h].on} : IsOwner(v)
            BY <2>1, <2>7 DEF OwnerInv
        <3> QED
            BY <2>3, <2>5, <3>1 DEF OwnerInv
    <2> QED
        BY <2>6, <2>7
<1>6. ASSUME NEW h \in Handler, Insert(h) PROVE OwnerInv'
    <2>1. /\ excuse' = excuse /\ crossed \subseteq crossed'
          /\ \A v \in User : IsOwner(v) => IsOwner(v)'
        BY <1>6 DEF Insert, WriteMember, TypeOK, IsOwner, IsMember
    <2>2. \A g \in Handler : job'[g].at = "update" => job'[g] = job[g]
        BY <1>6 DEF TypeOK, Insert, Goto, Idle
    <2> QED
        BY <2>1, <2>2, OwnerKept
<1>7. ASSUME NEW h \in Handler, JoinRead(h) PROVE OwnerInv'
    <2>1. /\ excuse' = excuse /\ crossed \subseteq crossed'
          /\ \A v \in User : IsOwner(v) => IsOwner(v)'
        BY <1>7 DEF JoinRead, rows, history, IsOwner, IsMember
    <2>2. \A g \in Handler : job'[g].at = "update" => job'[g] = job[g]
        BY <1>7 DEF TypeOK, JoinRead, Goto, Job
    <2> QED
        BY <2>1, <2>2, OwnerKept
<1>8. ASSUME NEW h \in Handler, JoinWrite(h) PROVE OwnerInv'
    <2> SUFFICES ASSUME excuse' = {}, crossed' = {} PROVE OwnerInv'
        BY DEF OwnerInv
    <2>1. /\ job[h].at = "joined" /\ job[h].on \in User /\ account' = account
          /\ job'[h].at = "idle" /\ \A g \in Handler \ {h} : job'[g] = job[g]
        BY <1>8, IdleFields DEF JoinWrite, Goto, TypeOK, JobInv, JobHeld, Writing
    <2>2. CASE Refused(h)
        <3>0. UNCHANGED <<member, crossed, excuse>>
            BY <1>8, <2>2 DEF JoinWrite
        <3>1. \A v \in User : IsOwner(v) => IsOwner(v)'
            BY <2>1, <3>0 DEF IsOwner, IsMember
        <3>2. \A g \in Handler : job'[g].at = "update" => job'[g] = job[g]
            BY <2>1
        <3> QED
            BY <3>0, <3>1, <3>2, OwnerKept
    <2>3. CASE ~Refused(h)
        <3> PICK u \in User : u = job[h].on
            BY <2>1
        <3>1. /\ crossed = {} /\ Pending(h) = {}
              /\ member' = [member EXCEPT ![u] = job[h].row]
            BY <1>8, <2>3 DEF JoinWrite, WriteMember
        <3>2. \A g \in Handler : job'[g].at # "update"
            BY <2>1, <3>1 DEF Pending, Others
        <3>3. member'[u] = Registered(u, job[h].role, job[h].admin)
            BY <2>1, <3>1 DEF SnapInv, FreshRead, TypeOK
        <3>4. /\ job[h].role \in Role /\ job[h].admin \in BOOLEAN
              /\ member'[u] \in Row /\ member'[u] # NoRow
            BY <3>3, RegisteredRow, NoRowAssumption DEF TypeOK, Job
        <3>5. CASE job[h].admin
            <4>1. ~Known /\ job[h].role = "a0" /\ member[u] = NoRow
                BY <3>5 DEF PhaseInv, Known
            <4>2. excuse' = excuse \ {"creating"}
                BY <1>8, <3>5, <2>3, <3>4 DEF JoinWrite
            <4>3. account[u] = "on"
                BY <3>5, <4>2 DEF PhaseInv
            <4>4. IsOwner(u)'
                BY <2>1, <3>3, <3>4, <4>1, <4>3 DEF Registered, IsOwner, IsMember
            <4> QED
                BY <3>2, <4>4 DEF OwnerInv
        <3>6. CASE ~job[h].admin
            <4>1. excuse = {} /\ (IsOwner(u) => job[h].role = "a0")
                BY <1>8, <2>3, <3>6 DEF JoinWrite
            <4>2. PICK w \in User : IsOwner(w)
                BY <3>1, <4>1 DEF OwnerInv
            <4>3. CASE w # u
                <5>1. IsOwner(w)'
                    BY <2>1, <3>1, <4>2, <4>3 DEF IsOwner, IsMember, TypeOK
                <5> QED
                    BY <3>2, <5>1 DEF OwnerInv
            <4>4. CASE w = u
                <5>1. member[u] \in Row /\ member[u].active /\ account[u] = "on"
                    BY <4>2, <4>4 DEF IsOwner, IsMember, TypeOK
                <5>2. member'[u].role = "a0" /\ member'[u].active
                    BY <3>3, <4>1, <4>2, <4>4, <5>1, NoRowAssumption
                       DEF Registered, Row
                <5>3. IsOwner(u)'
                    BY <2>1, <3>4, <5>1, <5>2 DEF IsOwner, IsMember
                <5> QED
                    BY <3>2, <5>3 DEF OwnerInv
            <4> QED
                BY <4>3, <4>4
        <3> QED
            BY <3>5, <3>6
    <2> QED
        BY <1>8, <2>2, <2>3 DEF JoinWrite
<1>9. ASSUME NEW h \in Handler, NEW i \in Id, Resend(h, i) PROVE OwnerInv'
    <2>1. /\ excuse' = excuse /\ crossed \subseteq crossed'
          /\ \A v \in User : IsOwner(v) => IsOwner(v)'
        BY <1>9 DEF Resend, rows, history, IsOwner, IsMember
    <2>2. \A g \in Handler : job'[g].at = "update" => job'[g] = job[g]
        BY <1>9 DEF TypeOK, Resend, Goto, Idle
    <2> QED
        BY <2>1, <2>2, OwnerKept
<1>10. ASSUME NEW h \in Handler, NEW i \in Id, DeleteInvite(h, i) PROVE OwnerInv'
    <2>1. /\ excuse' = excuse /\ crossed \subseteq crossed'
          /\ \A v \in User : IsOwner(v) => IsOwner(v)'
        BY <1>10 DEF DeleteInvite, IsOwner, IsMember
    <2>2. \A g \in Handler : job'[g].at = "update" => job'[g] = job[g]
        BY <1>10 DEF DeleteInvite
    <2> QED
        BY <2>1, <2>2, OwnerKept
<1>11. ASSUME NEW h \in Handler, NEW b \in User, NEW i \in Id, Accept(h, b, i) PROVE OwnerInv'
    <2>1. /\ excuse' = excuse /\ crossed \subseteq crossed'
          /\ \A v \in User : IsOwner(v) => IsOwner(v)'
        BY <1>11 DEF Accept, rows, history, IsOwner, IsMember
    <2>2. \A g \in Handler : job'[g].at = "update" => job'[g] = job[g]
        BY <1>11 DEF TypeOK, Accept, Goto, Idle
    <2> QED
        BY <2>1, <2>2, OwnerKept
<1>12. ASSUME NEW h \in Handler, Resent(h) PROVE OwnerInv'
    <2>1. /\ excuse' = excuse /\ crossed \subseteq crossed'
          /\ \A v \in User : IsOwner(v) => IsOwner(v)'
        BY <1>12 DEF Resent, IsOwner, IsMember
    <2>2. \A g \in Handler : job'[g].at = "update" => job'[g] = job[g]
        BY <1>12 DEF TypeOK, Resent, Goto, Idle
    <2> QED
        BY <2>1, <2>2, OwnerKept
<1>13. ASSUME NEW h \in Handler, Accepted(h) PROVE OwnerInv'
    <2>1. /\ excuse' = excuse /\ crossed \subseteq crossed'
          /\ \A v \in User : IsOwner(v) => IsOwner(v)'
        BY <1>13 DEF Accepted, IsOwner, IsMember
    <2>2. \A g \in Handler : job'[g].at = "update" => job'[g] = job[g]
        BY <1>13, AcceptedMove, IdleFields
    <2> QED
        BY <2>1, <2>2, OwnerKept
<1>14. ASSUME NEW h \in Handler, NEW u \in User, SignUp(h, u) PROVE OwnerInv'
    <2>1. /\ excuse' = excuse /\ crossed \subseteq crossed'
          /\ \A v \in User : IsOwner(v) => IsOwner(v)'
        BY <1>14 DEF SignUp, history, TypeOK, IsOwner, IsMember
    <2>2. \A g \in Handler : job'[g].at = "update" => job'[g] = job[g]
        BY <1>14, SignUpMove
    <2> QED
        BY <2>1, <2>2, OwnerKept
<1>15. ASSUME NEW h \in Handler, Fail(h) PROVE OwnerInv'
    <2>1. /\ excuse' = excuse /\ crossed \subseteq crossed'
          /\ \A v \in User : IsOwner(v) => IsOwner(v)'
        BY <1>15 DEF Fail, rows, history, IsOwner, IsMember
    <2>2. \A g \in Handler : job'[g].at = "update" => job'[g] = job[g]
        BY <1>15 DEF TypeOK, Fail, Goto, Idle
    <2> QED
        BY <2>1, <2>2, OwnerKept
<1>16. ASSUME NEW u \in User, SwitchAccount(u) PROVE OwnerInv'
    <2> SUFFICES ASSUME excuse' = {}, crossed' = {} PROVE OwnerInv'
        BY DEF OwnerInv
    <2>1. excuse = {} /\ crossed = {} /\ ~IsOwner(u) /\ job' = job
        BY <1>16 DEF SwitchAccount
    <2>2. \A v \in User : IsOwner(v) => IsOwner(v)'
        BY <1>16, <2>1 DEF SwitchAccount, IsOwner, IsMember, TypeOK
    <2> QED
        BY <2>1, <2>2, OwnerKept
<1>17. ASSUME NEW e \in User, NEW role \in Role, Send(e, role) PROVE OwnerInv'
    <2>1. /\ excuse' = excuse /\ crossed \subseteq crossed'
          /\ \A v \in User : IsOwner(v) => IsOwner(v)'
        BY <1>17 DEF Send, history, IsOwner, IsMember
    <2>2. \A g \in Handler : job'[g].at = "update" => job'[g] = job[g]
        BY <1>17 DEF Send
    <2> QED
        BY <2>1, <2>2, OwnerKept
<1>18. CASE UNCHANGED vars

    <2>1. /\ excuse' = excuse /\ crossed \subseteq crossed'
          /\ \A v \in User : IsOwner(v) => IsOwner(v)'
        BY <1>18 DEF vars, rows, history, IsOwner, IsMember
    <2>2. \A g \in Handler : job'[g].at = "update" => job'[g] = job[g]
        BY <1>18 DEF vars
    <2> QED
        BY <2>1, <2>2, OwnerKept
<1> HIDE DEF IInv
<1> QED
    BY <1>1, <1>2, <1>3, <1>4, <1>5, <1>6, <1>7, <1>8, <1>9, <1>10, <1>11, <1>12,
       <1>13, <1>14, <1>15, <1>16, <1>17, <1>18 DEF Next, Members, Invitations

LEMMA StepIInv == IInv /\ [Next]_vars => IInv'
BY TypeStep, JobStep, RowStep, SnapStep, InviteStep, PhaseStep, OwnerStep DEF IInv

LEMMA Invariance == Spec => []IInv
BY InitIInv, StepIInv, PTL DEF Spec

\* Rows, invitations and the work of the handlers keep to their types, for any
\* people and handlers.
THEOREM TypeCorrect == Spec => []TypeOK
<1>1. IInv => TypeOK
    BY DEF IInv
<1> QED
    BY Invariance, <1>1, PTL

\* An organization keeps an owner, with the exceptions that excuse and crossed
\* name.
THEOREM OwnerAlways == Spec => []OwnerRemains
<1>1. IInv => OwnerRemains
    BY DEF IInv, OwnerInv, OwnerRemains, OwnerCount
<1> QED
    BY Invariance, <1>1, PTL

\* One person joins with one invitation.
THEOREM OneJoin == Spec => []InvitationUsedOnce
<1>1. IInv => InvitationUsedOnce
    BY DEF IInv, InviteInv, InvitationUsedOnce
<1> QED
    BY Invariance, <1>1, PTL

\* Permissions are those of the role that is shown.
THEOREM RoleShown == Spec => []PermissionsFollowRole
<1>1. IInv => PermissionsFollowRole
    BY DEF IInv, RowInv
<1> QED
    BY Invariance, <1>1, PTL

\* Three steps write membership rows.
LEMMA MemberWrites ==
    ASSUME Next
    PROVE  \/ \E h \in Handler : Update(h) \/ Insert(h) \/ JoinWrite(h)
           \/ member' = member
<1>1. CASE \E u \in User : SwitchAccount(u)
    BY <1>1 DEF SwitchAccount
<1>2. CASE \E e \in User, role \in Role : Send(e, role)
    BY <1>2 DEF Send
<1>3. ASSUME NEW h \in Handler, Members(h)
      PROVE  Update(h) \/ Insert(h) \/ JoinWrite(h) \/ member' = member
    BY <1>3, ZenonT(60) DEF Members, CreateOrg, ConfirmEmail, Edit, Register, JoinRead, rows
<1>4. ASSUME NEW h \in Handler, Invitations(h) PROVE member' = member
    BY <1>4 DEF Invitations, Resend, DeleteInvite, Accept, Resent, Accepted, SignUp,
       rows
<1>5. ASSUME NEW h \in Handler, Fail(h) PROVE member' = member
    BY <1>5 DEF Fail, rows
<1> QED
    BY <1>1, <1>2, <1>3, <1>4, <1>5 DEF Next

\* Only an edit brings a disabled member back.
THEOREM OnlyEditsEnable == Spec => DisabledStaysOut
<1>1. IInv /\ [Next]_vars =>
        [\A u \in User \ crossed' :
           (member[u] # NoRow /\ ~member[u].active /\ member'[u].active)
           => \E h \in Handler : job[h].at = "update" /\ job[h].on = u]_vars
    <2> SUFFICES ASSUME IInv, Next, NEW u \in User \ crossed',
                        member[u] # NoRow, ~member[u].active, member'[u].active
                 PROVE  \E h \in Handler : job[h].at = "update" /\ job[h].on = u
        OBVIOUS
    <2> USE DEF IInv, TypeOK
    <2>1. ASSUME NEW h \in Handler, Update(h)
          PROVE  job[h].at = "update" /\ job[h].on = u
        BY <2>1 DEF Update, WriteMember
    <2>2. ASSUME NEW h \in Handler, Insert(h) PROVE FALSE
        BY <2>2 DEF Insert, WriteMember
    <2>3. ASSUME NEW h \in Handler, JoinWrite(h) PROVE FALSE
        <3>1. /\ job[h].at = "joined" /\ job[h].on = u
              /\ member'[u] = job[h].row /\ u \notin crossed
            BY <2>3 DEF JoinWrite, WriteMember
        <3>2. job[h].row = Registered(u, job[h].role, job[h].admin)
            BY <3>1 DEF SnapInv, FreshRead
        <3>3. member[u] \in Row
            OBVIOUS
        <3> QED
            BY <3>1, <3>2, <3>3 DEF Registered, Row
    <2>4. CASE member' = member
        BY <2>4
    <2>5. \/ \E h \in Handler : Update(h) \/ Insert(h) \/ JoinWrite(h)
          \/ member' = member
        BY MemberWrites
    <2> QED
        BY <2>1, <2>2, <2>3, <2>4, <2>5
<1> QED
    BY Invariance, <1>1, PTL DEF Spec, DisabledStaysOut
=============================================================================
