SPECIFICATION Spec
CONSTANTS
    u1 = u1
    u2 = u2
    u3 = u3
    h1 = h1
    h2 = h2
    User <- ThreeUsers
    Staff <- NoStaff
    InDomain <- Second
    Handler <- TwoHandlers
    Wanted <- OwnerAdmin
    DomainRoles <- MemberOrOwner
    FirstAccounts <- OneOrTwo
    None = None
    NoRow = NoRow
    MaxInvite = 1
    MaxRequest = 4
    MaxFault = 1
CHECK_DEADLOCK FALSE
SYMMETRY HandlerSymmetry
INVARIANTS TypeOK OwnerRemains InvitationUsedOnce PermissionsFollowRole
PROPERTIES DisabledStaysOut
