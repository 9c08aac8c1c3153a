\* Three identities whose users are provisioned, made superadmins, granted, deactivated and retired
\* by two requests that run at the same time.
SPECIFICATION Spec
CONSTANTS
    Users = {u1, u2, u3}
    Identities = {i1, i2, i3}
    Requests = {r1, r2}
    Superadmin = superadmin
    RoleRow = role
    JitEnabled = TRUE
    None = None
INVARIANTS TypeOK IdentityIsOneUser LocksInOrder
PROPERTIES SuperadminKept RetiredStaysRetired
SYMMETRY Symmetry
CHECK_DEADLOCK FALSE
