\* Three requests of two users, two changes of a user, a cache or the worker.
\* The run ends when the requests have been answered.
SPECIFICATION Spec
CONSTANTS
    q1 = q1
    q2 = q2
    q3 = q3
    u1 = u1
    u2 = u2
    changeStatus = changeStatus
    createAdmin = createAdmin
    login = login
    None = None
    Requests <- MCRequests
    Users <- MCUsers
    UserRoles <- MCUserRoles
    Managed <- MCManaged
    Needs <- MCNeeds
    RoleBound <- MCRoleBound
    Open <- MCOpen
    Passwords <- MCPasswords
    PasswordOf <- MCPasswordOf
    MaxChanges = 2
SYMMETRY Symmetry
INVARIANTS
    TypeOK
    TokensMatchCredentials
    OwnInput
PROPERTIES
    OnlyHoldersGranted
    PromotionsCount
    StaleGrants
CHECK_DEADLOCK FALSE
