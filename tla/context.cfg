\* Requests of any account to two companies and to the bare domain, in any
\* number, over two rows and two keys.
SPECIFICATION Spec
CONSTANTS
    Companies = {acme, beta}
    Bare = Bare
    super = super
    admin = admin
    worker = worker
    Accounts <- ThreeAccounts
    Nobody = Nobody
    RoleOf <- ThreeRoles
    Staff <- SiteStaff
    Pks = {k1, k2}
    MaxKeys = 2
    MaxEntries = 2
SYMMETRY Symmetry
INVARIANTS
    TypeOK
    ManagerIsolates
    PoliciesIsolate
    EntriesAttributed
    RestartedReadsAll
PROPERTIES
    InactiveUnserved
CHECK_DEADLOCK FALSE
