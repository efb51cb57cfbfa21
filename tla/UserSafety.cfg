SPECIFICATION Spec
CONSTANTS
    k1 = k1
    k2 = k2
    k3 = k3
    p1 = p1
    alice = alice
    d1 = d1
    None = None
    Kids = {k1, k2}
    Pems = {p1}
    Usernames = {alice}
    DisplayNames = {d1}
    Ids = {u1, u2}
    Specs <- DisplaySpecs
    PageSize = 9
    OtherUsers = 0
    KidsUnique = FALSE
    Deps = {"ok", "SecretNotFound"}
    Failable = {"Get", "List", "Create", "CreateResponse", "Patch", "Associate", "AssociateResponse", "Remove", "RemoveResponse", "StatusPatch"}
    OthersKids = {k1}
    OthersDelete = TRUE
    MaxLag = 1
    Budget <- SafetyBudget
INVARIANT TypeOK
INVARIANT ClaimsOnlyOwnKeys
INVARIANT NoDuplicateUsers
PROPERTY RemovesOnlyAddedKids
PROPERTY ImplementsNamedResource
PROPERTY EventuallySettled
CHECK_DEADLOCK FALSE
