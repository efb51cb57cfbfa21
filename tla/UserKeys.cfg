SPECIFICATION Spec
CONSTANTS
    k1 = k1
    k2 = k2
    k3 = k3
    p1 = p1
    alice = alice
    d1 = d1
    None = None
    Kids = {k1, k2, k3}
    Pems = {p1}
    Usernames = {alice}
    DisplayNames = {d1}
    Ids = {u1, u2, u3}
    Specs <- KeySpecs
    PageSize = 1
    OtherUsers = 1
    KidsUnique = FALSE
    Deps = {"ok", "SecretNotFound"}
    Failable = {"Get", "List", "Create", "CreateResponse", "Patch", "Associate"}
    OthersKids = {k3}
    OthersDelete = FALSE
    MaxLag = 0
    Budget <- KeysBudget
INVARIANT NoOrphanKeys
INVARIANT ClaimedKeysExist
PROPERTY LeavesOutOfBandKeys
PROPERTY EventuallyKeysInSync
