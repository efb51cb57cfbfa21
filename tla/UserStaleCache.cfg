SPECIFICATION Spec
CONSTANTS
    k1 = k1
    k2 = k2
    k3 = k3
    p1 = p1
    alice = alice
    d1 = d1
    None = None
    Kids = {k1, k2}
    Pems = {p1}
    Usernames = {alice}
    DisplayNames = {d1}
    Ids = {u1}
    Specs <- SwapSpecs
    PageSize = 9
    OtherUsers = 0
    KidsUnique = FALSE
    Deps = {"ok"}
    Failable = {}
    OthersKids = {}
    OthersDelete = FALSE
    MaxLag = 1
    Budget <- Quiet
INVARIANT NoOrphanKeys
