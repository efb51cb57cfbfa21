SPECIFICATION Spec
CONSTANTS
    admin = admin
    da = da
    db = db
    None = None
    RoleSpecs <- Redescribed
    FirstSpecs <- FirstDescribed
    Ids = {r1, r2}
    UserIds = {u1, u2}
    FirstUsers = {u1, "UserNotFound"}
    PageSize = 1
    OtherMembers = 1
    Deps = {"ok", "ProjectNotReady"}
    Failable = {"Get", "Patch", "List", "Create", "CreateResponse", "ListUsers", "Assign", "AssignResponse", "RoleStatusPatch", "StatusPatch"}
    MaxLag = 1
    Budget <- BindingBudget
INVARIANT TypeOK
INVARIANT NoDuplicateRoles
PROPERTY ImplementsNamedResource
PROPERTY EventuallyAssigned
