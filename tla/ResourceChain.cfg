SPECIFICATION Spec
CONSTANTS
    shop = shop
    x = x
    y = y
    d = d
    None = None
    Names = {shop}
    Values = {x, y, d}
    RealmSpecs <- OneFieldOrTwo
    AppSpecs <- ScriptedOrNot
    FirstRealmSpecs <- OneField
    FirstAppSpecs <- Scripted
    RealmDefault <- Fresh
    AppDefault <- FreshApp
    Ids = {a1, a2}
    InstanceStates = {"ok", "InstanceNotReady"}
    Failable = {"GetRealm", "PatchRealm", "RealmStatusPatch", "GetProject", "CreateProject", "ProjectStatusPatch", "ListApps", "GetApp", "PatchApp", "CreateApp", "AppStatusPatch"}
    MaxLag = 1
    Budget <- ChainBudget
INVARIANT TypeOK
PROPERTY ImplementsNamedResource
PROPERTY EventuallySynced
