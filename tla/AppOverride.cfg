SPECIFICATION Spec
CONSTANTS
    shop = shop
    x = x
    y = y
    d = d
    None = None
    Names = {shop}
    Values = {x, y, d}
    RealmSpecs <- OneField
    AppSpecs <- OverridingOrNot
    FirstRealmSpecs <- OneField
    FirstAppSpecs <- Overriding
    RealmDefault <- Fresh
    AppDefault <- FreshApp
    Ids = {a1, a2}
    InstanceStates = {"ok", "InstanceNotReady"}
    Failable = {}
    MaxLag = 0
    Budget <- OneEdit
PROPERTY EventuallyAsSpecified
