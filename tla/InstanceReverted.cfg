SPECIFICATION Spec
CONSTANTS
    None = None
    Replicas = {r1}
    Specs = {1, 2}
    PostgresSpecs = {}
    VaultSpecs = {}
    MissingPostgres = {}
    MissingVault = {}
    Edits <- AnyEdit
    Keys = {key1, key2}
    SecretValues = {v1}
    Failable = {"Deployment"}
    Lagging = {}
    OthersDelete = {}
    Budget <- RevertBudget
PROPERTY EventuallyServesSpec
