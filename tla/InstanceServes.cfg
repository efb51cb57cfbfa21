SPECIFICATION Spec
CONSTANTS
    None = None
    Replicas = {r1}
    Specs = {1, 2, 3, 4}
    PostgresSpecs = {2, 4}
    VaultSpecs = {2, 3}
    MissingPostgres = {4}
    MissingVault = {3}
    Edits <- Forward
    Keys = {key1, key2}
    SecretValues = {v1}
    Failable = {"Deployment", "StatusPatch"}
    Lagging = {"config"}
    OthersDelete = {"creds", "config", "svc", "dep"}
    Budget <- ServesBudget
PROPERTY EventuallyServesSpec
