SPECIFICATION Spec
CONSTANTS
    None = None
    Replicas = {r1, r2}
    Specs = {1}
    PostgresSpecs = {}
    VaultSpecs = {}
    MissingPostgres = {}
    MissingVault = {}
    Edits <- Forward
    Keys = {key1, key2}
    SecretValues = {v1}
    Failable = {"Credentials", "CredentialsResponse", "ConfigSecret"}
    Lagging = {"creds"}
    OthersDelete = {}
    Budget <- TwoReplicasBudget
INVARIANT ConfigUsesStoredKey
