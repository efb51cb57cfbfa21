SPECIFICATION Spec
CONSTANTS
    None = None
    Replicas = {r1}
    Specs = {1, 2}
    PostgresSpecs = {}
    VaultSpecs = {}
    MissingPostgres = {}
    MissingVault = {}
    Edits <- Forward
    Keys = {key1, key2}
    SecretValues = {v1}
    Failable = {"Credentials", "CredentialsResponse", "ConfigSecret", "PVC", "Service", "Deployment", "Token", "StatusPatch"}
    Lagging = {"dep"}
    OthersDelete = {}
    Budget <- SafetyBudget
INVARIANT TypeOK
INVARIANT PodNotOlderThanHash
PROPERTY RolloutCompletes
