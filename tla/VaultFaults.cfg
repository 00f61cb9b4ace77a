SPECIFICATION Spec
CONSTANTS
    k1 = k1
    k2 = k2
    c1 = c1
    c2 = c2
    yubico = yubico
    other = other
    d1 = d1
    d2 = d2
    Authenticators = {k1, k2}
    CredIDs = {c1, c2}
    Holder <- MCHolder
    Vendors = {yubico, other}
    Vendor <- MCVendor
    NoCredential = NoCredential
    SaltLen = 2
    MaxByte = 1
    NoPRF = NoPRF
    Text <- MCText
    JSONText <- MCJSONText
    DefaultLabel = "primary"
    DataKeys = {d1, d2}
    Values = {"v1"}
    UInt32Range = 2
    NoDoc = NoDoc
    s1 = s1
    s2 = s2
    Sessions = {s1}
    RPIDs = {"", "rp"}
    Labels = {""}
    Slots <- MCSlots
    SecretNames = {"", "name"}
    RootPools <- MCRootPools
    NilRoots = NilRoots
    NewSalts <- MCSalts
    ReadSets <- Truncating
    BundledRoots = {yubico}
    Serialized = TRUE
INVARIANTS TypeOK EveryKeyOpensEverySecret StoreReopens NeverLooksCorrupt
PROPERTIES NoAccessWithoutTouch EnrollmentIsEarned NothingVanishes
SYMMETRY DataKeySymmetry
