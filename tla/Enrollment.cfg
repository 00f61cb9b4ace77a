SPECIFICATION Spec
CONSTANTS
    yubi = yubi
    feit = feit
    soft = soft
    c1 = c1
    c2 = c2
    c3 = c3
    yRoot = yRoot
    yCA = yCA
    yLeaf = yLeaf
    fRoot = fRoot
    fLeaf = fLeaf
    gLeaf = gLeaf
    sRoot = sRoot
    sCA = sCA
    sLeaf = sLeaf
    modelA = modelA
    modelB = modelB
    v1 = v1
    v2 = v2
    CLAUDECODE = CLAUDECODE
    QWEN_CODE = QWEN_CODE
    SaltLen = 2
    MaxByte = 1
    NoPRF = NoPRF
    Authenticators = {yubi, feit, soft}
    CredIDs = {c1, c2, c3}
    Holder <- MCHolder
    Vendors = {yRoot, fRoot, sRoot}
    Vendor <- MCVendor
    NoCredential = NoCredential
    Certs <- MCCerts
    Issuer <- MCIssuer
    ECDSA <- MCECDSA
    CertAAGUID <- MCAAGUID
    NoExtension = NoExtension
    Malformed = Malformed
    TooShort = TooShort
    Unparseable = Unparseable
    trustedAttestationRoots = {yRoot}
    attestationIntermediates = {yCA}
    agentEnvMarkers = {CLAUDECODE, QWEN_CODE}
    ApiVersions = {5, 6, 7}
    SaltApi = 6
    AttestationVersions = {2, 3}
    AssertionVersions = {3}
    Statements <- MCStatements
    NoRequest = NoRequest
    NoAnswer = NoAnswer
    Failed = Failed
    BadOptions = BadOptions
    NullStruct = NullStruct
    TooShortData = TooShortData
    VaultIDs = {v1, v2}
    NilRoots = NilRoots
    DefaultPool = DefaultPool
    OtherRoots = {fRoot}
INVARIANTS AutomationNeverPrompts HealthyKeyDerives OnlyTrustedHardware GenuineHardwareEnrolls NoPasskeySlotSpent
PROPERTIES ImplementsPort
