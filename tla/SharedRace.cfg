SPECIFICATION Spec
CONSTANTS
    admin = admin
    reader = reader
    sA = sA
    sB = sB
    Threads = {admin, reader}
    Sessions = {sA, sB}
    SessionOf <- TwoSessions
    Does <- AdminAndReader
    Names = {"a", "b"}
    Values = {"v1", "v2"}
    MaxSlots = 2
    None = None
INVARIANTS NoMemoryCorruption
