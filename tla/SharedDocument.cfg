SPECIFICATION Spec
CONSTANTS
    admin = admin
    reader = reader
    sA = sA
    sB = sB
    Threads = {admin, reader}
    Sessions = {sA}
    SessionOf <- OneSession
    Does <- Admins
    Names = {"a", "b"}
    Values = {"v1", "v2"}
    MaxSlots = 2
    None = None
INVARIANTS TypeOK NoMemoryCorruption ReadsAreAtomic SliceMatchesContent SlotsUnique NoReadAfterLock
PROPERTIES LockReturns
