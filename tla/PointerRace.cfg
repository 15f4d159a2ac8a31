SPECIFICATION Spec
CONSTANTS
    Pointers = {p1}
    Tasks = {t1, t2, t3}
    Uploads = {u1}
    MaxCounter = 2
    TTL = 1
    Rivals = TRUE
    Rival = Rival
    None = None
SYMMETRY Symmetry
INVARIANTS
    TypeOK
    OneWriteInFlight
    NotOvertaken
    LiveIsKept
    StoredHasLanded
PROPERTIES
    PaidOnce
    SlotSpec
