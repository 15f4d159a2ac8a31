SPECIFICATION FairSpec
CONSTANTS
    Pointers = {p1}
    Tasks = {t1, t2}
    Uploads = {u1}
    MaxCounter = 2
    TTL = 1
    Rivals = FALSE
    Rival = Rival
    None = None
INVARIANTS
    RefusedNeverLanded
PROPERTIES
    EveryRequestAnswered
    AbandonedIsSwept
