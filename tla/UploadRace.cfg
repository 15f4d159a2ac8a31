SPECIFICATION FairSpec
CONSTANTS
    Uploads = {u1}
    Tasks = {t1, t2, t3}
    Chunks = {c1, c2}
    TTL = 2
    CoreFails = TRUE
    None = None
INVARIANTS
    LiveIsKept
    ResumeCanDrain
PROPERTIES
    EndedIsFinal
    ResumeNeverRegresses
    FullRetryWindow
    EveryFinalizeAnswered
    AbandonedIsSwept
CHECK_DEADLOCK FALSE
