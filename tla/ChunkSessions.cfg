SPECIFICATION FairChunkSpec
CONSTANTS
    Ids = {u1, u2}
    Calls = {t1, t2}
    Contents = {c1, c2}
    ChunkTTL = 1
    NoChunk = NoChunk
INVARIANT ChunkLiveIsKept
PROPERTY TakenIsSettled
CHECK_DEADLOCK FALSE
