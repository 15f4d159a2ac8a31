SPECIFICATION SignerSpec
CONSTANTS
    Uploads = {u1, u2}
    Tasks = {t1, t2}
    Chunks = {c1, c2}
    TTL = 1
    CoreFails = TRUE
    None = None
    MaxAttempts = 2
    Transports = {"rest", "grpc"}
INVARIANT NeverPaysTwice
PROPERTY FlagsAreTrue
CHECK_DEADLOCK FALSE
