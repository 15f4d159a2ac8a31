SPECIFICATION Spec
CONSTANTS
    MaxIds = 1
    Calls = {c1, c2}
    MaxQuotes = 3
    MaxTransfers = 2
    MaxPolls = 1
    Drops = TRUE
    None = None
INVARIANTS LiveIsKept StoresHaveHashes
PROPERTIES BillsAreDue
