SPECIFICATION Spec
CONSTANTS
    Daemons = {d1, d2}
    Platforms = {"unix"}
    Worlds <- Together
    None = None
SYMMETRY Symmetry
INVARIANTS
    ReadsWhole
