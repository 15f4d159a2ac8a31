SPECIFICATION Spec
CONSTANTS
    Daemons = {d1, d2, d3}
    Platforms = {"unix", "windows"}
    Worlds <- AloneOrTogether
    None = None
SYMMETRY Symmetry
INVARIANTS
    AloneReadsWhole
    AloneIsFound
    StoppedIsForgotten
    StartedIsAdvertised
