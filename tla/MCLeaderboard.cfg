SPECIFICATION FairSpec
CONSTANTS
    Submissions = {"a", "b", "c"}
    Runs <- MCRuns
    Total = 4
    MaxShown = 2
    Requests = {1, 2}
    MaxRows = 3
INVARIANTS DisplayConsistent DrawerShowsSelected
PROPERTIES NoPhantomMoves LegacyNeverGoesBack EventuallyCurrent
