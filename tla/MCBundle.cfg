SPECIFICATION BundleSpec
CONSTANTS
    Names <- MCSegments
    Trees <- MCTrees
    GlobLists <- MCGlobLists
    Rewrites <- MCRewrites
    Binary = {"data.bin"}
    Foreign = {"foreign.md"}
    Folded <- MCFolded
    MaxErrors = 1
    MaxChanges = 1
    MaxKills = 1
CHECK_DEADLOCK FALSE
INVARIANTS
    OnlyTheCandidatesLeaves
    NothingPartialStays
