\* manager.go's ZarManager and its ImgStats counters.
CONSTANTS
    NameSeq <- MCNameSeq
    MaxDepth = 3
    Trees <- MCTrees
    Versions = {"manager"}
    PageBoundary = 4
    MaxVarintLen64 = 10
    WriteFaults = FALSE
    None = None
SPECIFICATION Spec
\* The generator runs once and returns.
CHECK_DEADLOCK FALSE
INVARIANT StatsMatchTree
