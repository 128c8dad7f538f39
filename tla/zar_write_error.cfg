\* part_004's zarManager on an image file whose writes may fail.
CONSTANTS
    NameSeq <- MCNameSeq
    MaxDepth = 3
    Trees <- MCTrees
    Versions = {"zar"}
    PageBoundary = 4
    MaxVarintLen64 = 10
    WriteFaults = TRUE
    None = None
SPECIFICATION Spec
\* writeImage and readImage each run once and return.
CHECK_DEADLOCK FALSE
INVARIANT CompleteOnSuccess
