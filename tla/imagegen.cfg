\* Both generators over every tree of the bound, with and without
\* -pagealign, the image file's writes failing from any point on.
CONSTANTS
    NameSeq <- MCNameSeq
    MaxDepth = 3
    Trees <- MCTrees
    Versions = {"zar", "manager"}
    PageBoundary = 4
    MaxVarintLen64 = 10
    WriteFaults = TRUE
    None = None
SPECIFICATION Spec
CHECK_DEADLOCK FALSE
INVARIANT TypeOK
INVARIANT HeaderLocationCorrect
INVARIANT ReadBack
INVARIANT Aligned
INVARIANT FilterHasEveryFile
