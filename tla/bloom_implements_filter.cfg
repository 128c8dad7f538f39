\* Initialize, then AddElement and TestElement of three paths, NumElem -1 to 3.
CONSTANTS
    Elems <- MCElems
    Hashes <- MCHashes
    NumElems <- MCNumElems
    Probs = {"0.5", "0.1", "0.01", "1", "2"}
    LnInv <- MCLnInv
    Ln2 = 693
    Ln2Sq = 480
    IntWidth = 8
    None = None
SPECIFICATION Spec
\* A panic ends the program.
CHECK_DEADLOCK FALSE
PROPERTY ImplementsFilter
