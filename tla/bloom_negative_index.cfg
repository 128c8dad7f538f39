\* Initialize, then AddElement and TestElement of three paths, NumElem 1 to 3: do the bit indices stay in the array?.
CONSTANTS
    Elems <- MCElems
    Hashes <- MCHashes
    NumElems = {1, 2, 3}
    Probs = {"0.5", "0.1", "0.01"}
    LnInv <- MCLnInv
    Ln2 = 693
    Ln2Sq = 480
    IntWidth = 8
    None = None
SPECIFICATION Spec
\* The run stops at the first panic.
CHECK_DEADLOCK FALSE
INVARIANT NoPanic
