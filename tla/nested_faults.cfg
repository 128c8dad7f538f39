\* Nested lower layer (a/b), every operation but rename and rmdir; copy-ups and upper calls may fail.
CONSTANTS
    Names = {"a", "b"}
    MaxDepth = 2
    Attrs = {0, 1}
    SetAttrs = {0}
    None = None
    Faults = {"copyup", "upper"}
    Lower <- LowerNested
    Ops <- OpsNoRenameRmdir
SPECIFICATION Spec
INVARIANT EntryCoherence
PROPERTY Refinement
