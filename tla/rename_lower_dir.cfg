\* A lower directory with a child, renamed to a name freed by unlink.
CONSTANTS
    Names = {"a", "b"}
    MaxDepth = 2
    Attrs = {0, 1}
    SetAttrs = {0}
    None = None
    Faults = {}
    Lower <- LowerNested
    Ops <- OpsUnlinkRename
SPECIFICATION Spec
PROPERTY Refinement
