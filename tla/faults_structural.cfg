\* Flat lower layer, the operations that change the namespace (rename
\* included), and every backing-filesystem call may fail.
CONSTANTS
    Names = {"a", "b"}
    MaxDepth = 2
    Attrs = {0, 1}
    SetAttrs = {0}
    None = None
    Faults = {"copyup", "upper", "xattr"}
    Lower <- LowerFlat
    Ops <- OpsStructural
SPECIFICATION Spec
INVARIANT TypeOK
