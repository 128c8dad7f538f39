\* Getxattr and Listxattr of a directory that holds whiteouts.
CONSTANTS
    Names = {"a", "b"}
    None = None
    LowerXattrs <- MCLowerXattrs
    Queries <- MCQueries
SPECIFICATION Spec
INVARIANT NoReservedLeak
