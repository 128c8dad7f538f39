\* Wait and destroy of the root container racing in the process that
\* started the sandbox: does destroy signal only the sandbox?
CONSTANTS
    Children = {TRUE}
    Goroutines <- MCGoroutines
    ExitStatuses = {"exit0", "exit1"}
    MaxRetries = 2
    None = None
SPECIFICATION Spec
\* Both calls return and the process may then stop.
CHECK_DEADLOCK FALSE
INVARIANT NoStrayKill
