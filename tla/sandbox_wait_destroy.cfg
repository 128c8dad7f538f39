\* Wait and destroy of the root container racing, in the sandbox's parent
\* and in another process, with the container exiting or not.
CONSTANTS
    Children = {TRUE, FALSE}
    Goroutines <- MCGoroutines
    ExitStatuses = {"exit0", "exit1"}
    MaxRetries = 2
    None = None
SPECIFICATION Spec
\* Both calls return and the process may then stop.
CHECK_DEADLOCK FALSE
INVARIANT TypeOK
INVARIANT WaitStatusCorrect
INVARIANT DestroyMeansStopped
PROPERTY KillEndsWait
PROPERTY DestroyReturns
