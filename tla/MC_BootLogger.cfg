CONSTANTS
    Envs <- MCEnvs
    IoFaults = TRUE
    MaxRows = 2
    MaxRestarts = 1

SPECIFICATION Spec
\* A process that exited after its last restart stays down.
CHECK_DEADLOCK FALSE
INVARIANT StopBoundsRows
PROPERTY StopReleasesFile TraceOnlyGrows
