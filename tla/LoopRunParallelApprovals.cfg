SPECIFICATION Spec
CONSTANTS
    Node <- ParallelNode
    Kind <- ParallelKind
    Above <- ParallelAbove
    StepId <- ParallelStepId
    Retries <- ParallelRetries
    Handler = {h1}
    MaxVersion = 1
    None = None
INVARIANT SuspendedIsAnswerable
CHECK_DEADLOCK FALSE
