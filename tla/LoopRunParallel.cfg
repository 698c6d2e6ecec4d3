SPECIFICATION Spec
CONSTANTS
    Node <- ParallelNode
    Kind <- ParallelKind
    Above <- ParallelAbove
    StepId <- ParallelStepId
    Retries <- ParallelRetries
    Handler = {h1, h2}
    MaxVersion = 1
    None = None
INVARIANT ApprovalGates
INVARIANT CompletedMeansDone
INVARIANT EndedWell
CHECK_DEADLOCK FALSE
