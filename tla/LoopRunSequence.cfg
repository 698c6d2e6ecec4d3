SPECIFICATION FairSpec
CONSTANTS
    Node <- SequenceNode
    Kind <- SequenceKind
    Above <- SequenceAbove
    StepId <- SequenceStepId
    Retries <- SequenceRetries
    Handler = {h1, h2}
    MaxVersion = 2
    None = None
INVARIANT TypeOK
INVARIANT ApprovalGates
 
INVARIANT CompletedMeansDone
INVARIANT EndedWell
 
 
INVARIANT SuspendedIsAnswerable
CHECK_DEADLOCK FALSE
PROPERTY RunSettles
