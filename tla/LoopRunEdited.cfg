SPECIFICATION Spec
CONSTANTS
    Node <- SequenceNode
    Kind <- SequenceKind
    Above <- SequenceAbove
    StepId <- SequenceStepId
    Retries <- SequenceRetries
    Handler = {h1}
    MaxVersion = 2
    None = None
INVARIANT ApprovalBindsDefinition
CHECK_DEADLOCK FALSE
