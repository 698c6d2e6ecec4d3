SPECIFICATION Spec
CONSTANTS
    Request = {r1, r2, r3}
    Text = {runbook, page}
    Injected = {page}
    Sample = {runbook}
    Parts = 2
    Erased = Erased
    None = None
SYMMETRY Symmetry
INVARIANT ForgottenLeavesNoText
CHECK_DEADLOCK FALSE
