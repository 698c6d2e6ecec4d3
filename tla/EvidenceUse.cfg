SPECIFICATION Spec
CONSTANTS
    log = log
    page = page
    old = old
    r1 = r1
    r2 = r2
    u1 = u1
    u2 = u2
    v1 = v1
    Item = {log, page}
    Trace <- MCTwoTrace
    Suspect = {page}
    Backfill = {}
    Recorder = {r1}
    Updater = {u1}
    Reviser = {v1}
INVARIANT TypeOK
 
INVARIANT SuspectNeedsUser
INVARIANT AnswerTraceable
INVARIANT RejectionRecorded
CHECK_DEADLOCK FALSE
