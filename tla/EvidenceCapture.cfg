SPECIFICATION Spec
CONSTANTS
    log = log
    page = page
    old = old
    r1 = r1
    r2 = r2
    u1 = u1
    u2 = u2
    v1 = v1
    Item = {log, page, old}
    Trace <- MCTrace
    Suspect = {page}
    Backfill = {old}
    Recorder = {r1, r2}
    Updater = {}
    Reviser = {}
INVARIANT CapturedOnce
INVARIANT SameTraceRelated
CHECK_DEADLOCK FALSE
