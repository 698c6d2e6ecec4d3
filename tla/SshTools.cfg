SPECIFICATION FairSpec
CONSTANTS
    c1 = c1
    host1 = host1
    simulated = simulated
    disk = disk
    restart = restart
    good = good
    bad = bad
    test = test
    None = None
    Call = {c1}
    Limit = 1
    Chunk = {1, 2}
    MaxOutput = 2
    Host = {host1}
    Sim = simulated
    Inspection = {disk}
    Configured = {restart}
    Text = {good, bad}
    Denied = {bad}
    SimText <- MCSimText
    ConnectionTest = test
    MaxEdit = 2
INVARIANT TypeOK
INVARIANT OutputAccounted
INVARIANT RunsAuthorised
INVARIANT DeletedNeverReached
INVARIANT SuccessIsTrue
INVARIANT EndedIsAudited
CHECK_DEADLOCK FALSE
PROPERTY CallsEnd
PROPERTY ImplementsAudit
