SPECIFICATION FairSpec
CONSTANTS
    Threads = {t1, t2}
    NoThread = NoThread
    MaxSessions = 3
    MaxStartMessages = 8
    MaxFinishMessages = 4
    MaxFinishes = 3
INVARIANTS
    TypeOK
    SessionsAreNotShared
    StoredSessionIsConfigured
PROPERTIES
    SessionSurvivesRetries
    CallsReturn
CHECK_DEADLOCK FALSE
