SPECIFICATION FairSpec
CONSTANTS
    PvdOffset = 1
    PvdLen = 2
    SvdLen = 2
    Jobs <- HttpJobs
PROPERTY AlwaysAnswered
CHECK_DEADLOCK FALSE
