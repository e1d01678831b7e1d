SPECIFICATION FairSpec
CONSTANTS
    PvdOffset = 1
    PvdLen = 2
    SvdLen = 2
    Jobs <- MCJobs
INVARIANT TypeOK
INVARIANT ReadsInBounds
INVARIANT AnsweredOnce
INVARIANT AnswerJustified
PROPERTY WholeStructs
PROPERTY RequestImplemented
PROPERTY AnsweredWhenSearchable
CHECK_DEADLOCK FALSE
