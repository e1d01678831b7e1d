SPECIFICATION FairSpec
CONSTANTS
    Wrap = 4
    Jobs <- MCJobs
INVARIANT TypeOK
INVARIANT AnsweredOnce
INVARIANT AnswerJustified
PROPERTY RequestImplemented
PROPERTY AnsweredWhenScannable
CHECK_DEADLOCK FALSE
