SPECIFICATION FairSpec
CONSTANTS
    Templates <- MCTemplates
    MaxLines = 3
INVARIANTS
    TypeOK
    AnsweredOnceInOrder
    OwnId
    WriteAcknowledged
PROPERTY
    RequestsAnswered
CHECK_DEADLOCK FALSE
