\* Queues of two frames, chunks of up to three units, two faults.
SPECIFICATION FairSpec
CONSTANTS
    QueueSize = 2
    MaxChunk = 3
    MaxSeq = 2
    Error = Error
    Budget <- TwoFaults
INVARIANTS
    TypeOK
    MarkKept
    BindAlone
PROPERTIES
    AnswersTheirRequest
    RepliesInOrder
    Works
