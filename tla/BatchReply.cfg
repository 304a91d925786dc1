SPECIFICATION FairGatewaySpec
CONSTANTS
    MaxSent = 6
    MaxItems = 5
    MaxWorkers = 3
    NonceSize = 4
    Bytes = {0, 171}
    MaxCipher = 3
INVARIANTS
    TypeOK
    AnswerAtItsOwnPosition
    EveryItemAnswered
    FieldComesBack
PROPERTIES
    AnswerRefined
    RequestAnswered
