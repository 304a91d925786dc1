SPECIFICATION GatewaySpec
CONSTANTS
    MaxSent = 3
    MaxItems = 3
    MaxWorkers = 2
    NonceSize = 4
    Bytes = {0, 171}
    MaxCipher = 3
INVARIANT RowGetsItsOwnCiphertext
