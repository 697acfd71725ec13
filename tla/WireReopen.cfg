SPECIFICATION Spec
CONSTANTS
    x = x  y = y  b1 = b1  b2 = b2   NULL = NULL
    Bytes <- MCBytes
    Blocks <- MCBlocks
    BUFFER_LENGTH = 2
    MaxQuantity = 2
    QueueBound = 1
INVARIANTS OpensOnce
