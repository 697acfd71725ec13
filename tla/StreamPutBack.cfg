SPECIFICATION Spec
CONSTANTS
    x = x  y = y
    Bytes <- MCBytes
    Frames <- MCFrames
    BufferSize = 3
    MaxLength = 2
    TriggerLevels = {1, 2}
    WaitsOf <- MCWaits
    Careless = {"putBack"}
PROPERTY PutBackKeepsMessages
