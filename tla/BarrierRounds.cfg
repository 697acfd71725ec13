SPECIFICATION Spec
CONSTANTS
    a = a  b = b  c = c  d = d
    NoTask = NoTask
    Tasks = {a, b, c, d}
    Bits = {1, 2, 3}
    uThreshold = 3
    CallsOf <- MCCalls
INVARIANTS NoMissedWake ReturnedBitsMeetWait
PROPERTIES BitsGoToAWaiter BarrierSpec WaitersGetThrough
