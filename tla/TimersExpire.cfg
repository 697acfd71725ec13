SPECIFICATION TimersSpec
CONSTANTS
    a = a  b = b
    NoTimer = NoTimer
    Timer = {a, b}
    Setups <- MCSetups
    Periods = {1, 2}
    TickModulus = 4
    MaxLate = 1
    QueueLength = 3
    MaxCommands = 2
INVARIANTS WakesInTime ReloadsAreSent
PROPERTIES ExpiresWhenDue DueTimersExpire
