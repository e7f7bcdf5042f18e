\* Sequence numbers modulo 8 wrap within the tests of the longer floods; a short
\* batch and the unchecked packet that starts a test skip fewer numbers than
\* WRAP_LIMIT leaves room for.  The socket buffer
\* holds a batch and is full when the sink is slow.
SPECIFICATION SpecBoth
CONSTANTS
    Params <- AllFloods
    SinkParams <- Sinks
    Setups <- AllSetups
    SEQ_MOD = 8
    WRAP_LIMIT = 4
    MaxQueue = 3
    MaxTs = 2
    MaxTry = 0
INVARIANTS
    ReportedIsSent
    AtMostCount
    WireOrder
    FloodRaisesNoAlarm
    Level3AlarmIsReal
PROPERTY EnoughIsEnough
