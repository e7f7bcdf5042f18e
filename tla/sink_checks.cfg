\* WRAP_LIMIT leaves room for exactly the four numbers a packet lost on either
\* side of the unchecked one that starts recvmsg's test can take: 4 is followed
\* by 0.
SPECIFICATION Spec
CONSTANTS
    Params <- Checks
    SEQ_MOD = 8
    WRAP_LIMIT = 4
    FirstSeqs = {3}
    Kinds = {"good", "torn", "zero", "short"}
    MaxQueue = 2
    MaxPackets = 6
    MaxTs = 1
    MaxGap = 1
    MaxTry = 0
INVARIANTS
    ChecksOfThisRun
    NoFalseOoO
    Level3Consecutive
