SPECIFICATION Spec
CONSTANTS
    Params <- Polling
    SEQ_MOD = 8
    WRAP_LIMIT = 6
    FirstSeqs = {0}
    Kinds = {"good"}
    MaxQueue = 2
    MaxPackets = 6
    MaxTs = 0
    MaxGap = 0
    MaxTry = 2
INVARIANT MeasuresReceived
