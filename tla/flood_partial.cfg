SPECIFICATION Spec
CONSTANTS
    Params <- Batched
    SEQ_MOD = 8
INVARIANT MeasuresSent
