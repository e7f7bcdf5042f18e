SPECIFICATION FairSpec
CONSTANTS
    Params <- Accounting
    SEQ_MOD = 1
    WRAP_LIMIT = 1
    FirstSeqs = {0}
    Kinds = {"good", "alien"}
    MaxQueue = 3
    MaxPackets = 9
    MaxTs = 0
    MaxGap = 0
    MaxTry = 3
INVARIANTS
    AccountingExact
    CallsBounded
PROPERTIES
    DontwaitRunEnds
