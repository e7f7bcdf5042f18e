\* Two clients, at the same time or one after the other on the same port, and a
\* server with two addresses; lengths at the frame and above, and one that the
\* uint16_t cuts to 0; the server stops after two answers.
SPECIFICATION FairSpec
CONSTANTS
    Clients = {c1, c2}
    Ports = {p1, p2}
    None = None
    Addrs = {a1, a2}
    Primary = a1
    Sizes = {3, 4, 8}
    Counts = {2}
    Families <- OneFamily
    FRAME = 3
    U16 = 8
    MaxQueue = 1
    MaxDups = 1
    MaxStarts = 1
CHECK_DEADLOCK FALSE
INVARIANTS
    TypeOK
    OKMeansEchoed
    SizeFailureMeansTooLong
    RightSource
PROPERTY WaitingEnds
