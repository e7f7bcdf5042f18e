\* Two clients, with two and one connections, a plain sink and an epoll sink
\* that share the port; the epoll sink sees at most two events at a time.
SPECIFICATION FairSpec
CONSTANTS
    c1 = c1
    c2 = c2
    plain = plain
    epoll = epoll
    Clients = {c1, c2}
    Sinks = {plain, epoll}
    EpollSinks = {epoll}
    ClientCount <- Counts
    SinkCount = 3
    NoClose = {c2}
    SourcePort = {c1}
    MAX_EVENTS = 2
    Backlog = 2
INVARIANTS
    TypeOK
    DescriptorsExact
    EventsNotStale
PROPERTIES
    NothingLeftOpen
    ClientsEnd
