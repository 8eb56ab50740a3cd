SPECIFICATION LiveSpec
CONSTANTS
    n1 = n1
    n2 = n2
    n3 = n3
    Nodes <- ThreeNodes
    NoNode = NoNode
    HttpPort <- OnePort
    RaftPort <- PeerPort
    MaxKeyBytes = 512
    MaxValueBytes = 1048576
    LmdbMaxKey = 511
    AxumBodyLimit = 2097152
    Clients = {"client"}
    Script <- WriteThenRead
    RetryMs = {0, 150, 1000}
    First = n1
    Rise <- Rises
    Fall <- Falls
    MaxFaults = 1
INVARIANTS TypeOK AckedCommitted StrongReadsFresh ErrorsActionable
CHECK_DEADLOCK FALSE
PROPERTY RequestsAnswered
