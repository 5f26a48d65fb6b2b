CONSTANTS
    Client = Client
    Server = Server
    ClientData = {p1, p2}
    ServerData = {q1}
    NoFrame = NoFrame
    RetransmitLimit = 0
    CircuitTimer = 100
    KeepaliveTimer = 1
    HeapInit = {"zeroed"}
    MaxLoss = 1
    MaxFrames = 11
    MaxChan = 1
SPECIFICATION Spec
CONSTRAINT Bounded
INVARIANTS TypeOK DeliveredInOrder
