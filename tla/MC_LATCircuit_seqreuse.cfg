CONSTANTS
    Client = Client
    Server = Server
    ClientData = {p1, p2}
    ServerData = {}
    NoFrame = NoFrame
    RetransmitLimit = 2
    CircuitTimer = 100
    KeepaliveTimer = 1
    HeapInit = {"zeroed"}
    MaxLoss = 0
    MaxFrames = 11
    MaxChan = 2
SPECIFICATION Spec
CONSTRAINT Bounded
INVARIANT NoSilentLoss
