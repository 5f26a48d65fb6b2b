CONSTANTS
    Client = Client
    Server = Server
    ClientData = {}
    ServerData = {}
    NoFrame = NoFrame
    RetransmitLimit = 2
    CircuitTimer = 100
    KeepaliveTimer = 1
    HeapInit = {"zeroed"}
    MaxLoss = 1
    MaxFrames = 6
    MaxChan = 2
SPECIFICATION FairSpec
CONSTRAINT Bounded
PROPERTY ConnectCompletes
