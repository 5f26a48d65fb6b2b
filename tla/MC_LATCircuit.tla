---------------------------- MODULE MC_LATCircuit ----------------------------
(* Model-checking instance of LATCircuit: a bound on the frames the two     *)
(* ends together send and on the frames in flight in each direction.       *)
EXTENDS LATCircuit, TLC

CONSTANTS
    MaxFrames,  \* frames both ends together may put on the wire
    MaxChan     \* frames in flight towards one end

Bounded ==
    /\ sent[Client] + sent[Server] <= MaxFrames
    /\ \A n \in Ends : Len(chan[n]) <= MaxChan

PayloadSym == Permutations(ClientData) \cup Permutations(ServerData)
==============================================================================
