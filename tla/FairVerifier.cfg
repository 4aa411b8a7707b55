\* Safety and liveness of the fair verifier with five callers and four peers.
CONSTANTS
    c1 = c1
    c2 = c2
    c3 = c3
    c4 = c4
    c5 = c5
    p1 = p1
    p2 = p2
    p3 = p3
    p4 = p4
    None = None
    Callers <- MCCallers
    Peers <- MCPeers
    PeerOf <- MCPeerOf
SPECIFICATION FairSpec
INVARIANTS
    TypeOK
    OnePerPeer
    AnsweredOnce
    NotOvertaken
PROPERTIES
    EveryRunReturns
    WorkerExits
\* After Close the worker ends and nothing happens any more.
CHECK_DEADLOCK FALSE
