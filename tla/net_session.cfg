SPECIFICATION LiveSpec
CONSTANTS
    Senders = {peer, other}
    Peer = peer
    NULL = NULL
    WaitMax = 8
    CallbackMax = 2
    MaxDatagrams = 3
INVARIANT SendsToFirstSender
INVARIANT RecvThreadStopped
INVARIANT NoWinsockLeak
PROPERTY ShutdownReturns
CHECK_DEADLOCK FALSE
