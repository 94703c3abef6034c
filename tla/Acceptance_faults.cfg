SPECIFICATION FairSpec
CONSTANTS
    Txs <- MCTxs
    Blocks <- MCBlocks
    ChainBlocks <- MCChain
    Addrs <- MCAddrs
    Groups <- MCGroups
    NoTx = NoTx
    NoBlock = 0
    NoAddr = NoAddr
    NoGroup = NoGroup
    Where <- MCWhere
    Accepts <- MCAccepts
    Parent <- MCParent
    Outs <- ChangeFirst
    From <- MCFrom
    Group <- Contest
    Pub <- MCPub
    Daa <- MCDaa
    Changes = 2
    Budget <- BothFaults
INVARIANT SenderTrue
INVARIANT GroupHasOneSender
INVARIANT OpenIsPending
PROPERTY SenderArrives
CHECK_DEADLOCK FALSE
