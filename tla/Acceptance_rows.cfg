SPECIFICATION Spec
CONSTANTS
    Txs <- MCTxs
    Blocks <- MCBlocks
    ChainBlocks <- MCChain
    Addrs <- MCAddrs
    Groups <- MCGroups
    NoTx = NoTx
    NoBlock = 0
    NoAddr = NoAddr
    NoGroup = NoGroup
    Where <- MCWhere
    Accepts <- MCAccepts
    Parent <- MCParent
    Outs <- ChangeFirst
    From <- MCFrom
    Group <- Plain
    Pub <- MCPub
    Daa <- MCDaa
    Changes = 2
    Budget <- NoFault
INVARIANT OneRow
CHECK_DEADLOCK FALSE
