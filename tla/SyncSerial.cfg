SPECIFICATION StraightSpec
CONSTANTS
  Blocks <- ForkBlocks
  Parent <- ForkParent
  Height <- ForkHeight
  TxsOf <- ForkTxs
  Genesis = "g"
  Zero = "zero"
  Null = Null
  Txs = {"t0", "t1", "t2"}
  GenesisTx = "t0"
  Callers = {c1}
  AllowModes = {TRUE}
  Faults = {"rpcMiss"}
INVARIANTS MainIsLineage NextFollowsMain ConfirmedIffMain
PROPERTIES ReorgSparesLineage ImplementsChainIndex
