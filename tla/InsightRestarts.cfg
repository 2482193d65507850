SPECIFICATION SettledSpec
CONSTANTS
  Blocks <- BranchBlocks
  Parent <- BranchParent
  Height <- BranchHeight
  TxsOf <- BranchTxs
  Trust <- BranchTrust
  Genesis = "g"
  Zero = "zero"
  Null = Null
  Txs = {"t0", "t1", "t2"}
  GenesisTx = "t0"
  Callers = {historic}
  Historic = historic
  AllowModes = {TRUE, FALSE}
  MaxWire = 1
  Faults = {"restart", "rpcError", "rpcMiss", "disconnect"}
CHECK_DEADLOCK FALSE
INVARIANTS TipLineageStored SettledChain SettledConfirmations
