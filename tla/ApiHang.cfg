SPECIFICATION PartsSpec
CONSTANTS
  g = g
  a1 = a1
  t0 = t0
  t1 = t1
  t2 = t2
  x = x
  y = y
  r1 = r1
  r2 = r2
  Blocks <- MCBlocks
  Parent <- MCParent
  Height <- MCHeight
  Genesis = g
  Zero = Zero
  Null = Null
  Txs <- MCTxs
  GenesisTx = t0
  BlockTime <- MCBlockTime
  MaxTime = 1
  Limits = {1, 2}
  Requests = {r1, r2}
  Addrs = {x, y}
  TxSeqOf <- MCTxSeqOf
  TxSeqOfAddr <- MCTxSeqOfAddr
  PaidBy <- MCPaidBy
  DoubleSpent = {x}
  PageLength = 1
  Concurrency = 2
  Delay = 1
  Announced = {t1}
  Menu <- TxsMenu
  ApiFaults = {}
CHECK_DEADLOCK FALSE
PROPERTY ListsAnswer
