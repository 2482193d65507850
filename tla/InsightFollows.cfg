SPECIFICATION InsightFairSpec
CONSTANTS
  Blocks <- LineBlocks
  Parent <- LineParent
  Height <- LineHeight
  TxsOf <- LineTxs
  Trust <- LineHeight
  Genesis = "g"
  Zero = "zero"
  Null = Null
  Txs = {"t0", "t1"}
  GenesisTx = "t0"
  Callers = {historic, p1}
  Historic = historic
  AllowModes = {TRUE, FALSE}
  MaxWire = 2
  Faults = {"disconnect"}
CHECK_DEADLOCK FALSE
INVARIANTS InsightTypeOK StoredIsLinked
PROPERTY SyncEnds
