SPECIFICATION Spec
CONSTANTS
  Blocks <- PairBlocks
  Parent <- PairParent
  Height <- PairHeight
  TxsOf <- PairTxs
  Genesis = "g"
  Zero = "zero"
  Null = Null
  Txs = {"t0", "t1", "t2"}
  GenesisTx = "t0"
  Callers = {c1, c2}
  AllowModes = {TRUE}
  Faults = {}
INVARIANT TipIsMain
