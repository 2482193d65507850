SPECIFICATION Spec
CONSTANTS
  Blocks <- NestedBlocks
  Parent <- NestedParent
  Height <- NestedHeight
  TxsOf <- NestedTxs
  Genesis = "g"
  Zero = "zero"
  Null = Null
  Txs = {"t0"}
  GenesisTx = "t0"
  Callers = {c1}
  AllowModes = {TRUE}
  Faults = {}
INVARIANT MainIsLineage
