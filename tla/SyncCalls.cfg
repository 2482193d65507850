SPECIFICATION CallsSpec
CONSTANTS
  Blocks = {"g", "p1", "a1", "a2", "b1"}
  Parent <- CallsParent
  Height <- CallsHeight
  TxsOf <- CallsTxs
  Genesis = "g"
  Zero = "zero"
  Null = Null
  Txs = {"t0", "t1", "t2"}
  GenesisTx = "t0"
  Callers = {c1, c2}
  AllowModes = {TRUE}
  Faults = {"dbError", "crash"}
INVARIANTS TypeOK StoredBlockTxs ConfirmedCanBeUndone NextIsChild NoPhantomMain
PROPERTY CallReturns
