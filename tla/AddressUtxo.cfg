SPECIFICATION UtxoSpec
CONSTANTS
  Blocks = {"b1"}
  Parent <- NoParent
  Height <- OneHeight
  Genesis = "b1"
  Zero = "zero"
  Null = Null
  Txs <- SpendTxs
  TxsOf <- SpendTxsOf
  GenesisTx = "t0"
  Outputs = {"o1", "o2", "o3"}
  TxOf <- SpendTxOf
  AddrOf <- SpendAddrOf
  ValueOf <- SpendValueOf
  Spends <- SpendSpends
  Addrs = {"a"}
  Adders = {d1}
  Updaters = {u1}
  MaxChanges = 0
  AddFaults = {}
INVARIANTS UtxoTypeOK BalanceExact UtxoUnspent UtxoComplete
