SPECIFICATION AddressSpec
CONSTANTS
  Blocks = {"b1"}
  Parent <- NoParent
  Height <- OneHeight
  Genesis = "b1"
  Zero = "zero"
  Null = Null
  Txs <- TwiceTxs
  TxsOf <- TwiceTxsOf
  GenesisTx = "t0"
  Outputs = {"o1"}
  TxOf <- TwiceTxOf
  AddrOf <- TwiceAddrOf
  ValueOf <- TwiceValueOf
  Spends <- TwiceSpends
  Addrs = {"a"}
  Adders = {d1}
  Updaters = {u1}
  MaxChanges = 0
  AddFaults = {}
INVARIANT BalanceExact
