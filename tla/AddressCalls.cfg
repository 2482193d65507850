SPECIFICATION CallsSpec
CONSTANTS
  Blocks = {"b1", "b2"}
  Parent <- CallsParent
  Height <- CallsHeight
  Genesis = "b1"
  Zero = "zero"
  Null = Null
  Txs = {"t1", "t2", "p"}
  TxsOf <- CallsTxsOf
  GenesisTx = "t0"
  Outputs = {"o1", "o2", "op"}
  TxOf <- CallsTxOf
  AddrOf <- CallsAddrOf
  ValueOf <- CallsValueOf
  Spends <- CallsSpends
  Addrs = {"a"}
  Adders = {d1, d2}
  Updaters = {u1, u2}
  MaxChanges = 1
  AddFaults = {"dbError", "crash"}
SYMMETRY CallSymmetry
INVARIANTS AddressTypeOK ConfirmedTxComplete RankHasBalance AddressIsFlagged
