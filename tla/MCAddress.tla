------------------------------ MODULE MCAddress ------------------------------
(* Two transactions, t2 and t3, that both spend the output o1.             *)
EXTENDS AddressProps

NoParent == [b1 |-> "zero"]
OneHeight == [b1 |-> 0]
TwiceTxs == {"t1", "t2", "t3"}
TwiceTxOf == [o1 |-> "t1"]
TwiceAddrOf == [o1 |-> "a"]
TwiceValueOf == [o1 |-> 2]
TwiceSpends == [t1 |-> {}, t2 |-> {"o1"}, t3 |-> {"o1"}]
TwiceTxsOf == [b1 |-> {"t1", "t2"}]
=============================================================================
