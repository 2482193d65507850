---------------------------- MODULE MCAddressUtxo ----------------------------
(* t1 has two outputs to the address a; t2 spends the first of them and has*)
(* one to a as well.                                                       *)
EXTENDS AddressUtxo

NoParent == [b1 |-> "zero"]
OneHeight == [b1 |-> 0]
SpendTxs == {"t1", "t2"}
SpendTxOf == [o1 |-> "t1", o2 |-> "t1", o3 |-> "t2"]
SpendAddrOf == [o1 |-> "a", o2 |-> "a", o3 |-> "a"]
SpendValueOf == [o1 |-> 4, o2 |-> 2, o3 |-> 1]
SpendSpends == [t1 |-> {}, t2 |-> {"o1"}]
SpendTxsOf == [b1 |-> {"t1", "t2"}]
=============================================================================
