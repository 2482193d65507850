--------------------------- MODULE MCAddressCalls ---------------------------
(* Calls of AddressDb, in two parts that share nothing.  "pay": one    *)
(* transaction with one output, two calls of each kind at once, a block    *)
(* change, and crashes.  "spend": a transaction with two outputs and one   *)
(* that spends the first, two calls of add at once, and failing operations.*)
EXTENDS AddressProps, TLC

CallsParent == [b1 |-> "zero", b2 |-> "b1"]
CallsHeight == [b1 |-> 0, b2 |-> 1]
CallsTxsOf == [b1 |-> {"t1", "t2"}, b2 |-> {"p"}]
CallsTxOf == [o1 |-> "t1", o2 |-> "t1", op |-> "p"]
CallsAddrOf == [o1 |-> "a", o2 |-> "a", op |-> "a"]
CallsValueOf == [o1 |-> 2, o2 |-> 1, op |-> 2]
CallsSpends == [t1 |-> {}, t2 |-> {"o1"}, p |-> {}]

VARIABLE part

In(p) == part = p /\ UNCHANGED part

CallsInit == AddressInit /\ part \in {"pay", "spend"}

CallsNext ==
  \/ \E d \in Adders, b \in {"b2", Null} : In("pay") /\ AddTx(d, "p", b)
  \/ \E d \in Adders, t \in {"t1", "t2"}, b \in {"b1", Null} : In("spend") /\ AddTx(d, t, b)
  \/ \E d \in Adders, o \in Outputs : UNCHANGED part /\ WriteSpent(d, o)
  \/ \E d \in Adders : UNCHANGED part /\ VinDone(d)
  \/ \E d \in Adders, o \in Outputs : In("spend") /\ GetOutput(d, o)
  \/ \E d \in Adders : In("pay") /\ GetOutput(d, "op") /\ UNCHANGED skipped
  \/ \E d \in Adders, o \in Outputs : UNCHANGED part /\ WriteOutput(d, o)
  \/ \E d \in Adders : UNCHANGED part /\ VoutDone(d)
  \/ \E d \in Adders : UNCHANGED part /\ Confirm(d)
  \/ \E d \in Adders : In("spend") /\ AddFails(d)
  \/ \E i \in lookups : UNCHANGED part /\ FlagSpender(i[1], i[2])
  \/ \E i \in strays : UNCHANGED part /\ StrayItem(i[1], i[2])
  \/ \E isMain \in BOOLEAN : In("pay") /\ HandleBlockChange("b2", isMain)
  \/ \E ch \in changes : UNCHANGED part /\ WriteBlockChange(ch)
  \/ \E ch \in changes : UNCHANGED part /\ LoseBlockChange(ch)
  \/ \E u \in Updaters : In("pay") /\ UpdateAddress(u, "a")
  \/ \E u \in Updaters, o \in Outputs : UNCHANGED part /\ ScanSpent(u, o)
  \/ \E u \in Updaters, q \in Uses : UNCHANGED part /\ AskConfirmed(u, q)
  \/ \E u \in Updaters, o \in Outputs : UNCHANGED part /\ MissSpent(u, o)
  \/ \E u \in Updaters : UNCHANGED part /\ MissAnswer(u)
  \/ \E u \in Updaters : UNCHANGED part /\ GetOldBalance(u)
  \/ \E u \in Updaters : UNCHANGED part /\ WriteBalance(u)
  \/ \E u \in Updaters : UNCHANGED part /\ WriteFails(u)
  \/ In("pay") /\ RefreshAddress("a")
  \/ In("pay") /\ AddressCrash

CallsSpec == CallsInit /\ [][CallsNext]_<<addressVars, part>>

CallSymmetry == Permutations(Updaters) \cup Permutations(Adders)
=============================================================================
