----------------------------- MODULE MCSyncCalls -----------------------------
(* Two overlapping calls of storeTipBlock, in two parts that share nothing:*)
(* in the first anything may fail, with one block (p1) on top of Genesis;  *)
(* in the second nothing fails, with two siblings and a child, enough for  *)
(* two reorganisations to cross.                                           *)
EXTENDS SyncProps

CallsParent == [g |-> "zero", p1 |-> "g", a1 |-> "g", a2 |-> "a1", b1 |-> "g"]
CallsHeight == [g |-> 0, p1 |-> 1, a1 |-> 1, a2 |-> 2, b1 |-> 1]
CallsTxs == [g |-> {"t0"}, p1 |-> {"t1", "t2"}, a1 |-> {}, a2 |-> {}, b1 |-> {}]

Parts == {"faults", "race"}
BlocksOf == [faults |-> {"g", "p1"}, race |-> {"g", "a1", "a2", "b1"}]

VARIABLE part

In(p) == part = p /\ UNCHANGED part

CallsInit == Init /\ part \in Parts

CallsNext ==
  \/ \E c \in Callers, allow \in AllowModes :
       \E b \in BlocksOf[part] : Call(c, b, allow) /\ UNCHANGED part
  \/ \E c \in Callers : Store(c) /\ UNCHANGED part
  \/ \E c \in Callers : Reorg(c) /\ UNCHANGED part
  \/ \E c \in Callers : DbError(c) /\ In("faults")
  \/ \E c \in Callers : DbErrorIgnored(c) /\ In("faults")
  \/ \E c \in Callers, t \in Txs : FailTx(c, t) /\ In("faults")
  \/ \E t \in Txs, b \in Blocks : StrayTx(t, b) /\ In("faults")
  \/ Crash /\ In("faults")

CallsSpec ==
  /\ CallsInit /\ [][CallsNext]_<<vars, part>>
  /\ \A c \in Callers : WF_vars(Progress(c))
=============================================================================
