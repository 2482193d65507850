------------------------------ MODULE MCInsight ------------------------------
(* Small chains for the runs of Insight.                                   *)
EXTENDS InsightProps

(* Line: one branch; the node only adds to it.                             *)
LineBlocks == {"g", "a1", "a2", "a3"}
LineParent == [g |-> "zero", a1 |-> "g", a2 |-> "a1", a3 |-> "a2"]
LineHeight == [g |-> 0, a1 |-> 1, a2 |-> 2, a3 |-> 3]
LineTxs == [b \in LineBlocks |-> {}]

(* Branches: the node goes over from branch a to b and on to c, which forks*)
(* from b, or leaves some of them out.                                     *)
BranchBlocks == {"g", "a1", "a2", "b1", "b2", "b3", "c2", "c3", "c4"}
BranchParent == [g |-> "zero", a1 |-> "g", a2 |-> "a1", b1 |-> "g", b2 |-> "b1", b3 |-> "b2",
                 c2 |-> "b1", c3 |-> "c2", c4 |-> "c3"]
BranchHeight == [g |-> 0, a1 |-> 1, a2 |-> 2, b1 |-> 1, b2 |-> 2, b3 |-> 3,
                 c2 |-> 2, c3 |-> 3, c4 |-> 4]
BranchTrust == [g |-> 0, a1 |-> 1, a2 |-> 3, b1 |-> 2, b2 |-> 4, b3 |-> 6,
                c2 |-> 5, c3 |-> 7, c4 |-> 8]
BranchTxs == [g |-> {"t0"}, a1 |-> {"t1"}, a2 |-> {}, b1 |-> {}, b2 |-> {"t1", "t2"}, b3 |-> {},
              c2 |-> {"t1"}, c3 |-> {}, c4 |-> {}]
=============================================================================
