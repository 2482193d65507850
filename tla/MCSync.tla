------------------------------- MODULE MCSync -------------------------------
(* Small block trees for the runs of Sync.                                 *)
EXTENDS SyncProps

(* Fork: Genesis g, a fork at g with branches of three, two and one block, *)
(* and a fork inside the first: Cases 0, 1 and 2 of storeTipBlock, each    *)
(* several times, and branches that are not straight.                      *)
ForkBlocks == {"g", "a1", "a2", "a3", "d2", "b1", "b2", "c1"}
ForkParent == [g |-> "zero", a1 |-> "g", a2 |-> "a1", a3 |-> "a2", d2 |-> "a1",
               b1 |-> "g", b2 |-> "b1", c1 |-> "g"]
ForkHeight == [g |-> 0, a1 |-> 1, a2 |-> 2, a3 |-> 3, d2 |-> 2, b1 |-> 1, b2 |-> 2,
               c1 |-> 1]
(* t1 is in blocks of two branches, t2 in two blocks of one branch.        *)
ForkTxs == [g |-> {"t0"}, a1 |-> {"t1"}, a2 |-> {"t2"}, a3 |-> {}, d2 |-> {},
            b1 |-> {"t1", "t2"}, b2 |-> {}, c1 |-> {"t2"}]

(* Nested: the branch that starts at f forks again below it.               *)
NestedBlocks == {"g", "f", "f1", "f2", "x", "n", "z"}
NestedParent == [g |-> "zero", f |-> "g", f1 |-> "f", f2 |-> "f", x |-> "g",
                 n |-> "f1", z |-> "g"]
NestedHeight == [g |-> 0, f |-> 1, f1 |-> 2, f2 |-> 2, x |-> 1, n |-> 3, z |-> 1]
NestedTxs == [b \in NestedBlocks |-> {}]

(* Pair: one block on top of Genesis, which the callers may store twice.   *)
PairBlocks == {"g", "a1"}
PairParent == [g |-> "zero", a1 |-> "g"]
PairHeight == [g |-> 0, a1 |-> 1]
PairTxs == [g |-> {"t0"}, a1 |-> {"t1", "t2"}]
=============================================================================
