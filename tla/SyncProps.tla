------------------------------ MODULE SyncProps ------------------------------
(***************************************************************************)
(* What Sync promises.  The first group holds whatever the callers do, with*)
(* every fault; the second only for one call at a time.                    *)
(***************************************************************************)
EXTENDS Sync

Idle == \A c \in Callers : pc[c] = "idle"
MainBlocks == {b \in Blocks : IsMain(b)}

-----------------------------------------------------------------------------
(* Any number of calls in flight                                           *)

(* createFromBlock runs before add: a stored block has all its transactions*)
(* recorded, except those the node answered nothing for, whatever calls of *)
(* the same block, errors and crashes came in between.                     *)
StoredBlockTxs ==
  \A b \in Blocks : Has(b) => \A t \in Wanted(b) : <<b, t>> \in fromBlk \cup missed

(* A confirmation that is on can be taken back: the tx- key by which       *)
(* handleBlockChange finds it exists, although both are written and        *)
(* rewritten in separate batches by separate calls.                        *)
ConfirmedCanBeUndone ==
  \A t \in Txs, b \in Blocks : <<t, b>> \in inBlk => <<b, t>> \in fromBlk

(* A next pointer, written by storeTipBlock and by processReorg from a walk*)
(* whose flags may change under it, leads to a child and so never in a     *)
(* circle, which setBranchOrphan's loop needs to end.                      *)
NextIsChild == \A k \in Hashes \ {Null} : next[k] # Null => Parent[next[k]] = k

(* Where every caller passes allowReorgs: setBranchConnectedBackwards only *)
(* ever declares main a block that is stored.                              *)
NoPhantomMain == \A b \in Blocks : IsMain(b) => Has(b)

(* Every call answers its callback: no walk over next or prev pointers that*)
(* other calls rewrite meanwhile goes on forever.                          *)
CallReturns == \A c \in Callers : pc[c] # "idle" ~> pc[c] = "idle"

(* "Ignoring already existing block" (lib/Sync.js:87): storing a block that *)
(* is stored, or being stored, changes nothing; the tip stays main.  Not   *)
(* so when the two calls overlap: see SyncTwice.cfg.                       *)
TipIsMain == Idle /\ tip # Null => IsMain(tip)

-----------------------------------------------------------------------------
(* One call at a time                                                      *)

(* Spec where no operation fails and the process does not stop.            *)
SerialNext == \E c \in Callers :
  \/ \E b \in Blocks, allow \in AllowModes : Call(c, b, allow)
  \/ Store(c) \/ Reorg(c)

SerialSpec == Init /\ [][SerialNext]_vars

(* The branch that a call for b would reconnect was not forked again after *)
(* it was orphaned: its next pointers still lead up to b's parent.  See    *)
(* SyncNestedFork.cfg for what happens otherwise.                          *)
StraightBranch(b) ==
  Has(Parent[b]) => \A h \in Lineage(Parent[b]) \ {Parent[b]} :
                       IsMain(h) \/ next[h] \in Lineage(Parent[b])

StraightNext == \E c \in Callers :
  \/ \E b \in Blocks, allow \in AllowModes : StraightBranch(b) /\ Call(c, b, allow)
  \/ Store(c) \/ Reorg(c)

StraightSpec == Init /\ [][StraightNext]_vars

(* Trees in which every branch is straight: all branches start at one block.*)
OneFork == \A x, y, v, w \in Blocks :
  x # y /\ v # w /\ Parent[x] = Parent[y] /\ Parent[v] = Parent[w] => Parent[x] = Parent[v]

(* Between calls the blocks flagged main are exactly the tip and its       *)
(* ancestors: "Declare D-E orphans", "Set F-G as connected" (lib/Sync.js,  *)
(* header of storeTipBlock).                                               *)
MainIsLineage == Idle /\ tip # Null => MainBlocks = Lineage(tip)

(* Between calls the next pointers of the main chain lead from Genesis to  *)
(* the tip, as the API's nextblockhash and the next reorg rely on.         *)
NextFollowsMain ==
  Idle /\ tip # Null =>
    \A b \in Lineage(tip) : IF b = tip THEN next[b] = Null ELSE next[b] \in Lineage(tip)

(* Between calls a transaction of a stored block counts as confirmed in it *)
(* exactly when the block is main: the flags of handleBlockChange follow   *)
(* those of setMain through any sequence of reorganisations.               *)
ConfirmedIffMain ==
  Idle => \A b \in Blocks : Has(b) =>
            \A t \in Wanted(b) : <<b, t>> \in missed \/ (<<t, b>> \in inBlk <=> IsMain(b))

(* No step of a reorganisation makes an orphan of an ancestor of the block *)
(* that is becoming the tip, not even for a moment.                        *)
LineageSpared ==
  \A c \in Callers : pc[c] # "idle" =>
    \A h \in Lineage(blk[c]) : IsMain(h) => IsMain(h)'

ReorgSparesLineage == [][LineageSpared]_vars

(* storeTipBlock implements ChainIndex; a block is adopted when its call   *)
(* sets the tip, and until the call ends what a reader may see of the      *)
(* chain is mapped to what it will be.                                     *)
InFlight == {blk[c] : c \in {d \in Callers : pc[d] \in ReorgOps \cup {"setTip"}}}

PromisedChain == IF tip = Null THEN {} ELSE Lineage(tip)

(* A transaction that was missed counts with its block.                    *)
Credited == {p \in Txs \X MainBlocks : <<p[2], p[1]>> \in missed}

Adopted == {b \in Blocks : Has(b)} \ InFlight
VisibleChain == IF Idle THEN MainBlocks ELSE PromisedChain
VisibleConfirmed ==
  IF Idle THEN inBlk \cup Credited
  ELSE {p \in Txs \X PromisedChain : p[1] \in Wanted(p[2])}

Chain == INSTANCE ChainIndex WITH
  Wanted <- Wanted, known <- Adopted, head <- tip,
  chain <- VisibleChain, confirmed <- VisibleConfirmed

ImplementsChainIndex == Chain!Spec
=============================================================================
