---------------------------- MODULE InsightProps ----------------------------
(***************************************************************************)
(* What the indexer promises as a whole.                                   *)
(***************************************************************************)
EXTENDS Insight

(* There is no hole below the tip.  Historic sync gets its tip by following*)
(* nextblockhash, p2p by checking the predecessor only, and blocks that p2p*)
(* stores while allowReorgs is false are not checked at all, although "NEW *)
(* is ignored (if allowReorgs is false)" (lib/Sync.js:65).  So with peers  *)
(* it fails as soon as an announced block is lost.                         *)
TipLineageStored == tip # Null => \A h \in Lineage(tip) : Has(h)

(* No block has two successors.                                            *)
OneBranch == \A x, y \in Blocks : Parent[x] = Parent[y] => x = y

(* A stored block that no call is working on is its predecessor's next     *)
(* block: HistoricSync and PeerSync may store the same block together, in  *)
(* any interleaving, with neither undoing the link of the other.           *)
StoredIsLinked ==
  \A b \in Blocks \ {Genesis} :
    Has(b) /\ (\A c \in Callers : blk[c] # b) => next[Parent[b]] = b

(* When a historic sync has finished and nothing is in flight, the main    *)
(* chain is the tip and its ancestors, and next pointers lead along it:    *)
(* updateStartBlock has taken back what the node gave up since last time.  *)
SettledChain ==
  Quiet /\ status = "finished" =>
    /\ {b \in Blocks : IsMain(b)} = Lineage(tip)
    /\ \A b \in Lineage(tip) \ {tip} : next[b] \in Lineage(tip)

(* The transactions of b count as confirmed in it exactly when it is main, *)
(* but for those that the node did not answer for.                         *)
FlagsAgree(b) ==
  IF IsMain(b) THEN \A t \in Wanted(b) : <<t, b>> \in inBlk \/ <<b, t>> \in missed
               ELSE \A t \in Wanted(b) : <<t, b>> \notin inBlk

(* Between historic syncs no transaction is confirmed in a stored block    *)
(* that is not main, nor left unconfirmed in one that is: where the process*)
(* ends in the middle of updateStartBlock for want of an answer, a block   *)
(* and its transactions have both lost their flags, or neither.            *)
SettledConfirmations == Quiet => \A b \in Blocks : Has(b) => FlagsAgree(b)

(* The node goes over to no branch of which the index has stored blocks and*)
(* has given them up: storeTipBlock takes them for known and leaves them   *)
(* orphans.  Nor, where an RPC error may stop updateStartBlock half way, to*)
(* a best block that is not higher than the last one, as updateStartBlock  *)
(* takes every tip of the node's height for a block of its chain.          *)
NewBranch ==
  /\ \A h \in Lineage(best') : Has(h) => OnChain(h)
  /\ RpcFails => Height[best'] > Height[best]

SettledNext == (\E b \in Blocks : Mine(b) /\ NewBranch) \/ InsightStep
SettledSpec == InsightInit /\ [][SettledNext]_insightVars

(* A historic sync ends, however many blocks the node and the peers add    *)
(* meanwhile, and p2p blocks may reorganise the chain from then on.        *)
SyncEnds == status \in {"starting", "syncing"} ~> status = "finished" /\ reorgsAllowed

(* "Set F-G as connected" (lib/Sync.js:57): when nothing is in flight, the *)
(* ancestors of the tip are main.  Not so when a p2p block slips in        *)
(* between the last fetch and the end of the first sync: InsightHandover.  *)
SettledAncestors == Quiet /\ tip # Null => \A h \in Lineage(tip) : Has(h) => IsMain(h)
=============================================================================
