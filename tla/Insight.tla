------------------------------- MODULE Insight -------------------------------
(***************************************************************************)
(* The indexer around Sync (insight.js, lib/HistoricSync.js,               *)
(* lib/PeerSync.js): one process that copies the chain of a blackcoin node *)
(* block by block over RPC (historic sync) while it handles the blocks that*)
(* node announces (p2p).  Both call storeTipBlock on one database, and     *)
(* nothing keeps their calls apart.                                        *)
(***************************************************************************)
EXTENDS Sync, Sequences

CONSTANTS
  Historic,  \* the caller that is HistoricSync; the others are PeerSync's
  Trust,     \* chain trust: the node's best block is the one that has most
  MaxWire    \* bound: announced blocks that were not handled yet

Peers == Callers \ {Historic}

ASSUME InsightAssumption ==
  /\ Historic \in Callers
  /\ Trust \in [Blocks -> Nat]
  /\ MaxWire \in Nat
  /\ AllowModes = BOOLEAN

VARIABLES
  best,          \* the best block of the blackcoin node (external)
  wire,          \* blocks on their way from the node to PeerSync (external)
  reorgsAllowed, \* peerSync.allowReorgs
  status,        \* historicSync.status
  hpc,           \* the operation that HistoricSync is waiting for
  chainHeight,   \* blockChainHeight
  cursor,        \* currentRpcHash
  got,           \* blockInfo.hash, the block being stored; tip in updateStartBlock
  oldtip,        \* oldtip of updateStartBlock
  found,         \* what updateStartBlock's blockInfo says of got
  unconfirm      \* toChange of handleBlockChange(oldtip)

nodeVars == <<best, wire>>
startVars == <<oldtip, found, unconfirm>>
historicVars == <<reorgsAllowed, status, hpc, chainHeight, cursor, got, startVars>>
insightVars == <<vars, nodeVars, historicVars>>

HistoricOps == {"check", "height", "tip", "info", "orphMain", "orphScan", "orphTxs",
                "fetch", "store", "setTip"}

Answers == {"onChain", "orphan", "nothing"}

InsightTypeOK ==
  /\ TypeOK
  /\ best \in Blocks
  /\ wire \in Seq(Blocks) /\ Len(wire) <= MaxWire
  /\ reorgsAllowed \in BOOLEAN
  /\ status \in {"starting", "syncing", "error", "finished"}
  /\ hpc \in HistoricOps \cup {"idle"}
  /\ chainHeight \in Nat
  /\ {cursor, got, oldtip} \subseteq Blocks \cup {Null}
  /\ found \in Answers
  /\ unconfirm \subseteq Txs

(* insight.js starts a historic sync at once.                              *)
InsightInit ==
  /\ Init
  /\ best = Genesis /\ wire = << >>
  /\ reorgsAllowed = FALSE
  /\ status = "starting" /\ hpc = "check"
  /\ chainHeight = 0 /\ cursor = Null /\ got = Null
  /\ oldtip = Null /\ found = "nothing" /\ unconfirm = {}

BootAgain ==
  /\ UNCHANGED best /\ wire' = << >>
  /\ reorgsAllowed' = FALSE
  /\ status' = "starting" /\ hpc' = "check"
  /\ chainHeight' = 0 /\ cursor' = Null /\ got' = Null
  /\ oldtip' = Null /\ found' = "nothing" /\ unconfirm' = {}

Reboot == Restart /\ BootAgain

-----------------------------------------------------------------------------
(* The blackcoin node                                                      *)

(* A block on top of the best one, or the top of another branch with more  *)
(* trust, becomes the best block.  Only that one is announced.             *)
Mine(b) ==
  /\ Parent[b] = best \/ best \notin Lineage(b)
  /\ Trust[b] > Trust[best] /\ Len(wire) < MaxWire
  /\ best' = b
  /\ wire' = Append(wire, b)
  /\ UNCHANGED <<vars, historicVars>>

(* The connection breaks: what was not delivered is not sent again.        *)
Disconnect ==
  /\ "disconnect" \in Faults /\ wire # << >>
  /\ wire' = << >>
  /\ UNCHANGED <<vars, best, historicVars>>

OnChain(b) == b \in Lineage(best)

(* nextblockhash in the answer of getBlock.                                *)
NextOnChain(b) ==
  IF OnChain(b) /\ b # best
  THEN CHOOSE n \in Children(b) : OnChain(n)
  ELSE Null

-----------------------------------------------------------------------------
(* HistoricSync                                                            *)

HGoto(op) == hpc' = op
RpcFails == "rpcError" \in Faults
DbFails == "dbError" \in Faults

(* start calls back, with or without an error: insight.js then lets p2p    *)
(* blocks reorganise the chain.                                            *)
Done(s) == status' = s /\ HGoto("idle") /\ reorgsAllowed' = TRUE

CheckNetworkSettings ==
  /\ hpc = "check"
  /\ HGoto("height")
  /\ UNCHANGED <<vars, nodeVars, reorgsAllowed, status, chainHeight, cursor, got, startVars>>

UpdateBlockChainHeight ==
  /\ hpc = "height"
  /\ chainHeight' = Height[best]
  /\ HGoto("tip")
  /\ UNCHANGED <<vars, nodeVars, reorgsAllowed, status, cursor, got, startVars>>

(* prepareRpcSync, then the loop of start begins.                          *)
StartFrom(b) ==
  /\ cursor' = b
  /\ status' = "syncing" /\ HGoto("fetch")
  /\ got' = Null /\ oldtip' = Null /\ found' = "nothing" /\ unconfirm' = {}

(* updateStartBlock: is the tip still on the chain of the node?  An error  *)
(* of getTip reads as no tip.                                              *)
ReadTip ==
  /\ hpc = "tip"
  /\ \/ (tip = Null \/ DbFails) /\ StartFrom(Genesis)
     \/ /\ tip # Null
        /\ got' = tip /\ HGoto("info") /\ UNCHANGED <<status, cursor, startVars>>
  /\ UNCHANGED <<vars, nodeVars, reorgsAllowed, chainHeight>>

(* Mutant: the test of the doWhilst always holds.                          *)
StepBackForever(answer) ==
  /\ answer # "nothing"
  /\ oldtip' = got /\ got' = Parent[got] /\ HGoto("info")
  /\ found' = "nothing" /\ unconfirm' = {} /\ UNCHANGED <<status, cursor>>

(* The test of its doWhilst.  Without an answer it has no previous block to*)
(* go back to, and its assertion ends the process.                         *)
StepBack(answer) ==
  \/ answer = "onChain" /\ StartFrom(got)
  \/ /\ answer = "orphan"
     /\ oldtip' = got /\ got' = Parent[got] /\ HGoto("info")
     /\ found' = "nothing" /\ unconfirm' = {} /\ UNCHANGED <<status, cursor>>

SameForStart == UNCHANGED <<nodeVars, reorgsAllowed, chainHeight>>

TipInfo ==
  /\ hpc = "info"
  /\ \E answer \in Answers :
       /\ IF answer = "nothing"
          THEN RpcFails \/ DbFails
          ELSE answer = "onChain" <=> (chainHeight = Height[got] \/ OnChain(got))
       /\ IF oldtip # Null
          THEN /\ found' = answer /\ HGoto("orphMain") /\ SameForStart
               /\ UNCHANGED <<vars, status, cursor, got, oldtip, unconfirm>>
          ELSE IF answer = "nothing"
               THEN Reboot
               ELSE StepBack(answer) /\ SameForStart /\ UNCHANGED vars

(* Mutant: oldtip stays main.                                              *)
OldTipMainKept ==
  /\ hpc = "orphMain"
  /\ SetMain(oldtip, TRUE)
  /\ HGoto("orphScan")
  /\ SameForStart
  /\ UNCHANGED <<txVars, pc, callVars, stray, missed, status, cursor, got, startVars>>

(* setBlockMain(oldtip, false)                                             *)
OldTipMain ==
  /\ hpc = "orphMain"
  /\ SetMain(oldtip, FALSE)
  /\ HGoto("orphScan")
  /\ SameForStart
  /\ UNCHANGED <<txVars, pc, callVars, stray, missed, status, cursor, got, startVars>>

OldTipScan ==
  /\ hpc = "orphScan"
  /\ unconfirm' = TxsFromBlock(oldtip)
  /\ HGoto("orphTxs")
  /\ SameForStart
  /\ UNCHANGED <<vars, status, cursor, got, oldtip, found>>

(* Mutant: the flags are written as if the block were connected.           *)
OldTipTxsKept ==
  /\ hpc = "orphTxs"
  /\ WriteConfirmations(oldtip, unconfirm, TRUE)
  /\ StepBack(found)
  /\ SameForStart
  /\ UNCHANGED <<blockVars, pc, callVars, stray, missed>>

OldTipTxs ==
  /\ hpc = "orphTxs"
  /\ WriteConfirmations(oldtip, unconfirm, FALSE)
  /\ StepBack(found)
  /\ SameForStart
  /\ UNCHANGED <<blockVars, pc, callVars, stray, missed>>

(* The same write, but then the assertion fails.                           *)
OldTipLost ==
  /\ hpc = "orphTxs" /\ found = "nothing"
  /\ WriteConfirmations(oldtip, unconfirm, FALSE)
  /\ UNCHANGED <<blockVars, missed>>
  /\ Halt /\ BootAgain

(* prepareToSync's final callback on an error: start's is not called.      *)
PrepareFails ==
  /\ \/ hpc = "check" /\ (RpcFails \/ DbFails)
     \/ hpc \in {"orphMain", "orphScan", "orphTxs"} /\ DbFails
  /\ status' = "error" /\ HGoto("idle")
  /\ SameForStart /\ UNCHANGED <<vars, cursor, got, startVars>>

(* updateBlockChainHeight reads a field of an answer that is not there.    *)
HeightFails == hpc = "height" /\ RpcFails /\ Reboot

(* Mutant: currentRpcHash does not move on.                                *)
FetchSame ==
  /\ hpc = "fetch" /\ cursor # Null
  /\ Call(Historic, cursor, FALSE)
  /\ got' = cursor
  /\ HGoto("store")
  /\ UNCHANGED <<nodeVars, reorgsAllowed, status, chainHeight, cursor, startVars>>

(* getBlockFromRPC, and storeTipBlock with what it returned.               *)
Fetch ==
  /\ hpc = "fetch" /\ cursor # Null
  /\ Call(Historic, cursor, FALSE)
  /\ got' = cursor
  /\ cursor' = NextOnChain(cursor)
  /\ HGoto("store")
  /\ UNCHANGED <<nodeVars, reorgsAllowed, status, chainHeight, startVars>>

FetchFails ==
  /\ \/ hpc = "fetch" /\ cursor # Null /\ RpcFails
     \/ hpc = "setTip" /\ DbFails
  /\ Done("error")
  /\ UNCHANGED <<vars, nodeVars, chainHeight, cursor, got, startVars>>

Finish ==
  /\ hpc = "fetch" /\ cursor = Null
  /\ Done("finished")
  /\ got' = Null
  /\ UNCHANGED <<vars, nodeVars, chainHeight, cursor, startVars>>

(* The callback of storeTipBlock; a block that exists is no error.         *)
Stored ==
  /\ SetNextStep(Historic) \/ (Has(blk[Historic]) /\ HasBlock(Historic))
  /\ HGoto("setTip")
  /\ UNCHANGED <<nodeVars, reorgsAllowed, status, chainHeight, cursor, got, startVars>>

(* Mutant: the error of storeTipBlock is dropped.                          *)
StoreFailsIgnored ==
  /\ DbError(Historic) \/ \E t \in Txs : FailTx(Historic, t)
  /\ HGoto("setTip")
  /\ UNCHANGED <<nodeVars, reorgsAllowed, status, chainHeight, cursor, got, startVars>>

StoreFails ==
  /\ DbError(Historic) \/ \E t \in Txs : FailTx(Historic, t)
  /\ Done("error")
  /\ UNCHANGED <<nodeVars, chainHeight, cursor, got, startVars>>

SetHistoricTip ==
  /\ hpc = "setTip"
  /\ SetTip(got)
  /\ HGoto("fetch")
  /\ UNCHANGED <<txVars, pc, callVars, stray, missed, nodeVars,
                 reorgsAllowed, status, chainHeight, cursor, got, startVars>>

(* The other steps of its call of storeTipBlock.                           *)
Storing ==
  /\ \/ ~Has(blk[Historic]) /\ HasBlock(Historic)
     \/ TxsStored(Historic) \/ Add(Historic)
     \/ \E t \in Txs : StoreTx(Historic, t) \/ MissTx(Historic, t)
  /\ UNCHANGED <<nodeVars, historicVars>>

-----------------------------------------------------------------------------
(* PeerSync                                                                *)

(* handleBlock.                                                            *)
HandleBlock(p) ==
  /\ wire # << >>
  /\ Call(p, Head(wire), reorgsAllowed)
  /\ wire' = Tail(wire)
  /\ UNCHANGED <<best, historicVars>>

(* Its callback on NEED_SYNC: historicSync.start, which does nothing when a*)
(* sync is running.                                                        *)
NeedSync(p) ==
  /\ HasPrev(p) /\ PrevMissing(p)
  /\ IF status \in {"starting", "syncing"}
     THEN UNCHANGED <<status, hpc>>
     ELSE status' = "starting" /\ HGoto("check")
  /\ UNCHANGED <<nodeVars, reorgsAllowed, chainHeight, cursor, got, startVars>>

PeerProgress(p) ==
  \/ NeedSync(p)
  \/ /\ \/ ~(pc[p] = "hasPrev" /\ PrevMissing(p)) /\ Progress(p)
        \/ DbError(p)
     /\ UNCHANGED <<nodeVars, historicVars>>

-----------------------------------------------------------------------------
(* The process stops and boots again: at any step, or only when nothing is *)
(* in flight.                                                              *)
Quiet == (\A c \in Callers : pc[c] = "idle") /\ hpc = "idle" /\ stray = {}

CrashAndBoot ==
  /\ "crash" \in Faults \/ ("restart" \in Faults /\ Quiet)
  /\ Reboot

HistoricProgress ==
  \/ CheckNetworkSettings \/ UpdateBlockChainHeight \/ ReadTip \/ TipInfo
  \/ OldTipMain \/ OldTipScan \/ OldTipTxs \/ OldTipLost \/ PrepareFails \/ HeightFails
  \/ Fetch \/ FetchFails \/ Finish \/ Stored \/ StoreFails \/ SetHistoricTip \/ Storing

InsightStep ==
  \/ Disconnect
  \/ HistoricProgress
  \/ \E p \in Peers : HandleBlock(p) \/ PeerProgress(p)
  \/ \E t \in Txs, b \in Blocks :
       StrayTx(t, b) /\ UNCHANGED <<nodeVars, historicVars>>
  \/ CrashAndBoot

InsightNext == (\E b \in Blocks : Mine(b)) \/ InsightStep

InsightSpec == InsightInit /\ [][InsightNext]_insightVars

(* Every operation that was issued calls back, and delivered blocks are    *)
(* handled; nothing obliges the node to find blocks.                       *)
InsightFairSpec ==
  /\ InsightSpec
  /\ WF_insightVars(HistoricProgress)
  /\ \A p \in Peers : WF_insightVars(PeerProgress(p)) /\ WF_insightVars(HandleBlock(p))
=============================================================================
