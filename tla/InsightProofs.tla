---------------------------- MODULE InsightProofs ----------------------------
(***************************************************************************)
(* Theorems about Insight: historic sync and any number of p2p calls on one*)
(* database, for every tree of blocks and every order in which the node    *)
(* goes from one branch to another.                                        *)
(***************************************************************************)
EXTENDS InsightProps, SyncProofs, TreeProofs

-----------------------------------------------------------------------------
(* Types                                                                   *)

(* The state of the node and of HistoricSync.                              *)
HistoricTypes ==
  /\ best \in Blocks
  /\ wire \in Seq(Blocks) /\ Len(wire) <= MaxWire
  /\ reorgsAllowed \in BOOLEAN
  /\ status \in {"starting", "syncing", "error", "finished"}
  /\ hpc \in HistoricOps \cup {"idle"}
  /\ chainHeight \in Nat
  /\ {cursor, got, oldtip} \subseteq Blocks \cup {Null}
  /\ found \in Answers
  /\ unconfirm \subseteq Txs

OrphanOps == {"orphMain", "orphScan", "orphTxs"}

(* The blocks that an operation of HistoricSync is about are there; it     *)
(* steps back only from a block that has a predecessor.                    *)
HistoricBlocks ==
  /\ tip # Zero
  /\ hpc \in OrphanOps \cup {"info", "store", "setTip"} => got \in Blocks
  /\ hpc \in OrphanOps => oldtip \in Blocks /\ (found = "orphan" => got # Genesis)
                          /\ (found = "nothing" => RpcFails \/ DbFails)

(* Its call of storeTipBlock is in flight only while it waits for it, and  *)
(* takes the short way.                                                    *)
HistoricCall ==
  /\ status \notin {"starting", "syncing"} => hpc = "idle"
  /\ pc[Historic] # "idle" =>
       hpc = "store" /\ blk[Historic] = got /\ ~allowReorgs[Historic]
  /\ pc[Historic] \in {"idle", "hasBlock", "createTxs", "add", "setNext"}
  /\ ~needReorg[Historic]

HistoricInv == HistoricTypes /\ HistoricBlocks /\ HistoricCall

InsightInv == TypeInv /\ LinkInv /\ HistoricInv

LEMMA InitInsightInv == InsightInit => InsightInv
<1> SUFFICES ASSUME InsightInit PROVE InsightInv
  OBVIOUS
<1>1. TypeInv /\ LinkInv
  BY InitTypeInv, InitLinkInv DEF InsightInit
<1>2. HistoricTypes
  <2>1. wire \in Seq(Blocks) /\ Len(wire) = 0
    BY DEF InsightInit
  <2>2. 0 <= MaxWire
    BY InsightAssumption
  <2> QED
    BY <2>1, <2>2, BlocksAssumption
       DEF InsightInit, HistoricTypes, HistoricOps, Answers
<1>3. HistoricBlocks
  BY BlocksAssumption DEF InsightInit, Init, BlockDbInit, HistoricBlocks, OrphanOps
<1>4. HistoricCall
  BY InsightAssumption DEF InsightInit, Init, HistoricCall
<1> QED
  BY <1>1, <1>2, <1>3, <1>4 DEF InsightInv, HistoricInv

-----------------------------------------------------------------------------
(* What the steps of Insight are to Sync                                   *)

(* The writes of HistoricSync that are not storeTipBlock's.                *)
HistoricWrites == SetHistoricTip \/ OldTipMain \/ OldTipTxs

(* The process stops and boots again, with the records of the blocks, but  *)
(* not always the confirmations, as they were.                             *)
Stops ==
  /\ Halt /\ BootAgain /\ UNCHANGED <<blockVars, fromBlk, missed>>
  /\ inBlk' \in SUBSET inBlk

LEMMA HowItStops ==
  ASSUME Reboot \/ OldTipLost
  PROVE  Stops
BY DEF Reboot, Restart, OldTipLost, WriteConfirmations, Stops, SameDb, txVars

(* But for a crash, the process is stopped only by a read that fails.      *)
LEMMA InsightStepsGoOn ==
  ASSUME InsightNext, HistoricInv, ~CrashAndBoot
  PROVE  [Next]_vars \/ HistoricWrites \/ ((RpcFails \/ DbFails) /\ Stops)
<1>1. ASSUME HistoricProgress
      PROVE  [Next]_vars \/ HistoricWrites \/ ((RpcFails \/ DbFails) /\ Stops)
  <2>1. CASE Fetch
    BY <2>1, InsightAssumption DEF Fetch, Next, HistoricInv, HistoricTypes
  <2>2. CASE Stored \/ StoreFails \/ Storing
    BY <2>2, InsightAssumption DEF Stored, StoreFails, Storing, Next, Progress, Store, Fail
  <2>3. CASE TipInfo
    BY <2>3, HowItStops DEF TipInfo
  <2>4. CASE OldTipLost \/ HeightFails
    <3>1. RpcFails \/ DbFails
      BY <2>4 DEF OldTipLost, HeightFails, HistoricInv, HistoricBlocks, OrphanOps
    <3> QED
      BY <2>4, <3>1, HowItStops DEF HeightFails
  <2>5. CASE \/ CheckNetworkSettings \/ UpdateBlockChainHeight \/ ReadTip \/ OldTipScan
             \/ PrepareFails \/ FetchFails \/ Finish
    BY <2>5 DEF CheckNetworkSettings, UpdateBlockChainHeight, ReadTip, OldTipScan,
                PrepareFails, FetchFails, Finish
  <2> QED
    BY <1>1, <2>1, <2>2, <2>3, <2>4, <2>5 DEF HistoricProgress, HistoricWrites
<1>2. ASSUME NEW p \in Peers, HandleBlock(p) PROVE [Next]_vars
  <2>1. Head(wire) \in Blocks
    BY <1>2 DEF HandleBlock, HistoricInv, HistoricTypes
  <2> QED
    BY <1>2, <2>1, InsightAssumption DEF HandleBlock, Next, Peers, HistoricInv, HistoricTypes
<1>3. ASSUME NEW p \in Peers, PeerProgress(p) PROVE [Next]_vars
  BY <1>3 DEF PeerProgress, NeedSync, Next, Progress, Store, Fail, Peers
<1>4. ASSUME NEW t \in Txs, NEW b \in Blocks, StrayTx(t, b) PROVE [Next]_vars
  BY <1>4 DEF Next
<1>5. ASSUME Disconnect \/ \E b \in Blocks : Mine(b) PROVE UNCHANGED vars
  BY <1>5 DEF Disconnect, Mine
<1> QED
  BY <1>1, <1>2, <1>3, <1>4, <1>5 DEF InsightNext, InsightStep

LEMMA InsightSteps ==
  ASSUME InsightNext, HistoricInv
  PROVE  [Next]_vars \/ HistoricWrites \/ Stops
BY InsightStepsGoOn, HowItStops DEF CrashAndBoot

LEMMA StopTypes ==
  ASSUME TypeInv, LinkInv, Stops
  PROVE  TypeInv' /\ LinkInv'
<1>1. TypeInv'
  BY DEF Stops, Halt, blockVars, TypeInv, TypeOK, ScanFound, BlockDbTypeOK, ConfirmDbTypeOK,
         Hashes
<1>2. LinkInv'
  BY DEF Stops, Halt, blockVars, LinkInv, PrevIsParent, NextIsBlock, WalkAdjacent
<1> QED
  BY <1>1, <1>2

LEMMA HistoricWritesTypes ==
  ASSUME InsightInv, HistoricWrites
  PROVE  TypeInv' /\ LinkInv'
<1> USE DEF InsightInv, callVars, argVars, tipVars, walkVars, txVars, blockVars
<1>1. UNCHANGED <<prev, next, fromBlk, pc, callVars, stray, missed>>
  BY DEF HistoricWrites, SetHistoricTip, SetTip, OldTipMain, SetMain, OldTipTxs,
         WriteConfirmations
<1>2. main' \in [Hashes -> MainFlags]
  BY DEF HistoricWrites, SetHistoricTip, SetTip, OldTipMain, SetMain, OldTipTxs, TypeInv,
         TypeOK, BlockDbTypeOK, MainFlags
<1>3. tip' \in Hashes
  BY DEF HistoricWrites, SetHistoricTip, SetTip, OldTipMain, SetMain, OldTipTxs, TypeInv,
         TypeOK, BlockDbTypeOK, Hashes, HistoricInv, HistoricTypes
<1>4. inBlk' \in SUBSET (Txs \X Blocks)
  BY DEF HistoricWrites, SetHistoricTip, OldTipMain, OldTipTxs, WriteConfirmations, TypeInv,
         TypeOK, ConfirmDbTypeOK
<1>5. TypeInv'
  BY <1>1, <1>2, <1>3, <1>4 DEF TypeInv, TypeOK, ScanFound, BlockDbTypeOK, ConfirmDbTypeOK
<1>6. LinkInv'
  BY <1>1 DEF LinkInv, PrevIsParent, NextIsBlock, WalkAdjacent
<1> QED
  BY <1>5, <1>6

LEMMA SyncStateKept ==
  ASSUME InsightInv, [InsightNext]_insightVars
  PROVE  TypeInv' /\ LinkInv'
<1>1. CASE UNCHANGED insightVars
  BY <1>1, NextTypeInv, NextLinkInv DEF insightVars, InsightInv
<1>2. CASE InsightNext
  BY <1>2, InsightSteps, NextTypeInv, NextLinkInv, StopTypes, HistoricWritesTypes
     DEF InsightInv
<1> QED
  BY <1>1, <1>2
-----------------------------------------------------------------------------
(* Steps of the p2p calls, of the node, and restarts                       *)

SameCall(c) ==
  /\ pc'[c] = pc[c] /\ blk'[c] = blk[c]
  /\ allowReorgs'[c] = allowReorgs[c] /\ needReorg'[c] = needReorg[c]

(* A call of storeTipBlock moves no other call, and makes only blocks the  *)
(* tip.                                                                    *)
LEMMA ProgressOfOne ==
  ASSUME TypeInv, NEW p \in Callers, Progress(p)
  PROVE  /\ \A c \in Callers \ {p} : SameCall(c)
         /\ tip' = tip \/ tip' \in Blocks
<1> USE DEF TypeInv, TypeOK, SameCall, Goto, Return, SameDb, SameBackground, blockVars,
            callVars, argVars, tipVars, walkVars
<1>1. CASE Store(p)
  <2>1. ASSUME NEW t \in Txs, StoreTx(p, t) \/ MissTx(p, t)
        PROVE  UNCHANGED <<pc, blk, allowReorgs, needReorg, tip>>
    BY <2>1 DEF StoreTx, MissTx
  <2>2. CASE HasBlock(p) \/ HasPrev(p)
    BY <2>2 DEF HasBlock, HasPrev, BeginTxs
  <2>3. CASE TxsStored(p) \/ GetTip(p) \/ GetNext(p)
    BY <2>3 DEF TxsStored, GetTip, GetNext
  <2>4. CASE Add(p) \/ SetTipStep(p) \/ SetNextStep(p)
    BY <2>4 DEF Add, AddBlock, SetTipStep, SetTip, SetNextStep, SetNext
  <2> QED
    BY <1>1, <2>1, <2>2, <2>3, <2>4 DEF Store
<1>2. CASE Reorg(p)
  <2> USE DEF BeginOrphan, BeginConnect, FlagBlock, SetMain, ScanTxs, WriteTxs
  <2>1. CASE ReorgIsMain(p) \/ ConnMain(p) \/ ConnScan(p) \/ ConnTxs(p)
    BY <2>1 DEF ReorgIsMain, ConnMain, ConnScan, ConnTxs
  <2>2. CASE ConnPrev(p) \/ ConnIsMain(p) \/ ForkNext(p) \/ ForkLink(p)
    BY <2>2 DEF ConnPrev, ConnIsMain, ForkNext, ForkLink, SetNext
  <2>3. CASE OrphMain(p) \/ OrphScan(p) \/ OrphTxs(p) \/ OrphNext(p)
    BY <2>3 DEF OrphMain, OrphScan, OrphTxs, OrphNext
  <2> QED
    BY <1>2, <2>1, <2>2, <2>3 DEF Reorg
<1>3. CASE Fail(p)
  BY <1>3 DEF Fail, DbError, DbErrorIgnored, BeginConnect, FailTx
<1> QED
  BY <1>1, <1>2, <1>3 DEF Progress

LEMMA GenesisOnChain ==
  ASSUME HistoricTypes
  PROVE  OnChain(Genesis)
BY GenesisInLineage DEF HistoricTypes, OnChain

LEMMA NextOnChainIsChild ==
  ASSUME HistoricTypes, NEW b \in Blocks
  PROVE  \/ NextOnChain(b) = Null
         \/ NextOnChain(b) \in Blocks /\ Parent[NextOnChain(b)] = b
<1>1. ASSUME OnChain(b), b # best PROVE \E n \in Children(b) : OnChain(n)
  BY <1>1, ChildOnTheWay DEF HistoricTypes, OnChain, Children
<1> QED
  BY <1>1 DEF NextOnChain, Children

LEMMA PeersInv ==
  ASSUME InsightInv, NEW p \in Peers, HandleBlock(p) \/ PeerProgress(p)
  PROVE  HistoricInv'
<1> USE InsightAssumption
    DEF InsightInv, HistoricInv, Peers, historicVars, startVars, nodeVars, SameCall
<1>1. CASE HandleBlock(p)
  <2> USE <1>1 DEF HandleBlock, Call, Goto, SameDb, blockVars, tipVars
  <2>1. HistoricTypes'
    <3>1. Tail(wire) \in Seq(Blocks) /\ Len(Tail(wire)) <= MaxWire
      BY DEF HistoricTypes
    <3> QED
      BY <3>1 DEF HistoricTypes
  <2>2. HistoricBlocks'
    BY DEF HistoricBlocks
  <2>3. SameCall(Historic)
    BY DEF TypeInv, TypeOK
  <2> QED
    BY <2>1, <2>2, <2>3 DEF HistoricCall
<1>2. CASE PeerProgress(p)
  <2>1. Progress(p)
    BY <1>2 DEF PeerProgress, NeedSync, Progress, Store, Fail
  <2>2. SameCall(Historic) /\ tip' # Zero
    BY <2>1, ProgressOfOne, BlocksAssumption DEF HistoricBlocks
  <2>3. /\ UNCHANGED <<nodeVars, reorgsAllowed, chainHeight, cursor, got, startVars>>
        /\ \/ UNCHANGED <<status, hpc>>
           \/ status \notin {"starting", "syncing"} /\ status' = "starting" /\ hpc' = "check"
    BY <1>2 DEF PeerProgress, NeedSync, HGoto
  <2>4. HistoricTypes' /\ HistoricBlocks'
    BY <2>2, <2>3 DEF HistoricTypes, HistoricOps, HistoricBlocks, OrphanOps
  <2> QED
    BY <2>2, <2>3, <2>4 DEF HistoricCall
<1> QED
  BY <1>1, <1>2

LEMMA NodeStepInv ==
  ASSUME InsightInv, Disconnect \/ \E b \in Blocks : Mine(b)
  PROVE  HistoricInv'
<1> USE InsightAssumption DEF InsightInv, HistoricInv, historicVars, startVars, vars, blockVars,
            callVars, argVars, tipVars
<1>1. /\ UNCHANGED <<vars, historicVars>>
      /\ best' \in Blocks /\ wire' \in Seq(Blocks) /\ Len(wire') <= MaxWire
  <2>1. CASE Disconnect
    BY <2>1 DEF Disconnect, HistoricTypes
  <2>2. ASSUME NEW b \in Blocks, Mine(b)
        PROVE  /\ UNCHANGED <<vars, historicVars>>
               /\ best' \in Blocks /\ wire' \in Seq(Blocks) /\ Len(wire') <= MaxWire
    BY <2>2 DEF Mine, HistoricTypes
  <2> QED
    BY <2>1, <2>2
<1> QED
  BY <1>1 DEF HistoricTypes, HistoricBlocks, HistoricCall

LEMMA StopInv ==
  ASSUME InsightInv, Stops
  PROVE  HistoricInv'
<1> USE InsightAssumption DEF InsightInv, HistoricInv, Stops, Halt, BootAgain, blockVars
<1>1. wire' \in Seq(Blocks) /\ Len(wire') <= MaxWire
  <2>1. wire' \in Seq(Blocks) /\ Len(wire') = 0
    OBVIOUS
  <2> QED
    BY <2>1
<1>2. HistoricTypes'
  BY <1>1, BlocksAssumption DEF HistoricTypes, HistoricOps, Answers
<1> QED
  BY <1>2 DEF HistoricBlocks, HistoricCall, OrphanOps

-----------------------------------------------------------------------------
(* Steps of HistoricSync                                                   *)

LEMMA StepBackInv ==
  ASSUME InsightInv, SameForStart, UNCHANGED <<tip, pc, callVars>>, got \in Blocks,
         hpc \notin {"idle", "store"},
         NEW answer \in Answers, StepBack(answer), answer = "orphan" => got # Genesis
  PROVE  HistoricInv'
<1> USE DEF SameForStart, StepBack, StartFrom, HGoto, InsightInv, HistoricInv, nodeVars, callVars,
            argVars, tipVars, startVars
<1>1. HistoricTypes' /\ HistoricBlocks'
  BY TreeAssumption, BlocksAssumption
     DEF HistoricTypes, HistoricBlocks, HistoricOps, Answers, OrphanOps
<1> QED
  BY <1>1 DEF HistoricCall

LEMMA TipInfoInv ==
  ASSUME InsightInv, TipInfo
  PROVE  HistoricInv'
<1> USE DEF InsightInv, HistoricInv
<1>1. hpc = "info" /\ got \in Blocks
  BY DEF TipInfo, HistoricBlocks
<1>2. PICK answer \in Answers :
        /\ answer = "nothing" => RpcFails \/ DbFails
        /\ answer # "nothing" =>
              (answer = "onChain" <=> (chainHeight = Height[got] \/ OnChain(got)))
        /\ \/ /\ oldtip # Null
              /\ found' = answer /\ HGoto("orphMain") /\ SameForStart
              /\ UNCHANGED <<vars, status, cursor, got, oldtip, unconfirm>>
           \/ Reboot
           \/ StepBack(answer) /\ SameForStart /\ UNCHANGED vars
  BY DEF TipInfo
<1>3. answer = "orphan" => got # Genesis
  BY <1>2, GenesisOnChain
<1>4. CASE Reboot
  BY <1>4, HowItStops, StopInv
<1>5. CASE StepBack(answer) /\ SameForStart /\ UNCHANGED vars
  BY <1>1, <1>3, <1>5, StepBackInv DEF vars, blockVars
<1>6. CASE /\ oldtip # Null
           /\ found' = answer /\ HGoto("orphMain") /\ SameForStart
           /\ UNCHANGED <<vars, status, cursor, got, oldtip, unconfirm>>
  <2> USE <1>6 DEF HGoto, SameForStart, nodeVars, vars, blockVars, callVars, argVars, tipVars
  <2>1. HistoricTypes' /\ HistoricBlocks'
    BY <1>1, <1>2, <1>3 DEF HistoricTypes, HistoricOps, HistoricBlocks, OrphanOps
  <2> QED
    BY <1>1, <2>1 DEF HistoricCall
<1> QED
  BY <1>2, <1>4, <1>5, <1>6

LEMMA OrphaningInv ==
  ASSUME InsightInv, OldTipMain \/ OldTipScan \/ OldTipTxs \/ OldTipLost
  PROVE  HistoricInv'
<1> USE DEF InsightInv, HistoricInv
<1>1. CASE OldTipMain
  BY <1>1 DEF OldTipMain, SetMain, HGoto, SameForStart, HistoricTypes, HistoricBlocks, HistoricCall,
              HistoricOps, OrphanOps, callVars, argVars, tipVars, startVars, nodeVars
<1>2. CASE OldTipScan
  BY <1>2, ScannedTxs DEF OldTipScan, HGoto, SameForStart, HistoricTypes, HistoricBlocks,
              HistoricCall, HistoricOps, OrphanOps, vars, blockVars, callVars, argVars, tipVars,
              nodeVars
<1>3. CASE OldTipTxs
  <2>1. /\ hpc = "orphTxs" /\ StepBack(found) /\ SameForStart
        /\ UNCHANGED <<tip, pc, callVars>>
    BY <1>3 DEF OldTipTxs, blockVars
  <2> QED
    BY <2>1, StepBackInv DEF HistoricTypes, HistoricBlocks, OrphanOps
<1>4. CASE OldTipLost
  BY <1>4, HowItStops, StopInv
<1> QED
  BY <1>1, <1>2, <1>3, <1>4

LEMMA PreparingInv ==
  ASSUME InsightInv,
         \/ CheckNetworkSettings \/ UpdateBlockChainHeight \/ ReadTip \/ PrepareFails
         \/ HeightFails
  PROVE  HistoricInv'
<1> USE DEF InsightInv, HistoricInv, HGoto, vars, blockVars, callVars, argVars, tipVars, nodeVars,
            startVars
<1>1. CASE CheckNetworkSettings
  BY <1>1 DEF CheckNetworkSettings, HistoricTypes, HistoricBlocks, HistoricCall, HistoricOps,
              OrphanOps
<1>2. CASE UpdateBlockChainHeight
  BY <1>2, TreeAssumption
     DEF UpdateBlockChainHeight, HistoricTypes, HistoricBlocks, HistoricCall, HistoricOps,
         OrphanOps
<1>3. CASE ReadTip
  <2>1. tip \in Blocks \cup {Null}
    BY DEF TypeInv, TypeOK, BlockDbTypeOK, Hashes, HistoricBlocks
  <2>2. HistoricTypes' /\ HistoricBlocks'
    BY <1>3, <2>1, BlocksAssumption
       DEF ReadTip, StartFrom, HistoricTypes, HistoricBlocks, HistoricOps, OrphanOps, Answers
  <2> QED
    BY <1>3, <2>2 DEF ReadTip, StartFrom, HistoricCall
<1>4. CASE PrepareFails
  BY <1>4 DEF PrepareFails, SameForStart, HistoricTypes, HistoricBlocks, HistoricCall, HistoricOps,
              OrphanOps
<1>5. CASE HeightFails
  BY <1>5, HowItStops, StopInv DEF HeightFails
<1> QED
  BY <1>1, <1>2, <1>3, <1>4, <1>5

LEMMA CopyingInv ==
  ASSUME InsightInv, Fetch \/ FetchFails \/ Finish \/ SetHistoricTip
  PROVE  HistoricInv'
<1> USE InsightAssumption DEF InsightInv, HistoricInv, HGoto, Done, vars, blockVars, callVars,
            argVars, tipVars, nodeVars, startVars
<1>1. CASE Fetch
  <2>1. cursor \in Blocks /\ NextOnChain(cursor) \in Blocks \cup {Null}
    BY <1>1, NextOnChainIsChild DEF Fetch, HistoricTypes
  <2>2. HistoricTypes' /\ HistoricBlocks'
    BY <1>1, <2>1 DEF Fetch, Call, SameDb, HistoricTypes, HistoricBlocks, HistoricOps, OrphanOps
  <2> QED
    BY <1>1, <2>2 DEF Fetch, Call, Goto, HistoricCall, TypeInv, TypeOK
<1>2. CASE FetchFails \/ Finish
  BY <1>2 DEF FetchFails, Finish, HistoricTypes, HistoricBlocks, HistoricCall, HistoricOps, OrphanOps
<1>3. CASE SetHistoricTip
  <2>1. tip' # Zero
    BY <1>3, BlocksAssumption DEF SetHistoricTip, SetTip, HistoricBlocks
  <2> QED
    BY <1>3, <2>1 DEF SetHistoricTip, HistoricTypes, HistoricBlocks, HistoricCall, HistoricOps,
                      OrphanOps
<1> QED
  BY <1>1, <1>2, <1>3

(* The steps of its own call of storeTipBlock.                             *)
LEMMA StoringInv ==
  ASSUME InsightInv, Stored \/ StoreFails \/ Storing
  PROVE  HistoricInv'
<1> USE InsightAssumption DEF InsightInv, HistoricInv, HGoto, Done, blockVars, callVars, argVars,
            tipVars, nodeVars, startVars, historicVars, SameDb, Goto
<1>1. hpc = "store" /\ got \in Blocks
  BY DEF Stored, StoreFails, Storing, SetNextStep, HasBlock, DbError, FailTx, TxsStored, Add,
         StoreTx, MissTx, HistoricCall, HistoricBlocks, Ops, StoreOps, ReorgOps, LinkOps
<1>2. CASE Stored \/ StoreFails
  <2>1. UNCHANGED tip
    BY <1>2 DEF Stored, StoreFails, SetNextStep, SetNext, HasBlock, DbError, FailTx
  <2>2. pc'[Historic] = "idle" /\ needReorg'[Historic] = FALSE
    BY <1>2 DEF Stored, StoreFails, SetNextStep, HasBlock, DbError, FailTx, Return, BeginTxs,
                TypeInv, TypeOK
  <2>3. HistoricTypes' /\ HistoricBlocks'
    BY <1>1, <1>2, <2>1
       DEF Stored, StoreFails, HistoricTypes, HistoricBlocks, HistoricOps, OrphanOps
  <2> QED
    BY <1>1, <1>2, <2>2, <2>3 DEF Stored, StoreFails, HistoricCall
<1>3. CASE Storing
  <2>1. UNCHANGED <<tip, nodeVars, historicVars>>
    BY <1>3 DEF Storing, HasBlock, TxsStored, Add, AddBlock, StoreTx, MissTx
  <2>2. HistoricTypes' /\ HistoricBlocks'
    BY <2>1 DEF HistoricTypes, HistoricBlocks
  <2>3. /\ pc[Historic] # "idle" /\ pc'[Historic] \in {"createTxs", "add", "setNext"}
        /\ UNCHANGED <<blk, allowReorgs, needReorg>>
    BY <1>3 DEF Storing, HasBlock, BeginTxs, TxsStored, Add, StoreTx, MissTx, HistoricCall,
                TypeInv, TypeOK
  <2> QED
    BY <1>1, <2>1, <2>2, <2>3 DEF HistoricCall
<1> QED
  BY <1>2, <1>3

LEMMA NextInsightInv == InsightInv /\ [InsightNext]_insightVars => InsightInv'
<1> SUFFICES ASSUME InsightInv, [InsightNext]_insightVars PROVE HistoricInv'
  BY SyncStateKept DEF InsightInv
<1>1. CASE UNCHANGED insightVars
  BY <1>1 DEF insightVars, vars, blockVars, callVars, argVars, tipVars, nodeVars, historicVars,
              startVars, InsightInv, HistoricInv, HistoricTypes, HistoricBlocks, HistoricCall
<1>2. CASE HistoricProgress
  BY <1>2, TipInfoInv, OrphaningInv, PreparingInv, CopyingInv, StoringInv DEF HistoricProgress
<1>3. ASSUME NEW t \in Txs, NEW b \in Blocks,
             StrayTx(t, b) /\ UNCHANGED <<nodeVars, historicVars>>
      PROVE  HistoricInv'
  BY <1>3 DEF StrayTx, blockVars, callVars, argVars, tipVars, nodeVars, historicVars,
              startVars, InsightInv, HistoricInv, HistoricTypes, HistoricBlocks, HistoricCall
<1> QED
  BY <1>1, <1>2, <1>3, NodeStepInv, PeersInv, HowItStops, StopInv
     DEF InsightNext, InsightStep, CrashAndBoot

LEMMA InsightInvariant == InsightSpec => []InsightInv
BY InitInsightInv, NextInsightInv, PTL DEF InsightSpec

(* Whatever the node does and whatever fails, HistoricSync never asks for, *)
(* goes back to or makes the tip a hash that is not a block: it stops going*)
(* back at Genesis at the latest (updateStartBlock).                       *)
THEOREM InsightTypeCorrect == InsightSpec => []InsightTypeOK
<1>1. InsightInv => InsightTypeOK
  BY DEF InsightInv, TypeInv, HistoricInv, HistoricTypes, InsightTypeOK
<1> QED
  BY InsightInvariant, <1>1, PTL
-----------------------------------------------------------------------------
(* Historic sync alone leaves no hole below its tip                        *)

LineageStored(b) == \A h \in Lineage(b) : Has(h)

BelowStored(b) == \A h \in Lineage(b) \ {b} : Has(h)

(* The block that HistoricSync copies next, or has just copied, stands on  *)
(* stored blocks: the cursor moves from a block that is stored to its      *)
(* child, and back from a tip to its parents.                              *)
CopyInv ==
  /\ tip # Null => LineageStored(tip)
  /\ hpc \in OrphanOps \cup {"info", "setTip"} => LineageStored(got)
  /\ hpc = "store" => BelowStored(got) /\ (pc[Historic] = "setNext" => Has(got))
  /\ hpc = "fetch" /\ cursor # Null => BelowStored(cursor)
  /\ hpc \in {"store", "setTip"} /\ cursor # Null => Parent[cursor] = got

LEMMA BelowChild ==
  ASSUME NEW b \in Blocks
  PROVE  /\ Parent[b] \in Blocks /\ LineageStored(Parent[b]) => BelowStored(b)
         /\ BelowStored(b) /\ Has(b) => LineageStored(b)
         /\ LineageStored(b) => BelowStored(b)
<1>1. ASSUME Parent[b] \in Blocks PROVE Lineage(b) = {b} \cup Lineage(Parent[b])
  BY <1>1, LineageParent, BlocksAssumption
<1> QED
  BY <1>1 DEF LineageStored, BelowStored

LEMMA StoredStays ==
  ASSUME InsightInv, InsightNext
  PROVE  \A h \in Blocks : Has(h) => Has(h)'
<1> USE DEF InsightInv, SameDb, blockVars, Has
<1>1. CASE HistoricWrites \/ Stops
  BY <1>1 DEF HistoricWrites, SetHistoricTip, SetTip, OldTipMain, SetMain, OldTipTxs, Stops
<1>2. CASE [Next]_vars
  <2>1. UNCHANGED prev \/ \E c \in Callers : pc[c] = "add" /\ AddBlock(blk[c])
    BY <1>2 DEF Next, vars, Call, StrayTx, Crash, Restart, Halt, Progress, Store, Reorg, Fail,
         HasBlock, HasPrev, TxsStored, GetTip, GetNext, Add, SetTipStep, SetTip, SetNextStep,
         SetNext, StoreTx, MissTx, ReorgIsMain, ConnMain, ConnScan, ConnTxs, ConnPrev,
         ConnIsMain, ForkNext, ForkLink, OrphMain, OrphScan, OrphTxs, OrphNext, FlagBlock,
         SetMain, ScanTxs, WriteTxs, DbError, DbErrorIgnored, FailTx
  <2>2. ASSUME NEW c \in Callers, pc[c] = "add", AddBlock(blk[c])
        PROVE  \A h \in Blocks : Has(h) => Has(h)'
    BY <2>2, TreeAssumption, BlocksAssumption DEF AddBlock, TypeInv, TypeOK, BlockDbTypeOK, Hashes
  <2> QED
    BY <2>1, <2>2
<1> QED
  BY <1>1, <1>2, InsightSteps

LEMMA InitCopyInv == InsightInit => CopyInv
BY BlocksAssumption DEF InsightInit, Init, BlockDbInit, CopyInv, OrphanOps

(* Where nothing that CopyInv reads has moved on.                          *)
LEMMA StoredBelow ==
  ASSUME InsightInv, InsightNext, NEW b \in Blocks
  PROVE  /\ LineageStored(b) => LineageStored(b)'
         /\ BelowStored(b) => BelowStored(b)'
BY StoredStays, LineageClosed DEF LineageStored, BelowStored

LEMMA BlocksCopied ==
  ASSUME InsightInv
  PROVE  /\ tip # Null => tip \in Blocks
         /\ hpc \in OrphanOps \cup {"info", "store", "setTip"} => got \in Blocks
         /\ cursor # Null => cursor \in Blocks
BY DEF InsightInv, TypeInv, TypeOK, BlockDbTypeOK, Hashes, HistoricInv, HistoricTypes,
       HistoricBlocks

LEMMA StartFromCopy ==
  ASSUME InsightInv, InsightNext, CopyInv, UNCHANGED tip, NEW b \in Blocks, StartFrom(b),
         BelowStored(b)
  PROVE  CopyInv'
BY BlocksCopied, StoredBelow DEF StartFrom, HGoto, CopyInv, OrphanOps

LEMMA StepBackCopy ==
  ASSUME InsightInv, InsightNext, CopyInv, UNCHANGED tip,
         hpc \in OrphanOps \cup {"info"}, NEW answer, StepBack(answer),
         answer = "orphan" => got # Genesis
  PROVE  CopyInv'
<1>1. got \in Blocks /\ LineageStored(got)
  BY BlocksCopied DEF CopyInv
<1>2. CASE answer = "onChain"
  BY <1>1, <1>2, BelowChild, StartFromCopy DEF StepBack
<1>3. CASE answer = "orphan"
  <2>1. Parent[got] \in Lineage(got) /\ Parent[got] \in Blocks
    BY <1>1, <1>3, LineageClosed, TreeAssumption DEF Closed
  <2>2. LineageStored(Parent[got])
    BY <1>1, <2>1, LineageTransitive DEF LineageStored
  <2> QED
    BY <1>3, <2>1, <2>2, BlocksCopied, StoredBelow DEF StepBack, HGoto, CopyInv, OrphanOps
<1> QED
  BY <1>2, <1>3 DEF StepBack

LEMMA StopCopy ==
  ASSUME InsightInv, InsightNext, CopyInv, Stops
  PROVE  CopyInv'
BY BlocksCopied, StoredBelow DEF Stops, Halt, BootAgain, blockVars, CopyInv, OrphanOps

LEMMA NextCopyInv ==
  ASSUME Callers = {Historic}, InsightInv, CopyInv, [InsightNext]_insightVars
  PROVE  CopyInv'
<1> USE DEF HGoto
<1>1. CASE UNCHANGED insightVars
  BY <1>1 DEF insightVars, vars, blockVars, historicVars, startVars, CopyInv, LineageStored,
              BelowStored, Has
<1>2. ASSUME InsightNext, UNCHANGED <<tip, pc, hpc, got, cursor>> PROVE CopyInv'
  <2>1. \A b \in Blocks : Has(b) => Has(b)'
    BY <1>2, StoredStays
  <2> QED
    BY <1>2, <2>1, BlocksCopied, StoredBelow DEF CopyInv
<1>3. CASE InsightNext /\ HistoricProgress
  <2> USE <1>3
  <2>1. CASE TipInfo
    <3>1. hpc = "info" /\ got \in Blocks
      BY <2>1, BlocksCopied DEF TipInfo
    <3>2. PICK answer \in Answers :
            /\ answer # "nothing" =>
                 (answer = "onChain" <=> (chainHeight = Height[got] \/ OnChain(got)))
            /\ \/ HGoto("orphMain") /\ UNCHANGED <<vars, got>>
               \/ Reboot
               \/ StepBack(answer) /\ UNCHANGED vars
      BY <2>1 DEF TipInfo
    <3>3. answer = "orphan" => got # Genesis
      BY <3>2, GenesisOnChain DEF InsightInv, HistoricInv
    <3>4. CASE Reboot
      BY <3>4, HowItStops, StopCopy
    <3>5. CASE StepBack(answer) /\ UNCHANGED vars
      BY <3>1, <3>3, <3>5, StepBackCopy DEF vars, blockVars
    <3>6. CASE HGoto("orphMain") /\ UNCHANGED <<vars, got>>
      BY <3>1, <3>6, BlocksCopied, StoredBelow DEF vars, blockVars, CopyInv, OrphanOps
    <3> QED
      BY <3>2, <3>4, <3>5, <3>6
  <2>2. CASE OldTipMain \/ OldTipScan
    BY <2>2, BlocksCopied, StoredBelow
       DEF OldTipMain, SetMain, OldTipScan, vars, blockVars, CopyInv, OrphanOps
  <2>3. CASE OldTipTxs
    <3>1. /\ hpc = "orphTxs" /\ StepBack(found) /\ UNCHANGED tip
          /\ found = "orphan" => got # Genesis
      BY <2>3 DEF OldTipTxs, blockVars, InsightInv, HistoricInv, HistoricBlocks, OrphanOps
    <3> QED
      BY <3>1, StepBackCopy DEF OrphanOps
  <2>4. CASE OldTipLost \/ HeightFails
    BY <2>4, HowItStops, StopCopy DEF HeightFails
  <2>5. CASE ReadTip
    <3>1. CASE StartFrom(Genesis)
      <4>1. BelowStored(Genesis)
        BY BlocksAssumption, TreeAssumption, LineageStep DEF BelowStored
      <4> QED
        BY <2>5, <3>1, <4>1, BlocksAssumption, StartFromCopy DEF ReadTip, vars, blockVars
    <3>2. CASE tip # Null /\ got' = tip /\ HGoto("info") /\ UNCHANGED cursor
      BY <2>5, <3>2, BlocksCopied, StoredBelow DEF ReadTip, vars, blockVars, CopyInv, OrphanOps
    <3> QED
      BY <2>5, <3>1, <3>2 DEF ReadTip
  <2>6. CASE CheckNetworkSettings \/ UpdateBlockChainHeight \/ PrepareFails
             \/ FetchFails \/ Finish
    BY <2>6, BlocksCopied, StoredBelow
       DEF CheckNetworkSettings, UpdateBlockChainHeight, PrepareFails, FetchFails, Finish, Done,
           vars, blockVars, CopyInv, OrphanOps
  <2>7. CASE Fetch
    <3>1. /\ cursor \in Blocks /\ got' = cursor /\ BelowStored(cursor) /\ UNCHANGED tip
          /\ hpc' = "store" /\ pc'[Historic] = "hasBlock"
          /\ cursor' = Null \/ Parent[cursor'] = cursor
      BY <2>7, BlocksCopied, NextOnChainIsChild, InsightAssumption
         DEF Fetch, Call, Goto, SameDb, blockVars, CopyInv, InsightInv, TypeInv, TypeOK,
             HistoricInv
    <3> QED
      BY <3>1, BlocksCopied, StoredBelow DEF CopyInv, OrphanOps
  <2>8. CASE Stored
    <3>1. hpc = "store" /\ got \in Blocks /\ Has(got) /\ hpc' = "setTip"
      <4>1. pc[Historic] # "idle"
        BY <2>8 DEF Stored, SetNextStep, HasBlock
      <4>2. hpc = "store" /\ blk[Historic] = got /\ got \in Blocks
        BY <4>1, BlocksCopied DEF InsightInv, HistoricInv, HistoricCall
      <4> QED
        BY <2>8, <4>2 DEF Stored, SetNextStep, CopyInv
    <3>2. UNCHANGED <<tip, got, cursor>>
      BY <2>8 DEF Stored, SetNextStep, SetNext, HasBlock, SameDb, blockVars
    <3> QED
      BY <3>1, <3>2, BelowChild, BlocksCopied, StoredBelow DEF CopyInv, OrphanOps
  <2>9. CASE StoreFails
    BY <2>9, BlocksCopied, StoredBelow
       DEF StoreFails, DbError, FailTx, SameDb, blockVars, Done, CopyInv, OrphanOps
  <2>10. CASE SetHistoricTip
    <3>1. /\ hpc = "setTip" /\ got \in Blocks /\ LineageStored(got)
          /\ tip' = got /\ hpc' = "fetch" /\ UNCHANGED <<cursor, got>>
          /\ cursor # Null => cursor \in Blocks /\ Parent[cursor] = got
      BY <2>10, BlocksCopied DEF SetHistoricTip, SetTip, startVars, CopyInv
    <3>2. cursor # Null => BelowStored(cursor)
      BY <3>1, BelowChild
    <3> QED
      BY <3>1, <3>2, StoredBelow DEF CopyInv, OrphanOps
  <2>11. CASE Storing
    <3>1. UNCHANGED <<tip, hpc, got, cursor>> /\ hpc = "store" /\ blk[Historic] = got
      BY <2>11, InsightAssumption
         DEF Storing, HasBlock, TxsStored, Add, AddBlock, StoreTx, MissTx, SameDb, blockVars,
             historicVars, InsightInv, HistoricInv, HistoricCall
    <3>2. got \in Blocks
      BY <3>1, BlocksCopied
    <3>3. pc'[Historic] = "setNext" => Has(got)'
      <4>1. ASSUME pc'[Historic] = "setNext" PROVE Add(Historic) \/ pc[Historic] = "setNext"
        BY <2>11, <4>1, InsightAssumption
           DEF Storing, HasBlock, BeginTxs, Goto, TxsStored, StoreTx, MissTx, InsightInv,
               TypeInv, TypeOK
      <4>2. ASSUME Add(Historic) PROVE Has(got)'
        BY <3>1, <3>2, <4>2, TreeAssumption, BlocksAssumption
           DEF Add, AddBlock, Has, InsightInv, TypeInv, TypeOK, BlockDbTypeOK, Hashes
      <4>3. pc[Historic] # "setNext"
        BY <2>11 DEF Storing, HasBlock, TxsStored, Add, StoreTx, MissTx
      <4> QED
        BY <4>1, <4>2, <4>3
    <3> QED
      BY <3>1, <3>2, <3>3, BlocksCopied, StoredBelow DEF CopyInv, OrphanOps
  <2> QED
    BY <2>1, <2>2, <2>3, <2>4, <2>5, <2>6, <2>7, <2>8, <2>9, <2>10, <2>11 DEF HistoricProgress
<1>4. ASSUME InsightNext, Disconnect \/ \E b \in Blocks : Mine(b) PROVE CopyInv'
  BY <1>2, <1>4 DEF Disconnect, Mine, vars, blockVars, historicVars
<1>5. ASSUME NEW t \in Txs, NEW b \in Blocks, InsightNext, StrayTx(t, b),
             UNCHANGED historicVars
      PROVE  CopyInv'
  BY <1>2, <1>5 DEF StrayTx, blockVars, historicVars
<1>6. ASSUME InsightNext, CrashAndBoot PROVE CopyInv'
  BY <1>6, HowItStops, StopCopy DEF CrashAndBoot
<1>7. Peers = {}
  BY DEF Peers
<1> QED
  BY <1>1, <1>3, <1>4, <1>5, <1>6, <1>7 DEF InsightNext, InsightStep

(* Historic sync alone: whatever the node does, whatever fails and however *)
(* often the process is stopped in the middle of a call, every ancestor of *)
(* the tip is stored.                                                      *)
THEOREM NoHoleBelowTip ==
  ASSUME Callers = {Historic}
  PROVE  InsightSpec => []TipLineageStored
<1>1. InsightInit => InsightInv /\ CopyInv
  BY InitInsightInv, InitCopyInv
<1>2. InsightInv /\ CopyInv /\ [InsightNext]_insightVars => (InsightInv /\ CopyInv)'
  BY NextInsightInv, NextCopyInv
<1>3. CopyInv => TipLineageStored
  BY DEF CopyInv, LineageStored, TipLineageStored
<1> QED
  BY <1>1, <1>2, <1>3, PTL DEF InsightSpec
-----------------------------------------------------------------------------
(* On one branch, links survive the race of historic sync and p2p          *)

(* Who has stored b and has not linked it yet.                             *)
Linking(c, b) == blk[c] = b /\ pc[c] \in ReorgOps \cup LinkOps

LinkedInv ==
  \A b \in Blocks \ {Genesis} :
    Has(b) => next[Parent[b]] = b \/ \E c \in Callers : Linking(c, b)

Lossless == Faults \cap {"dbError", "rpcError", "crash"} = {}

LEMMA InitLinkedInv == InsightInit => LinkedInv
BY BlocksAssumption DEF InsightInit, Init, BlockDbInit, LinkedInv, Has, Hashes

(* The writes of storeTipBlock and processReorg, as far as links go: a next*)
(* pointer, once set, is only ever set to a child again, and a call ends   *)
(* its links only by linking its block.                                    *)
LEMMA LinksOnly ==
  ASSUME TypeInv, LinkInv, Lossless, Next
  PROVE  /\ \A k \in Hashes \ {Null} :
              next'[k] = next[k] \/ (next'[k] \in Blocks /\ Parent[next'[k]] = k)
         /\ \A b \in Blocks : Has(b)' => Has(b) \/ \E c \in Callers : Linking(c, b)'
         /\ \A c \in Callers, b \in Blocks : Linking(c, b) =>
              Linking(c, b)' \/ next'[Parent[b]] = b
<1> DEFINE Goal ==
  /\ \A k \in Hashes \ {Null} :
       next'[k] = next[k] \/ (next'[k] \in Blocks /\ Parent[next'[k]] = k)
  /\ \A b \in Blocks : Has(b)' => Has(b) \/ \E c \in Callers : Linking(c, b)'
  /\ \A c \in Callers, b \in Blocks : Linking(c, b) =>
       Linking(c, b)' \/ next'[Parent[b]] = b
<1> SUFFICES Goal
  OBVIOUS
<1> USE TreeAssumption, BlocksAssumption
    DEF TypeInv, TypeOK, BlockDbTypeOK, LinkInv, PrevIsParent, NextIsBlock, WalkAdjacent,
        Has, Linking, Hashes, Ops, StoreOps, ReorgOps, LinkOps, Goto, Return, SameDb,
        SameBackground, NewPrev, blockVars, txVars, callVars, argVars, tipVars, walkVars
<1>1. ASSUME NEW c \in Callers, NEW b \in Blocks, NEW allow \in AllowModes, Call(c, b, allow)
      PROVE  Goal
  BY <1>1 DEF Call
<1>2. ASSUME NEW c \in Callers, HasBlock(c) \/ HasPrev(c) PROVE Goal
  BY <1>2 DEF HasBlock, HasPrev, BeginTxs
<1>3. ASSUME NEW c \in Callers, TxsStored(c) \/ GetTip(c) \/ GetNext(c) PROVE Goal
  BY <1>3 DEF TxsStored, GetTip, GetNext
<1>4. ASSUME NEW c \in Callers, Add(c) PROVE Goal
  BY <1>4 DEF Add, AddBlock
<1>5. ASSUME NEW c \in Callers, SetTipStep(c) PROVE Goal
  BY <1>5 DEF SetTipStep, SetTip
<1>6. ASSUME NEW c \in Callers, SetNextStep(c) PROVE Goal
  BY <1>6 DEF SetNextStep, SetNext
<1>7. ASSUME NEW c \in Callers, NEW t \in Txs, StoreTx(c, t) \/ MissTx(c, t) PROVE Goal
  BY <1>7 DEF StoreTx, MissTx
<1>8. ASSUME NEW c \in Callers, ReorgIsMain(c) PROVE Goal
  BY <1>8 DEF ReorgIsMain, BeginConnect, BeginOrphan
<1>9. ASSUME NEW c \in Callers, ConnMain(c) \/ ConnScan(c) \/ ConnTxs(c) PROVE Goal
  <2>1. CASE ConnMain(c)
    BY <2>1 DEF ConnMain, FlagBlock, SetMain
  <2>2. CASE ConnScan(c)
    BY <2>2 DEF ConnScan, ScanTxs
  <2>3. CASE ConnTxs(c)
    BY <2>3 DEF ConnTxs, WriteTxs
  <2> QED
    BY <1>9, <2>1, <2>2, <2>3
<1>10. ASSUME NEW c \in Callers, ConnPrev(c) \/ ConnIsMain(c) \/ ForkNext(c) PROVE Goal
  BY <1>10 DEF ConnPrev, ConnIsMain, ForkNext
<1>11. ASSUME NEW c \in Callers, ForkLink(c) PROVE Goal
  BY <1>11 DEF ForkLink, SetNext, BeginOrphan
<1>12. ASSUME NEW c \in Callers, OrphMain(c) \/ OrphScan(c) \/ OrphTxs(c) \/ OrphNext(c)
       PROVE  Goal
  <2>1. CASE OrphMain(c)
    BY <2>1 DEF OrphMain, FlagBlock, SetMain
  <2>2. CASE OrphScan(c)
    BY <2>2 DEF OrphScan, ScanTxs
  <2>3. CASE OrphTxs(c)
    BY <2>3 DEF OrphTxs, WriteTxs
  <2>4. CASE OrphNext(c)
    BY <2>4 DEF OrphNext, BeginOrphan
  <2> QED
    BY <1>12, <2>1, <2>2, <2>3, <2>4
<1>13. ASSUME NEW t \in Txs, NEW b \in Blocks, StrayTx(t, b) PROVE Goal
  BY <1>13 DEF StrayTx
<1>14. ~Crash /\ \A c \in Callers : ~Fail(c)
  BY DEF Lossless, Crash, Fail, DbError, DbErrorIgnored, FailTx
<1> HIDE DEF Goal
<1> QED
  BY <1>1, <1>2, <1>3, <1>4, <1>5, <1>6, <1>7, <1>8, <1>9, <1>10, <1>11, <1>12, <1>13, <1>14
     DEF Next, Progress, Store, Reorg

LEMMA NextLinkedInv ==
  ASSUME OneBranch, Lossless, InsightInv, LinkedInv, [InsightNext]_insightVars
  PROVE  LinkedInv'
<1>1. ASSUME UNCHANGED <<prev, next, pc, blk>> PROVE LinkedInv'
  BY <1>1 DEF LinkedInv, Linking, Has
<1>2. CASE UNCHANGED insightVars \/ UNCHANGED vars
  BY <1>1, <1>2 DEF insightVars, vars, blockVars, callVars, argVars
<1>3. CASE HistoricWrites
  BY <1>1, <1>3 DEF HistoricWrites, SetHistoricTip, SetTip, OldTipMain, SetMain, OldTipTxs,
                    blockVars, callVars, argVars
<1>4. CASE Next
  <2> SUFFICES ASSUME NEW b \in Blocks \ {Genesis}, Has(b)'
               PROVE  next'[Parent[b]] = b \/ \E c \in Callers : Linking(c, b)'
    BY DEF LinkedInv
  <2>1. Parent[b] \in Hashes \ {Null}
    BY TreeAssumption, BlocksAssumption DEF Hashes
  <2>2. CASE next[Parent[b]] = b
    BY <1>4, <2>1, <2>2, LinksOnly DEF InsightInv, OneBranch
  <2>3. CASE \E c \in Callers : Linking(c, b)
    BY <1>4, <2>3, LinksOnly DEF InsightInv
  <2>4. CASE ~Has(b)
    BY <1>4, <2>4, LinksOnly DEF InsightInv
  <2> QED
    BY <2>2, <2>3, <2>4 DEF LinkedInv
<1>5. CASE CrashAndBoot
  <2>1. Quiet /\ Stops
    BY <1>5, HowItStops DEF CrashAndBoot, Lossless
  <2>2. UNCHANGED <<prev, next>> /\ \A c \in Callers, b \in Blocks : ~Linking(c, b)
    BY <2>1 DEF Stops, blockVars, Quiet, Linking, ReorgOps, LinkOps
  <2> QED
    BY <2>2 DEF LinkedInv, Has
<1>6. CASE InsightNext /\ ~CrashAndBoot
  <2>1. [Next]_vars \/ HistoricWrites
    BY <1>6, InsightStepsGoOn DEF Lossless, RpcFails, DbFails, InsightInv
  <2> QED
    BY <1>2, <1>3, <1>4, <2>1
<1> QED
  BY <1>2, <1>5, <1>6

(* On a chain without branches every block that is stored stays its        *)
(* predecessor's next block, whatever HistoricSync and any number of p2p   *)
(* calls of storeTipBlock do to each other, also when they take each       *)
(* other's blocks for a reorganisation.                                    *)
THEOREM StoredBlocksAreLinked ==
  ASSUME OneBranch, Lossless
  PROVE  InsightSpec => []StoredIsLinked
<1>1. InsightInit => InsightInv /\ LinkedInv
  BY InitInsightInv, InitLinkedInv
<1>2. InsightInv /\ LinkedInv /\ [InsightNext]_insightVars => (InsightInv /\ LinkedInv)'
  BY NextInsightInv, NextLinkedInv
<1>3. LinkedInv => StoredIsLinked
  BY DEF LinkedInv, Linking, StoredIsLinked
<1> QED
  BY <1>1, <1>2, <1>3, PTL DEF InsightSpec
=============================================================================
