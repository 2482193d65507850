---------------------------- MODULE SettledProofs ----------------------------
(***************************************************************************)
(* What a finished historic sync leaves behind: the main chain is the tip  *)
(* and its ancestors, after any number of restarts and RPC errors, for     *)
(* every tree of blocks and every way of the node through it that does not *)
(* return to a branch which the index has given up.                        *)
(***************************************************************************)
EXTENDS InsightProofs

(* What is stored and no longer main has left the chain of the node.       *)
OrphansOff == \A h \in Blocks : Has(h) /\ ~IsMain(h) => ~OnChain(h)

MainTo(x) == \A b \in Blocks : IsMain(b) <=> b \in Lineage(x)

NextTo(x) == \A b \in Lineage(x) \ {x} : next[b] \in Lineage(x)

Empty == \A b \in Blocks : ~Has(b) /\ ~IsMain(b)

(* Between two calls of storeTipBlock the main chain is an ancestor of the *)
(* tip and what is below it; it is below the tip itself only after a walk  *)
(* back that an RPC error has cut short.                                   *)
TipState ==
  /\ hpc \notin {"store", "setTip"} =>
       IF tip = Null THEN Empty ELSE NextTo(tip) /\ \E x \in Lineage(tip) : MainTo(x)
  /\ hpc \in {"check", "height", "tip"} /\ ~RpcFails /\ tip # Null => MainTo(tip)
  /\ hpc = "idle" => \/ status = "error" /\ RpcFails
                     \/ status = "finished" /\ tip # Null /\ MainTo(tip)

(* updateStartBlock goes down from the tip, one block at a time; oldtip has*)
(* left the chain, and nothing above it is main.                           *)
WalkBack ==
  /\ hpc \in OrphanOps => oldtip # Null
  /\ hpc \notin OrphanOps \cup {"info"} => oldtip = Null
  /\ hpc \in OrphanOps \cup {"info"} =>
       /\ tip # Null /\ got \in Lineage(tip)
       /\ oldtip = Null => got = tip
       /\ oldtip # Null =>
            /\ oldtip \in Lineage(tip) /\ Parent[oldtip] = got
            /\ ~OnChain(oldtip) /\ Height[oldtip] # chainHeight
            /\ \A h \in Lineage(tip) : IsMain(h) => h \in Lineage(oldtip)
  /\ hpc \in {"orphScan", "orphTxs"} => ~IsMain(oldtip)
  /\ hpc \in OrphanOps =>
       /\ found = "onChain" => IsMain(got)
       /\ found = "orphan" => ~OnChain(got) /\ Height[got] # chainHeight
  /\ hpc \in OrphanOps \cup {"tip", "info"} /\ tip # Null =>
       \A h \in Lineage(tip) : ~IsMain(h) => Height[h] # chainHeight

(* The block that is copied is the one at which the walk back has stopped, *)
(* or a new one on top of the tip.                                         *)
OnMain(b) == tip # Null /\ b \in Lineage(tip) /\ MainTo(b)

OnTop(b) ==
  /\ ~Has(b)
  /\ tip = Null => b = Genesis /\ Empty
  /\ tip # Null => Parent[b] = tip /\ MainTo(tip)

CopyState ==
  /\ hpc = "fetch" =>
       IF cursor = Null THEN tip # Null /\ MainTo(tip) ELSE OnMain(cursor) \/ OnTop(cursor)
  /\ hpc = "store" =>
       /\ tip # Null => NextTo(tip)
       /\ \/ pc[Historic] = "hasBlock" /\ OnMain(got)
          \/ pc[Historic] \in {"hasBlock", "createTxs", "add"} /\ OnTop(got)
          \/ /\ pc[Historic] = "setNext" /\ MainTo(got)
             /\ tip = Null => got = Genesis
             /\ tip # Null => Parent[got] = tip
  /\ hpc = "setTip" => MainTo(got) /\ NextTo(got)
  /\ hpc \in {"store", "setTip"} /\ cursor # Null => ~Has(cursor)

(* The node has left what it has left for a higher block.                  *)
Passed(h) == OnChain(h) \/ Height[h] < Height[best]

HeightsPassed ==
  RpcFails => \A h \in Blocks :
                Has(h) \/ h = cursor \/ (hpc = "store" /\ h = got) => Passed(h)

SettleInv == OrphansOff /\ TipState /\ WalkBack /\ CopyState /\ HeightsPassed

Settling == InsightInv /\ CopyInv /\ SettleInv

-----------------------------------------------------------------------------
(* Facts about the tip and the branch below it                             *)

LEMMA StepsKeepBlocks ==
  ASSUME InsightInv
  PROVE  /\ best \in Blocks /\ Genesis \in Blocks /\ OnChain(Genesis)
         /\ tip # Null => tip \in Blocks /\ Lineage(tip) \in SUBSET Blocks /\ tip \in Lineage(tip)
BY BlocksCopied, LineageClosed, BlocksAssumption, GenesisInLineage
   DEF InsightInv, HistoricInv, HistoricTypes, OnChain

LEMMA NextIsOnChain ==
  ASSUME InsightInv, NEW b \in Blocks, NextOnChain(b) # Null
  PROVE  /\ NextOnChain(b) \in Blocks /\ Parent[NextOnChain(b)] = b
         /\ OnChain(NextOnChain(b))
<1>1. ASSUME OnChain(b), b # best PROVE \E n \in Children(b) : OnChain(n)
  BY <1>1, ChildOnTheWay DEF InsightInv, HistoricInv, HistoricTypes, OnChain, Children
<1> QED
  BY <1>1 DEF NextOnChain, Children

LEMMA ChildIsAbove ==
  ASSUME NEW b \in Blocks, NEW n \in Blocks, Parent[n] = b
  PROVE  n # b /\ n \notin Lineage(b)
BY LineageParent, LineageClosed, BlocksAssumption, TreeAssumption

(* Next pointers that lead along a lineage lead along every part of it.    *)
LEMMA NextToBelow ==
  ASSUME InsightInv, NEW x \in Blocks, NextTo(x), NEW y \in Lineage(x)
  PROVE  NextTo(y)
<1> SUFFICES ASSUME NEW b \in Lineage(y), b # y PROVE next[b] \in Lineage(y)
  BY DEF NextTo
<1>1. y \in Blocks /\ b \in Blocks /\ b \in Lineage(x)
  BY LineageClosed, LineageTransitive
<1>2. b # x
  BY <1>1, LineageAntisymmetric
<1>3. next[b] \in Lineage(x) /\ next[b] \in Blocks
  BY <1>1, <1>2, LineageClosed DEF NextTo
<1>4. Parent[next[b]] = b
  BY <1>1, <1>3, BlocksAssumption DEF InsightInv, LinkInv, NextIsBlock, Hashes
<1>5. CASE y \in Lineage(next[b])
  <2>1. y = next[b] \/ y \in Lineage(b)
    BY <1>1, <1>3, <1>4, <1>5, LineageParent, BlocksAssumption
  <2>2. y \notin Lineage(b)
    BY <1>1, LineageAntisymmetric
  <2> QED
    BY <1>1, <2>1, <2>2, LineageClosed
<1> QED
  BY <1>1, <1>3, <1>5, LineageLinear

LEMMA NotBelowItself ==
  ASSUME NEW b \in Blocks, Parent[b] \in Blocks
  PROVE  /\ Parent[b] \in Lineage(b) /\ Lineage(Parent[b]) = Lineage(b) \ {b}
         /\ Parent[b] # b
BY LineageParent, LineageClosed, BlocksAssumption

-----------------------------------------------------------------------------
(* The walk back                                                           *)

(* Before updateStartBlock asks whether got is on the chain.               *)
Asking == hpc = "info" \/ hpc = "orphTxs"

LEMMA TopOfWalk ==
  ASSUME Settling, hpc \in OrphanOps \cup {"info"}
  PROVE  /\ got \in Blocks /\ Has(got) /\ got \in Lineage(tip) /\ tip \in Blocks
         /\ oldtip # Null => oldtip \in Blocks /\ Has(oldtip)
         /\ (chainHeight = Height[got] \/ OnChain(got)) => IsMain(got)
<1> USE DEF Settling, SettleInv
<1>1. tip \in Blocks /\ got \in Lineage(tip) /\ LineageStored(tip)
  BY StepsKeepBlocks DEF WalkBack, CopyInv
<1>2. got \in Blocks /\ Has(got)
  BY <1>1, LineageClosed DEF LineageStored
<1>3. oldtip # Null => oldtip \in Blocks /\ Has(oldtip)
  BY <1>1, LineageClosed DEF LineageStored, WalkBack
<1> QED
  BY <1>1, <1>2, <1>3 DEF WalkBack, OrphansOff

(* Where the walk stops, the main chain ends; where it goes on, nothing    *)
(* main is left above.                                                     *)
LEMMA WalkEnds ==
  ASSUME Settling, Asking
  PROVE  /\ IsMain(got) /\ (oldtip = Null \/ hpc = "orphTxs") => MainTo(got)
         /\ oldtip = Null \/ hpc = "orphTxs" =>
              \A h \in Lineage(tip) : IsMain(h) => h \in Lineage(got)
<1> USE DEF Settling, SettleInv, Asking, OrphanOps
<1>1. /\ got \in Blocks /\ got \in Lineage(tip) /\ tip \in Blocks
      /\ oldtip # Null => oldtip \in Blocks
  BY TopOfWalk
<1>2. PICK x \in Lineage(tip) : MainTo(x)
  BY <1>1, BlocksAssumption DEF TipState
<1>3. x \in Blocks /\ IsMain(x)
  BY <1>1, <1>2, LineageClosed DEF MainTo
<1>4. ASSUME oldtip = Null \/ hpc = "orphTxs"
      PROVE  \A h \in Lineage(tip) : IsMain(h) => h \in Lineage(got)
  <2>1. CASE oldtip = Null
    BY <2>1 DEF WalkBack
  <2>2. CASE oldtip # Null /\ hpc = "orphTxs"
    <3>1. ~IsMain(oldtip) /\ Parent[oldtip] = got /\ oldtip \in Blocks
          /\ \A h \in Lineage(tip) : IsMain(h) => h \in Lineage(oldtip)
      BY <1>1, <2>2 DEF WalkBack
    <3> QED
      BY <1>1, <3>1, NotBelowItself
  <2> QED
    BY <1>4, <2>1, <2>2
<1>5. ASSUME IsMain(got), oldtip = Null \/ hpc = "orphTxs" PROVE MainTo(got)
  <2>1. x \in Lineage(got) /\ got \in Lineage(x)
    BY <1>1, <1>2, <1>3, <1>4, <1>5 DEF MainTo
  <2> QED
    BY <1>1, <1>2, <2>1, LineageAntisymmetric
<1> QED
  BY <1>4, <1>5

(* Nothing that the rest of the invariant reads moves.                     *)
SameIndex == UNCHANGED <<prev, next, main, tip, best>>

LEMMA StepBackSettles ==
  ASSUME Settling, SameIndex, UNCHANGED chainHeight,
         (hpc = "info" /\ oldtip = Null) \/ hpc = "orphTxs",
         NEW answer, StepBack(answer),
         answer = "onChain" => IsMain(got),
         answer = "orphan" => ~OnChain(got) /\ Height[got] # chainHeight /\ got # Genesis
  PROVE  SettleInv'
<1> USE DEF Settling, SettleInv, SameIndex, HGoto
<1>1. Asking /\ (oldtip = Null \/ hpc = "orphTxs")
  BY DEF Asking
<1>2. /\ got \in Blocks /\ Has(got) /\ got \in Lineage(tip) /\ tip \in Blocks
      /\ tip # Null
  BY <1>1, TopOfWalk, BlocksAssumption DEF Asking, OrphanOps
<1>3. NextTo(tip) /\ \E x \in Lineage(tip) : MainTo(x)
  BY <1>1, <1>2 DEF Asking, TipState
<1>4. \A h \in Lineage(tip) : ~IsMain(h) => Height[h] # chainHeight
  BY <1>1, <1>2 DEF Asking, WalkBack, OrphanOps
<1>5. OrphansOff'
  BY DEF OrphansOff, Has, IsMain, OnChain
<1>6. CASE answer = "onChain"
  <2>1. hpc' = "fetch" /\ cursor' = got /\ oldtip' = Null
    BY <1>6 DEF StepBack, StartFrom
  <2>2. MainTo(got) /\ got # Null
    BY <1>1, <1>2, <1>6, WalkEnds, BlocksAssumption
  <2>3. TipState' /\ WalkBack'
    BY <1>2, <1>3, <2>1 DEF TipState, WalkBack, OrphanOps, NextTo, MainTo, IsMain
  <2>4. CopyState'
    BY <1>2, <2>1, <2>2 DEF CopyState, OnMain, MainTo, IsMain
  <2>5. HeightsPassed'
    BY <1>2, <2>1 DEF HeightsPassed, Passed, Has, OnChain
  <2> QED
    BY <1>5, <2>3, <2>4, <2>5
<1>7. CASE answer = "orphan"
  <2>1. hpc' = "info" /\ oldtip' = got /\ got' = Parent[got] /\ UNCHANGED cursor
    BY <1>7 DEF StepBack
  <2>2. got # Null /\ Parent[got] \in Lineage(tip)
    BY <1>2, <1>7, LineageClosed, TreeAssumption, BlocksAssumption DEF Closed
  <2>3. \A h \in Lineage(tip) : IsMain(h) => h \in Lineage(got)
    BY <1>1, WalkEnds
  <2>4. TipState'
    BY <1>2, <1>3, <2>1 DEF TipState, NextTo, MainTo, IsMain
  <2>5. WalkBack'
    BY <1>2, <1>4, <1>7, <2>1, <2>2, <2>3 DEF WalkBack, OrphanOps, IsMain, OnChain
  <2>6. CopyState'
    BY <2>1 DEF CopyState
  <2>7. HeightsPassed'
    BY <2>1 DEF HeightsPassed, Passed, Has, OnChain
  <2> QED
    BY <1>5, <2>4, <2>5, <2>6, <2>7
<1> QED
  BY <1>6, <1>7 DEF StepBack

(* A restart after which nothing is worse than before.                     *)
LEMMA StopSettles ==
  ASSUME Settling, Stops, RpcFails \/ hpc = "idle", hpc \notin {"store", "setTip"}
  PROVE  SettleInv'
<1> USE DEF Settling, SettleInv, Stops, BootAgain, blockVars
<1>1. OrphansOff'
  BY DEF OrphansOff, Has, IsMain, OnChain
<1>2. TipState'
  BY DEF TipState, Empty, Has, NextTo, MainTo, IsMain
<1>3. WalkBack' /\ CopyState'
  BY DEF WalkBack, CopyState, OrphanOps
<1>4. HeightsPassed'
  BY BlocksAssumption DEF HeightsPassed, Passed, Has, OnChain
<1> QED
  BY <1>1, <1>2, <1>3, <1>4

(* Historic sync alone, and no operation of the database fails.            *)
Sound == Callers = {Historic} /\ Faults \cap {"dbError", "crash"} = {}

LEMMA TipInfoSettles ==
  ASSUME Sound, Settling, TipInfo
  PROVE  SettleInv'
<1> USE DEF Settling, SettleInv
<1>1. PICK answer \in Answers :
        /\ IF answer = "nothing"
           THEN RpcFails
           ELSE answer = "onChain" <=> (chainHeight = Height[got] \/ OnChain(got))
        /\ IF oldtip # Null
           THEN /\ found' = answer /\ HGoto("orphMain") /\ SameForStart
                /\ UNCHANGED <<vars, status, cursor, got, oldtip, unconfirm>>
           ELSE IF answer = "nothing"
                THEN Reboot
                ELSE StepBack(answer) /\ SameForStart /\ UNCHANGED vars
  BY DEF TipInfo, Sound, DbFails
<1>2. hpc = "info" /\ got \in Blocks /\ got \in Lineage(tip) /\ tip \in Blocks
      /\ ((chainHeight = Height[got] \/ OnChain(got)) => IsMain(got))
  BY TopOfWalk DEF TipInfo
<1>3. /\ answer = "onChain" => IsMain(got)
      /\ answer = "orphan" => ~OnChain(got) /\ Height[got] # chainHeight /\ got # Genesis
  BY <1>1, <1>2, StepsKeepBlocks
<1>4. CASE oldtip # Null
  <2>1. /\ hpc' = "orphMain" /\ found' = answer
        /\ UNCHANGED <<prev, next, main, tip, best, chainHeight, status, cursor, got, oldtip>>
    BY <1>1, <1>4 DEF HGoto, SameForStart, vars, blockVars, nodeVars
  <2>2. OrphansOff'
    BY <2>1 DEF OrphansOff, Has, IsMain, OnChain
  <2>3. TipState'
    BY <1>2, <2>1 DEF TipState, Empty, Has, NextTo, MainTo, IsMain
  <2>4. WalkBack'
    BY <1>2, <1>3, <1>4, <2>1 DEF WalkBack, OrphanOps, IsMain, OnChain
  <2>5. CopyState' /\ HeightsPassed'
    BY <1>2, <2>1 DEF CopyState, HeightsPassed, Passed, Has, OnChain
  <2> QED
    BY <2>2, <2>3, <2>4, <2>5
<1>5. CASE oldtip = Null /\ answer = "nothing"
  BY <1>1, <1>2, <1>5, HowItStops, StopSettles
<1>6. CASE oldtip = Null /\ answer # "nothing"
  <2>1. StepBack(answer) /\ SameIndex /\ UNCHANGED chainHeight
    BY <1>1, <1>6 DEF SameIndex, SameForStart, vars, blockVars, nodeVars
  <2> QED
    BY <1>2, <1>3, <1>6, <2>1, StepBackSettles
<1> QED
  BY <1>4, <1>5, <1>6

LEMMA OldTipMainSettles ==
  ASSUME Settling, OldTipMain
  PROVE  SettleInv'
<1> USE DEF Settling, SettleInv
<1>1. /\ hpc = "orphMain" /\ hpc' = "orphScan"
      /\ main' = [main EXCEPT ![oldtip] = "orphan"]
      /\ UNCHANGED <<prev, next, tip, best, chainHeight, status, cursor, got, oldtip, found>>
  BY DEF OldTipMain, SetMain, HGoto, SameForStart, startVars, nodeVars
<1>2. /\ oldtip # Null /\ oldtip \in Blocks /\ got \in Blocks /\ Has(oldtip)
      /\ tip \in Blocks /\ got \in Lineage(tip) /\ tip # Null
  BY <1>1, TopOfWalk, BlocksAssumption DEF WalkBack, OrphanOps
<1>3. /\ oldtip \in Lineage(tip) /\ Parent[oldtip] = got
      /\ ~OnChain(oldtip) /\ Height[oldtip] # chainHeight
      /\ \A h \in Lineage(tip) : IsMain(h) => h \in Lineage(oldtip)
  BY <1>1, <1>2 DEF WalkBack, OrphanOps
<1>4. \A h \in Blocks : IsMain(h)' <=> IsMain(h) /\ h # oldtip
  BY <1>1, <1>2 DEF IsMain, InsightInv, TypeInv, TypeOK, BlockDbTypeOK, Hashes
<1>5. OrphansOff'
  BY <1>1, <1>3, <1>4 DEF OrphansOff, Has, OnChain
<1>6. \E x \in Lineage(tip) : MainTo(x)'
  <2>1. PICK x \in Lineage(tip) : MainTo(x)
    BY <1>1, <1>2 DEF TipState
  <2>2. x \in Blocks /\ x \in Lineage(oldtip)
    BY <1>2, <1>3, <2>1, LineageClosed DEF MainTo
  <2>3. CASE oldtip \in Lineage(x)
    <3>1. x = oldtip
      BY <1>2, <2>2, <2>3, LineageAntisymmetric
    <3> QED
      BY <1>2, <1>3, <1>4, <2>1, <3>1, NotBelowItself DEF MainTo
  <2>4. CASE oldtip \notin Lineage(x)
    BY <1>4, <2>1, <2>4 DEF MainTo
  <2> QED
    BY <2>3, <2>4
<1>7. TipState'
  <2>1. NextTo(tip)'
    BY <1>1, <1>2 DEF TipState, NextTo
  <2> QED
    BY <1>1, <1>2, <1>6, <2>1 DEF TipState
<1>8. WalkBack'
  <2>1. \A h \in Lineage(tip) : h \in Blocks
    BY <1>2, LineageClosed
  <2>2. got # oldtip
    BY <1>2, <1>3, NotBelowItself
  <2>3. \A h \in Lineage(tip) : ~IsMain(h) => Height[h] # chainHeight
    BY <1>1, <1>2 DEF WalkBack, OrphanOps
  <2>4. /\ found = "onChain" => IsMain(got)
        /\ found = "orphan" => ~OnChain(got) /\ Height[got] # chainHeight
    BY <1>1 DEF WalkBack, OrphanOps
  <2> QED
    BY <1>1, <1>2, <1>3, <1>4, <2>1, <2>2, <2>3, <2>4 DEF WalkBack, OrphanOps, OnChain
<1>9. CopyState' /\ HeightsPassed'
  BY <1>1 DEF CopyState, HeightsPassed, Passed, Has, OnChain
<1> QED
  BY <1>5, <1>7, <1>8, <1>9

LEMMA OldTipTxsSettles ==
  ASSUME Sound, Settling, OldTipScan \/ OldTipTxs \/ OldTipLost
  PROVE  SettleInv'
<1> USE DEF Settling, SettleInv
<1>1. CASE OldTipScan
  <2>1. /\ hpc = "orphScan" /\ hpc' = "orphTxs"
        /\ UNCHANGED <<prev, next, main, tip, best, chainHeight, status, cursor, got, oldtip, found>>
    BY <1>1 DEF OldTipScan, HGoto, SameForStart, vars, blockVars, nodeVars
  <2> QED
    BY <2>1 DEF OrphansOff, TipState, WalkBack, CopyState, HeightsPassed, OrphanOps, Empty, NextTo,
                MainTo, Passed, Has, IsMain, OnChain
<1>2. CASE OldTipTxs
  <2>1. hpc = "orphTxs" /\ StepBack(found) /\ SameIndex /\ UNCHANGED chainHeight
    BY <1>2 DEF OldTipTxs, SameForStart, SameIndex, blockVars, nodeVars
  <2>2. /\ found = "onChain" => IsMain(got)
        /\ found = "orphan" => ~OnChain(got) /\ Height[got] # chainHeight
    BY <2>1 DEF WalkBack, OrphanOps
  <2> QED
    BY <2>1, <2>2, StepsKeepBlocks, StepBackSettles
<1>3. CASE OldTipLost
  <2>1. hpc = "orphTxs" /\ RpcFails
    BY <1>3 DEF OldTipLost, Sound, DbFails, InsightInv, HistoricInv, HistoricBlocks, OrphanOps
  <2> QED
    BY <1>3, <2>1, HowItStops, StopSettles
<1> QED
  BY <1>1, <1>2, <1>3

LEMMA PreparingSettles ==
  ASSUME Sound, Settling,
         \/ CheckNetworkSettings \/ UpdateBlockChainHeight \/ ReadTip \/ PrepareFails
         \/ HeightFails
  PROVE  SettleInv'
<1> USE DEF Settling, SettleInv, HGoto, vars, blockVars, nodeVars, startVars, SameForStart
<1>1. ASSUME UNCHANGED <<prev, next, main, tip, best, cursor>>,
             hpc \notin {"store", "setTip"}, hpc' \notin {"store", "setTip"}
      PROVE  /\ OrphansOff' /\ HeightsPassed'
             /\ tip = Null => Empty /\ Empty'
             /\ tip # Null => NextTo(tip)' /\ (\E x \in Lineage(tip) : MainTo(x)')
             /\ \A x : MainTo(x) <=> MainTo(x)'
  BY <1>1 DEF OrphansOff, HeightsPassed, TipState, Empty, NextTo, MainTo, Passed, Has, IsMain,
              OnChain
<1>2. CASE CheckNetworkSettings
  <2>1. hpc = "check" /\ hpc' = "height"
        /\ UNCHANGED <<prev, next, main, tip, best, cursor, oldtip>>
    BY <1>2 DEF CheckNetworkSettings
  <2> QED
    BY <1>1, <2>1 DEF TipState, WalkBack, CopyState, OrphanOps
<1>3. CASE UpdateBlockChainHeight
  <2>1. hpc = "height" /\ hpc' = "tip" /\ chainHeight' = Height[best]
        /\ UNCHANGED <<prev, next, main, tip, best, cursor, oldtip>>
    BY <1>3 DEF UpdateBlockChainHeight
  <2>2. ASSUME tip # Null, NEW h \in Lineage(tip), ~IsMain(h) PROVE Height[h] # Height[best]
    <3>1. tip \in Blocks /\ h \in Blocks /\ Has(h) /\ best \in Blocks
      BY <2>2, StepsKeepBlocks DEF CopyInv, LineageStored
    <3>2. ~OnChain(h)
      BY <2>2, <3>1 DEF OrphansOff
    <3>3. RpcFails
      BY <2>1, <2>2, <3>1 DEF TipState, MainTo
    <3>4. Height[h] < Height[best] /\ Height[h] \in Nat /\ Height[best] \in Nat
      BY <3>1, <3>2, <3>3, TreeAssumption DEF HeightsPassed, Passed
    <3> QED
      BY <3>4
  <2>3. WalkBack'
    <3>1. oldtip = Null
      BY <2>1 DEF WalkBack, OrphanOps
    <3> QED
      BY <2>1, <2>2, <3>1 DEF WalkBack, OrphanOps, IsMain
  <2> QED
    BY <1>1, <2>1, <2>3 DEF TipState, CopyState
<1>4. CASE ReadTip
  <2>1. hpc = "tip" /\ UNCHANGED <<prev, next, main, tip, best, chainHeight>>
    BY <1>4 DEF ReadTip
  <2>2. OrphansOff' /\ TipState'
    <3>1. hpc' \in {"info", "fetch"}
      BY <1>4 DEF ReadTip, StartFrom
    <3> QED
      BY <2>1, <3>1 DEF OrphansOff, TipState, Empty, NextTo, MainTo, Has, IsMain, OnChain
  <2>3. CASE tip = Null
    <3>1. hpc' = "fetch" /\ cursor' = Genesis /\ oldtip' = Null
      BY <1>4, <2>3 DEF ReadTip, StartFrom
    <3>2. Empty /\ OnChain(Genesis) /\ Genesis \in Blocks /\ Genesis # Null
      BY <2>1, <2>3, StepsKeepBlocks, BlocksAssumption DEF TipState
    <3>3. WalkBack' /\ CopyState'
      BY <2>1, <2>3, <3>1, <3>2 DEF WalkBack, CopyState, OnTop, OrphanOps, Empty, Has, IsMain
    <3>4. HeightsPassed'
      BY <2>1, <3>1, <3>2 DEF HeightsPassed, Passed, Has, OnChain
    <3> QED
      BY <2>2, <3>3, <3>4
  <2>4. CASE tip # Null
    <3>1. hpc' = "info" /\ got' = tip /\ UNCHANGED <<cursor, oldtip>>
      BY <1>4, <2>4, <1>1 DEF ReadTip, Sound, DbFails
    <3>2. oldtip = Null /\ tip \in Lineage(tip)
      BY <2>1, <2>4, StepsKeepBlocks DEF WalkBack, OrphanOps
    <3>3. WalkBack' /\ CopyState'
      BY <2>1, <2>4, <3>1, <3>2 DEF WalkBack, CopyState, OrphanOps, IsMain
    <3>4. HeightsPassed'
      BY <2>1, <3>1 DEF HeightsPassed, Passed, Has, OnChain
    <3> QED
      BY <2>2, <3>3, <3>4
  <2> QED
    BY <2>3, <2>4
<1>5. CASE PrepareFails
  <2>1. hpc = "check" /\ RpcFails /\ hpc' = "idle" /\ status' = "error"
        /\ UNCHANGED <<prev, next, main, tip, best, cursor, oldtip>>
    BY <1>5 DEF PrepareFails, Sound, DbFails
  <2> QED
    BY <1>1, <2>1 DEF TipState, WalkBack, CopyState, OrphanOps
<1>6. CASE HeightFails
  BY <1>6, HowItStops, StopSettles DEF HeightFails
<1> QED
  BY <1>2, <1>3, <1>4, <1>5, <1>6

-----------------------------------------------------------------------------
(* Copying                                                                 *)

LEMMA FetchSettles ==
  ASSUME Settling, Fetch
  PROVE  SettleInv'
<1> USE DEF Settling, SettleInv
<1>1. /\ hpc = "fetch" /\ cursor # Null /\ hpc' = "store" /\ got' = cursor
      /\ cursor' = NextOnChain(cursor)
      /\ UNCHANGED <<prev, next, main, tip, best, oldtip>>
      /\ pc'[Historic] = "hasBlock"
  BY InsightAssumption
     DEF Fetch, Call, Goto, HGoto, SameDb, blockVars, nodeVars, startVars, InsightInv, TypeInv,
         TypeOK
<1>2. cursor \in Blocks /\ (OnMain(cursor) \/ OnTop(cursor)) /\ (tip # Null => NextTo(tip))
  BY <1>1, BlocksCopied DEF CopyState, TipState
<1>3. ASSUME cursor' # Null
      PROVE  cursor' \in Blocks /\ OnChain(cursor') /\ ~Has(cursor')
  <2>1. cursor' \in Blocks /\ Parent[cursor'] = cursor /\ OnChain(cursor')
    BY <1>1, <1>2, <1>3, NextIsOnChain
  <2>2. ASSUME Has(cursor') PROVE FALSE
    <3>1. IsMain(cursor') /\ cursor' \notin Lineage(cursor)
      BY <1>2, <2>1, <2>2, ChildIsAbove DEF OrphansOff
    <3>2. ~OnMain(cursor)
      BY <2>1, <3>1 DEF OnMain, MainTo
    <3>3. OnTop(cursor) /\ ~Has(cursor)
      BY <1>2, <3>2 DEF OnTop
    <3>4. tip # Null /\ cursor' \in Lineage(tip)
      BY <2>1, <2>2, <3>1, <3>3 DEF OnTop, Empty, MainTo
    <3>5. cursor \in Lineage(tip)
      BY <1>2, <2>1, <3>4, StepsKeepBlocks, LineageClosed, BlocksAssumption DEF Closed
    <3> QED
      BY <3>3, <3>4, <3>5 DEF CopyInv, LineageStored
  <2> QED
    BY <2>1, <2>2
<1>4. OrphansOff'
  BY <1>1 DEF OrphansOff, Has, IsMain, OnChain
<1>5. TipState' /\ WalkBack'
  BY <1>1 DEF TipState, WalkBack, OrphanOps
<1>6. CopyState'
  <2>1. (OnMain(got) \/ OnTop(got))' /\ (tip # Null => NextTo(tip))'
    BY <1>1, <1>2 DEF OnMain, OnTop, MainTo, NextTo, Empty, Has, IsMain
  <2>2. (cursor # Null => ~Has(cursor))'
    BY <1>1, <1>3 DEF Has
  <2> QED
    BY <1>1, <2>1, <2>2 DEF CopyState
<1>7. HeightsPassed'
  <2>1. RpcFails => Passed(cursor)
    BY <1>2 DEF HeightsPassed
  <2>2. \A h \in Blocks : h = cursor' => OnChain(h)
    BY <1>3, BlocksAssumption
  <2> QED
    BY <1>1, <2>1, <2>2 DEF HeightsPassed, Passed, OnChain, Has
<1> QED
  BY <1>4, <1>5, <1>6, <1>7

LEMMA EndOfSyncSettles ==
  ASSUME Sound, Settling, FetchFails \/ Finish
  PROVE  SettleInv'
<1> USE DEF Settling, SettleInv
<1>1. /\ hpc = "fetch" /\ hpc' = "idle"
      /\ UNCHANGED <<prev, next, main, tip, best, cursor, oldtip>>
      /\ \/ status' = "error" /\ RpcFails
         \/ status' = "finished" /\ cursor = Null
  BY DEF FetchFails, Finish, Done, HGoto, Sound, DbFails, vars, blockVars, nodeVars, startVars
<1>2. cursor = Null => tip # Null /\ MainTo(tip)
  BY <1>1 DEF CopyState
<1> QED
  BY <1>1, <1>2 DEF OrphansOff, TipState, WalkBack, CopyState, HeightsPassed, OrphanOps, Empty,
                    NextTo, MainTo, Passed, Has, IsMain, OnChain

LEMMA SetTipSettles ==
  ASSUME Settling, SetHistoricTip
  PROVE  SettleInv'
<1> USE DEF Settling, SettleInv
<1>1. /\ hpc = "setTip" /\ hpc' = "fetch" /\ tip' = got
      /\ UNCHANGED <<prev, next, main, best, cursor, got, oldtip>>
  BY DEF SetHistoricTip, SetTip, HGoto, nodeVars, startVars
<1>2. /\ got \in Blocks /\ got # Null /\ got \in Lineage(got) /\ MainTo(got) /\ NextTo(got)
      /\ oldtip = Null
  BY <1>1, BlocksCopied, BlocksAssumption, LineageClosed DEF CopyState, WalkBack, OrphanOps
<1>3. cursor # Null => ~Has(cursor) /\ Parent[cursor] = got
  BY <1>1 DEF CopyState, CopyInv
<1>4. OrphansOff' /\ HeightsPassed'
  BY <1>1 DEF OrphansOff, HeightsPassed, Passed, Has, IsMain, OnChain
<1>5. MainTo(got)' /\ NextTo(got)'
  BY <1>1, <1>2 DEF MainTo, NextTo, IsMain
<1>6. TipState' /\ WalkBack'
  BY <1>1, <1>2 DEF TipState, WalkBack, OrphanOps, MainTo, NextTo, IsMain
<1>7. CopyState'
  BY <1>1, <1>2, <1>3 DEF CopyState, OnTop, MainTo, Has, IsMain
<1> QED
  BY <1>4, <1>6, <1>7

(* Its call of storeTipBlock, which takes the short way.                   *)
LEMMA StoreStage ==
  ASSUME Settling, Stored \/ StoreFails \/ Storing
  PROVE  /\ hpc = "store" /\ blk[Historic] = got /\ got \in Blocks /\ Historic \in Callers
         /\ pc[Historic] = "hasBlock" => OnMain(got) \/ OnTop(got)
         /\ pc[Historic] \in {"createTxs", "add"} => OnTop(got)
         /\ OnMain(got) => Has(got)
         /\ tip # Null => NextTo(tip)
         /\ cursor # Null => ~Has(cursor) /\ Parent[cursor] = got
         /\ oldtip = Null
<1>1. pc[Historic] # "idle"
  BY DEF Stored, StoreFails, Storing, SetNextStep, HasBlock, DbError, FailTx, TxsStored, Add,
         StoreTx, MissTx, Ops, StoreOps, ReorgOps, LinkOps
<1>2. hpc = "store" /\ blk[Historic] = got /\ got \in Blocks /\ Historic \in Callers
  BY <1>1, BlocksCopied, InsightAssumption DEF Settling, InsightInv, HistoricInv, HistoricCall
<1>3. OnMain(got) => Has(got)
  BY DEF OnMain, Settling, CopyInv, LineageStored
<1> QED
  BY <1>2, <1>3 DEF Settling, SettleInv, CopyState, CopyInv, WalkBack, OrphanOps

LEMMA StoredSettles ==
  ASSUME Settling, Stored
  PROVE  SettleInv'
<1> USE DEF Settling, SettleInv
<1>1. /\ hpc = "store" /\ blk[Historic] = got /\ got \in Blocks /\ hpc' = "setTip"
      /\ oldtip = Null /\ (tip # Null => NextTo(tip) /\ tip \in Blocks)
      /\ cursor # Null => ~Has(cursor)
  BY StoreStage, StepsKeepBlocks DEF Stored, HGoto
<1>2. UNCHANGED <<prev, main, tip, best, cursor, got, oldtip>>
  BY DEF Stored, SetNextStep, SetNext, HasBlock, SameDb, blockVars, nodeVars, startVars
<1>3. OrphansOff' /\ TipState' /\ WalkBack'
  BY <1>1, <1>2 DEF OrphansOff, TipState, WalkBack, OrphanOps, Has, IsMain, OnChain
<1>4. HeightsPassed'
  BY <1>1, <1>2 DEF HeightsPassed, Passed, Has, OnChain
<1>5. MainTo(got) /\ NextTo(got)'
  <2>1. CASE HasBlock(Historic) /\ Has(got)
    <3>1. OnMain(got) /\ UNCHANGED next
      BY <1>1, <2>1, StoreStage DEF HasBlock, SameDb, blockVars, OnTop
    <3>2. NextTo(got)
      BY <1>1, <3>1, NextToBelow DEF OnMain
    <3> QED
      BY <1>2, <3>1, <3>2 DEF OnMain, NextTo
  <2>2. CASE SetNextStep(Historic)
    <3>1. next' = [next EXCEPT ![Parent[got]] = got] /\ pc[Historic] = "setNext"
      BY <1>1, <2>2 DEF SetNextStep, SetNext, NewPrev
    <3>2. /\ MainTo(got) /\ (tip = Null => got = Genesis)
          /\ tip # Null => Parent[got] = tip
      BY <1>1, <3>1 DEF CopyState
    <3>3. CASE tip = Null
      <4>1. Lineage(got) = {got}
        BY <1>1, <3>2, <3>3, LineageStep, TreeAssumption
      <4> QED
        BY <1>2, <3>2, <4>1 DEF NextTo
    <3>4. CASE tip # Null
      <4>1. Lineage(tip) = Lineage(got) \ {got} /\ got \in Lineage(got)
            /\ Lineage(tip) \in SUBSET Blocks
        BY <1>1, <3>2, <3>4, NotBelowItself, LineageClosed
      <4>2. \A b \in Blocks : next'[b] = IF b = tip THEN got ELSE next[b]
        BY <3>1, <3>2, <3>4, <1>1 DEF InsightInv, TypeInv, TypeOK, BlockDbTypeOK, Hashes
      <4> QED
        BY <1>1, <1>2, <3>2, <3>4, <4>1, <4>2 DEF NextTo
    <3> QED
      BY <3>3, <3>4
  <2> QED
    BY <1>1, <2>1, <2>2 DEF Stored
<1>6. CopyState'
  BY <1>1, <1>2, <1>5 DEF CopyState, MainTo, NextTo, Has, IsMain
<1> QED
  BY <1>3, <1>4, <1>6

LEMMA StoreFailsSettles ==
  ASSUME Sound, Settling, StoreFails
  PROVE  SettleInv'
<1> USE DEF Settling, SettleInv
<1>1. PICK t \in Txs : FailTx(Historic, t)
  BY DEF StoreFails, DbError, Sound
<1>2. /\ RpcFails /\ hpc' = "idle" /\ status' = "error"
      /\ UNCHANGED <<prev, next, main, tip, best, cursor, oldtip>>
  BY <1>1 DEF StoreFails, FailTx, SameDb, blockVars, Done, HGoto, Sound, RpcFails, nodeVars, startVars
<1>3. OnTop(got) /\ (tip # Null => NextTo(tip) /\ tip \in Lineage(tip)) /\ oldtip = Null
  BY <1>1, StoreStage, StepsKeepBlocks DEF FailTx
<1> QED
  BY <1>2, <1>3 DEF OrphansOff, TipState, WalkBack, CopyState, HeightsPassed, OrphanOps, OnTop,
                    Empty, NextTo, MainTo, Passed, Has, IsMain, OnChain

LEMMA StoringSettles ==
  ASSUME Settling, Storing
  PROVE  SettleInv'
<1> USE DEF Settling, SettleInv
<1>1. /\ hpc = "store" /\ blk[Historic] = got /\ got \in Blocks /\ oldtip = Null
      /\ Historic \in Callers
      /\ cursor # Null => ~Has(cursor) /\ Parent[cursor] = got /\ cursor \in Blocks
  BY StoreStage, BlocksCopied
<1>2. UNCHANGED <<next, tip, best, hpc, cursor, got, oldtip>> /\ (tip # Null => NextTo(tip))
  BY StoreStage DEF Storing, HasBlock, TxsStored, Add, AddBlock, StoreTx, MissTx, SameDb,
                    blockVars, nodeVars, historicVars, startVars
<1>3. TipState' /\ WalkBack'
  BY <1>1, <1>2 DEF TipState, WalkBack, OrphanOps
<1>4. CASE ~Add(Historic)
  <2>1. UNCHANGED <<prev, main>> /\ OnTop(got)
        /\ pc'[Historic] \in {"createTxs", "add"}
    BY <1>1, <1>4, StoreStage
       DEF Storing, HasBlock, BeginTxs, TxsStored, StoreTx, MissTx, SameDb, blockVars, Goto,
           InsightInv, TypeInv, TypeOK, HistoricInv, HistoricCall
  <2> QED
    BY <1>1, <1>2, <1>3, <2>1
       DEF OrphansOff, CopyState, HeightsPassed, Passed, OnTop, Empty, MainTo, NextTo, Has,
           IsMain, OnChain
<1>5. CASE Add(Historic)
  <2>1. /\ pc'[Historic] = "setNext" /\ OnTop(got)
        /\ prev' = [prev EXCEPT ![got] = Parent[got]]
        /\ main' = [main EXCEPT ![got] = "main"]
    BY <1>1, <1>5, StoreStage
       DEF Add, AddBlock, Goto, InsightInv, TypeInv, TypeOK, HistoricInv, HistoricCall
  <2>2. Parent[got] # Null
    BY <1>1, TreeAssumption, BlocksAssumption
  <2>3. \A h \in Blocks : /\ Has(h)' <=> Has(h) \/ h = got
                          /\ IsMain(h)' <=> IsMain(h) \/ h = got
    BY <1>1, <2>1, <2>2 DEF Has, IsMain, InsightInv, TypeInv, TypeOK, BlockDbTypeOK, Hashes
  <2>4. OrphansOff' /\ HeightsPassed'
    BY <1>1, <1>2, <2>3 DEF OrphansOff, HeightsPassed, Passed, OnChain
  <2>5. MainTo(got)'
    <3>1. CASE tip = Null
      <4>1. Lineage(got) = {got} /\ Empty
        BY <2>1, <3>1, LineageStep, BlocksAssumption, TreeAssumption DEF OnTop
      <4> QED
        BY <1>2, <2>3, <4>1 DEF MainTo, Empty
    <3>2. CASE tip # Null
      <4>1. MainTo(tip) /\ Lineage(tip) = Lineage(got) \ {got} /\ got \in Lineage(got)
        BY <1>1, <2>1, <3>2, NotBelowItself, StepsKeepBlocks, LineageClosed DEF OnTop
      <4> QED
        BY <1>2, <2>3, <4>1 DEF MainTo
    <3> QED
      BY <3>1, <3>2
  <2>6. cursor # Null => ~Has(cursor)'
    <3>1. cursor # Null => ~Has(cursor) /\ cursor \in Blocks /\ cursor # got
      BY <1>1, ChildIsAbove
    <3> QED
      BY <1>2, <2>3, <3>1 DEF Has
  <2>7. CopyState'
    BY <1>1, <1>2, <2>1, <2>5, <2>6 DEF CopyState, OnTop, NextTo, MainTo, Has, IsMain
  <2> QED
    BY <1>3, <2>4, <2>7
<1> QED
  BY <1>4, <1>5

-----------------------------------------------------------------------------
(* The node, restarts, and the theorem                                     *)

LEMMA NodeSettles ==
  ASSUME Settling, UNCHANGED vars, UNCHANGED historicVars, best' \in Blocks,
         best' # best => NewBranch
  PROVE  SettleInv'
<1> USE DEF Settling, SettleInv, vars, blockVars, historicVars, startVars
<1>1. \A h \in Blocks : Has(h) /\ OnChain(h)' => OnChain(h)
  BY DEF NewBranch, OnChain
<1>2. OrphansOff'
  BY <1>1 DEF OrphansOff, Has, IsMain
<1>3. TipState' /\ CopyState'
  BY DEF TipState, CopyState, Empty, OnMain, OnTop, MainTo, NextTo, Has, IsMain
<1>4. WalkBack'
  <2>1. CASE hpc \in OrphanOps \cup {"info"}
    <3>1. got \in Blocks /\ Has(got) /\ (oldtip # Null => oldtip \in Blocks /\ Has(oldtip))
      BY <2>1, TopOfWalk
    <3> QED
      BY <1>1, <2>1, <3>1 DEF WalkBack, OrphanOps, IsMain
  <2>2. CASE hpc \notin OrphanOps \cup {"info"}
    BY <2>2 DEF WalkBack, OrphanOps, IsMain
  <2> QED
    BY <2>1, <2>2
<1>5. HeightsPassed'
  <2>1. ASSUME RpcFails, best' # best, NEW h \in Blocks, Passed(h) PROVE Passed(h)'
    <3>1. best \in Blocks /\ Height[best] < Height[best']
      BY <2>1, StepsKeepBlocks, TreeAssumption DEF NewBranch
    <3>2. Height[h] \in Nat /\ Height[best] \in Nat /\ Height[best'] \in Nat
      BY <3>1, TreeAssumption
    <3>3. h = best \/ Height[h] < Height[best]
      BY <2>1, <3>1, LineageHeight DEF Passed, OnChain
    <3> QED
      BY <3>1, <3>2, <3>3 DEF Passed
  <2>2. best' = best => HeightsPassed'
    BY DEF HeightsPassed, Passed, OnChain, Has
  <2> QED
    BY <2>1, <2>2 DEF HeightsPassed, Has
<1> QED
  BY <1>2, <1>3, <1>4, <1>5

LEMMA InitSettleInv == InsightInit => SettleInv
BY BlocksAssumption
   DEF InsightInit, Init, BlockDbInit, SettleInv, OrphansOff, TipState, WalkBack, CopyState,
       HeightsPassed, OrphanOps, Empty, Has, IsMain, Hashes

LEMMA NextSettleInv ==
  ASSUME Sound, Settling, [SettledNext]_insightVars
  PROVE  SettleInv'
<1> USE DEF Settling
<1>1. CASE UNCHANGED insightVars
  BY <1>1, NodeSettles DEF insightVars, nodeVars, InsightInv, HistoricInv, HistoricTypes
<1>2. CASE HistoricProgress
  BY <1>2, TipInfoSettles, OldTipMainSettles, OldTipTxsSettles, PreparingSettles, FetchSettles,
     EndOfSyncSettles, SetTipSettles, StoredSettles, StoreFailsSettles, StoringSettles
     DEF HistoricProgress
<1>3. CASE Disconnect \/ \E b \in Blocks : Mine(b) /\ NewBranch
  <2>1. UNCHANGED vars /\ UNCHANGED historicVars /\ best' \in Blocks
    BY <1>3 DEF Disconnect, Mine, InsightInv, HistoricInv, HistoricTypes
  <2>2. best' # best => NewBranch
    BY <1>3 DEF Disconnect
  <2> QED
    BY <2>1, <2>2, NodeSettles
<1>4. ASSUME NEW t \in Txs, NEW b \in Blocks,
             StrayTx(t, b) /\ UNCHANGED <<nodeVars, historicVars>>
      PROVE  SettleInv'
  BY <1>4 DEF StrayTx, blockVars, nodeVars, historicVars, startVars, SettleInv, OrphansOff, TipState,
              WalkBack, CopyState, HeightsPassed, Empty, OnMain, OnTop, MainTo, NextTo, Passed, Has,
              IsMain, OnChain
<1>5. CASE CrashAndBoot
  BY <1>5, HowItStops, StopSettles DEF CrashAndBoot, Sound, Quiet
<1>6. Peers = {}
  BY DEF Peers, Sound
<1> QED
  BY <1>1, <1>2, <1>3, <1>4, <1>5, <1>6 DEF SettledNext, InsightStep

(* Whenever a historic sync has finished, the blocks flagged main are the  *)
(* tip and its ancestors, and the next pointers lead along them: what      *)
(* updateStartBlock, storeTipBlock and setTip leave behind when each takes *)
(* up where an earlier process, or an RPC error, has left the database.    *)
THEOREM SettledOnOneChain ==
  ASSUME Sound
  PROVE  SettledSpec => []SettledChain
<1>1. InsightInit => Settling
  BY InitInsightInv, InitCopyInv, InitSettleInv DEF Settling
<1>2. Settling /\ [SettledNext]_insightVars => Settling'
  BY NextInsightInv, NextCopyInv, NextSettleInv DEF Settling, SettledNext, InsightNext, Sound
<1>3. Settling => SettledChain
  <2> SUFFICES ASSUME Settling, Quiet, status = "finished" PROVE SettledChain
    BY DEF SettledChain
  <2>1. tip \in Blocks /\ MainTo(tip) /\ NextTo(tip)
    BY StepsKeepBlocks DEF Settling, SettleInv, TipState, Quiet
  <2> QED
    BY <2>1, LineageClosed DEF SettledChain, MainTo, NextTo
<1> QED
  BY <1>1, <1>2, <1>3, PTL DEF SettledSpec
-----------------------------------------------------------------------------
(* Confirmations                                                           *)

Rewriting == hpc \in {"orphScan", "orphTxs"}

(* The flags of all stored blocks agree, but for the one that              *)
(* updateStartBlock is making an orphan; of the block being added, the     *)
(* transactions are recorded; what goes on in the background belongs to a  *)
(* block that was not added.                                               *)
ConfirmInv ==
  /\ ConfirmedCanBeUndone
  /\ \A b \in Blocks : Has(b) => FlagsAgree(b) \/ (Rewriting /\ b = oldtip)
  /\ pc[Historic] \in {"createTxs", "add"} =>
       \A t \in Wanted(got) : \/ <<t, got>> \in inBlk \/ <<got, t>> \in missed
                              \/ pc[Historic] = "createTxs" /\ t \in todo[Historic]
  /\ hpc = "orphTxs" => unconfirm = TxsFromBlock(oldtip)
  /\ stray # {} => hpc = "idle"
  /\ \A t \in Txs, b \in Blocks : <<t, b>> \in stray => ~Has(b)

LEMMA InitConfirmInv == InsightInit => ConfirmInv
<1> SUFFICES ASSUME InsightInit PROVE ConfirmInv
  OBVIOUS
<1>1. ConfirmedCanBeUndone
  BY InitUndo DEF InsightInit
<1>2. hpc = "check" /\ stray = {} /\ pc[Historic] = "idle"
  BY InsightAssumption DEF InsightInit, Init
<1>3. \A b \in Blocks : ~Has(b)
  BY BlocksAssumption DEF InsightInit, Init, BlockDbInit, Has, Hashes
<1> QED
  BY <1>1, <1>2, <1>3 DEF ConfirmInv

LEMMA UndoKept ==
  ASSUME InsightInv, ConfirmedCanBeUndone, InsightNext
  PROVE  ConfirmedCanBeUndone'
<1>1. CASE [Next]_vars
  BY <1>1, NextUndo DEF InsightInv
<1>2. CASE HistoricWrites \/ Stops
  <2>1. fromBlk' = fromBlk /\ inBlk' \in SUBSET inBlk
    BY <1>2 DEF HistoricWrites, SetHistoricTip, OldTipMain, OldTipTxs, WriteConfirmations, Stops,
                txVars
  <2> QED
    BY <2>1 DEF ConfirmedCanBeUndone
<1> QED
  BY <1>1, <1>2, InsightSteps DEF InsightInv

(* Steps that write no block and no transaction, and are not between a     *)
(* block's flag and those of its transactions.                             *)
LEMMA ConfirmationsKept ==
  ASSUME ConfirmInv, ConfirmedCanBeUndone', UNCHANGED <<prev, main, inBlk, missed, stray>>,
         ~Rewriting, ~Rewriting',
         pc'[Historic] \in {"createTxs", "add"} => UNCHANGED <<pc, todo, got>>,
         hpc = "idle" => hpc' = "idle" \/ stray = {}
  PROVE  ConfirmInv'
BY DEF ConfirmInv, FlagsAgree, Rewriting, Has, IsMain

LEMMA OrphaningConfirms ==
  ASSUME Settling, ConfirmInv, ConfirmedCanBeUndone',
         OldTipMain \/ OldTipScan \/ OldTipTxs \/ OldTipLost
  PROVE  ConfirmInv'
<1> USE DEF Settling, SettleInv, ConfirmInv, Rewriting, HGoto, Has
<1>1. /\ oldtip \in Blocks /\ Wanted(oldtip) \in SUBSET Txs
      /\ stray = {} /\ pc[Historic] \notin {"createTxs", "add"}
  <2>1. hpc \in OrphanOps
    BY DEF OldTipMain, OldTipScan, OldTipTxs, OldTipLost, OrphanOps
  <2> QED
    BY <2>1, TopOfWalk, WantedTxs
       DEF WalkBack, InsightInv, HistoricInv, HistoricBlocks, HistoricCall, OrphanOps
<1>2. CASE OldTipMain
  <2>1. /\ hpc' = "orphScan" /\ hpc = "orphMain"
        /\ UNCHANGED <<prev, inBlk, missed, stray, pc, oldtip>>
        /\ \A b \in Blocks : b # oldtip => (IsMain(b)' <=> IsMain(b))
    BY <1>1, <1>2 DEF OldTipMain, SetMain, IsMain, txVars, startVars
  <2> QED
    BY <1>1, <2>1 DEF FlagsAgree
<1>3. CASE OldTipScan
  <2>1. /\ hpc' = "orphTxs" /\ hpc = "orphScan" /\ unconfirm' = TxsFromBlock(oldtip)
        /\ UNCHANGED <<prev, main, inBlk, fromBlk, missed, stray, pc, oldtip>>
    BY <1>3 DEF OldTipScan, vars, blockVars, txVars
  <2> QED
    BY <1>1, <2>1 DEF FlagsAgree, IsMain, TxsFromBlock
<1>4. CASE OldTipTxs \/ OldTipLost
  <2>1. /\ hpc = "orphTxs" /\ ~(hpc' \in {"orphScan", "orphTxs"})
        /\ inBlk' = inBlk \ (unconfirm \X {oldtip})
        /\ UNCHANGED <<prev, main, missed>> /\ stray' = {}
        /\ pc'[Historic] \notin {"createTxs", "add"}
    BY <1>1, <1>4, InsightAssumption
       DEF OldTipTxs, OldTipLost, WriteConfirmations, StepBack, StartFrom, Halt, BootAgain, blockVars
  <2>2. ~IsMain(oldtip)
    BY <2>1 DEF WalkBack
  <2>3. \A t \in Wanted(oldtip) : <<t, oldtip>> \in inBlk => t \in unconfirm
    BY <1>1, <2>1 DEF ConfirmedCanBeUndone, TxsFromBlock
  <2>4. ASSUME NEW b \in Blocks, b = oldtip PROVE FlagsAgree(b)'
    BY <2>1, <2>2, <2>3, <2>4 DEF FlagsAgree, IsMain
  <2>5. ASSUME NEW b \in Blocks, b # oldtip, FlagsAgree(b) PROVE FlagsAgree(b)'
    BY <2>1, <2>5 DEF FlagsAgree, IsMain
  <2> QED
    BY <2>1, <2>4, <2>5
<1> QED
  BY <1>2, <1>3, <1>4

LEMMA StoringConfirms ==
  ASSUME Settling, ConfirmInv, ConfirmedCanBeUndone', Storing
  PROVE  ConfirmInv'
<1> USE DEF ConfirmInv, Rewriting
<1>1. /\ hpc = "store" /\ blk[Historic] = got /\ got \in Blocks /\ Historic \in Callers
      /\ stray = {} /\ Wanted(got) \in SUBSET Txs
      /\ UNCHANGED <<hpc, got, stray>>
  BY StoreStage, WantedTxs
     DEF Storing, HasBlock, TxsStored, Add, StoreTx, MissTx, SameBackground, historicVars
<1>2. pc \in [Callers -> Ops \cup {"idle"}] /\ todo \in [Callers -> SUBSET Txs]
  BY DEF Settling, InsightInv, TypeInv, TypeOK
<1>3. CASE ~Has(got) /\ HasBlock(Historic)
  <2>1. /\ UNCHANGED <<prev, main, inBlk, missed>> /\ todo'[Historic] = Wanted(got)
        /\ pc'[Historic] = "createTxs"
    BY <1>1, <1>2, <1>3
       DEF HasBlock, BeginTxs, Goto, SameDb, SameBackground, blockVars, txVars, Settling,
           InsightInv, HistoricInv, HistoricCall
  <2> QED
    BY <1>1, <2>1 DEF FlagsAgree, Has, IsMain
<1>4. CASE TxsStored(Historic)
  <2>1. /\ UNCHANGED <<prev, main, inBlk, missed>> /\ pc[Historic] = "createTxs"
        /\ todo[Historic] = {} /\ pc'[Historic] = "add"
    BY <1>1, <1>2, <1>4
       DEF TxsStored, Goto, SameDb, SameBackground, blockVars, txVars, Settling, InsightInv,
           HistoricInv, HistoricCall
  <2> QED
    BY <1>1, <2>1 DEF FlagsAgree, Has, IsMain
<1>5. CASE Add(Historic)
  <2>1. /\ prev' = [prev EXCEPT ![got] = Parent[got]] /\ main' = [main EXCEPT ![got] = "main"]
        /\ UNCHANGED <<inBlk, missed>> /\ pc[Historic] = "add" /\ pc'[Historic] = "setNext"
    BY <1>1, <1>2, <1>5
       DEF Add, AddBlock, Goto, SameBackground, txVars, Settling, InsightInv, HistoricInv,
           HistoricCall
  <2>2. \A h \in Blocks : /\ Has(h)' => Has(h) \/ h = got
                          /\ h # got => (IsMain(h)' <=> IsMain(h))
    BY <1>1, <2>1 DEF Has, IsMain, Settling, InsightInv, TypeInv, TypeOK, BlockDbTypeOK, Hashes
  <2>3. FlagsAgree(got)'
    BY <1>1, <2>1
       DEF FlagsAgree, IsMain, Settling, InsightInv, TypeInv, TypeOK, BlockDbTypeOK, Hashes
  <2>4. ASSUME NEW h \in Blocks, h # got, FlagsAgree(h) PROVE FlagsAgree(h)'
    BY <2>1, <2>2, <2>4 DEF FlagsAgree
  <2> QED
    BY <1>1, <2>1, <2>2, <2>3, <2>4
<1>6. ASSUME NEW t \in Txs, StoreTx(Historic, t) \/ MissTx(Historic, t) PROVE ConfirmInv'
  <2>1. /\ UNCHANGED <<prev, main, pc>> /\ pc[Historic] = "createTxs"
        /\ todo' = [todo EXCEPT ![Historic] = @ \ {t}]
        /\ \/ inBlk' = inBlk \cup {<<t, got>>} /\ UNCHANGED missed
           \/ missed' = missed \cup {<<got, t>>} /\ UNCHANGED inBlk
    BY <1>1, <1>6 DEF StoreTx, MissTx, SetConfirmation, SameDb, blockVars, txVars
  <2>2. ~Has(got)
    BY <2>1, StoreStage DEF OnTop
  <2>3. ASSUME NEW h \in Blocks, h # got, FlagsAgree(h) PROVE FlagsAgree(h)'
    BY <2>1, <2>3 DEF FlagsAgree, IsMain
  <2>4. \A u \in Wanted(got) : \/ (<<u, got>> \in inBlk)' \/ (<<got, u>> \in missed)'
                               \/ u \in todo'[Historic]
    BY <1>1, <1>2, <2>1
  <2> QED
    BY <1>1, <2>1, <2>2, <2>3, <2>4 DEF Has
<1> QED
  BY <1>1, <1>3, <1>4, <1>5, <1>6 DEF Storing

LEMMA StoreEndConfirms ==
  ASSUME Settling, ConfirmInv, ConfirmedCanBeUndone', Stored \/ StoreFails
  PROVE  ConfirmInv'
<1>1. /\ hpc = "store" /\ blk[Historic] = got /\ got \in Blocks /\ Historic \in Callers
      /\ stray = {}
  BY StoreStage DEF ConfirmInv
<1>2. UNCHANGED <<prev, main, inBlk, missed>> /\ pc'[Historic] = "idle"
  <2>1. pc \in [Callers -> Ops \cup {"idle"}]
    BY DEF Settling, InsightInv, TypeInv, TypeOK
  <2> USE DEF Return, Goto, SameDb, SameBackground, blockVars, txVars
  <2>2. CASE SetNextStep(Historic)
    BY <1>1, <2>1, <2>2 DEF SetNextStep, SetNext
  <2>3. CASE Has(blk[Historic]) /\ HasBlock(Historic)
    BY <1>1, <2>1, <2>3 DEF HasBlock
  <2>4. ASSUME DbError(Historic) \/ \E t \in Txs : FailTx(Historic, t)
        PROVE  UNCHANGED <<prev, main, inBlk, missed>> /\ pc'[Historic] = "idle"
    BY <1>1, <2>1, <2>4 DEF DbError, FailTx
  <2> QED
    BY <2>2, <2>3, <2>4 DEF Stored, StoreFails
<1>3. CASE Stored
  <2>1. hpc' = "setTip" /\ UNCHANGED stray
    BY <1>3 DEF Stored, SetNextStep, HasBlock, HGoto, SameBackground
  <2> QED
    BY <1>1, <1>2, <2>1, ConfirmationsKept DEF Rewriting
<1>4. CASE StoreFails
  <2>1. hpc' = "idle"
    BY <1>4 DEF StoreFails, Done, HGoto
  <2>2. \A t \in Txs, b \in Blocks : <<t, b>> \in stray' => ~Has(b)
    <3>1. CASE DbError(Historic)
      BY <1>1, <3>1 DEF DbError, SameBackground
    <3>2. ASSUME NEW t \in Txs, FailTx(Historic, t)
          PROVE  ~Has(got) /\ stray' = (todo[Historic] \ {t}) \X {got}
      BY <1>1, <1>4, <3>2, StoreStage DEF FailTx, OnTop
    <3> QED
      BY <1>4, <3>1, <3>2 DEF StoreFails
  <2> QED
    BY <1>1, <1>2, <2>1, <2>2 DEF ConfirmInv, FlagsAgree, Rewriting, Has, IsMain
<1> QED
  BY <1>3, <1>4

LEMMA StopConfirms ==
  ASSUME ConfirmInv, ConfirmedCanBeUndone', Reboot, ~Rewriting
  PROVE  ConfirmInv'
BY InsightAssumption
   DEF Reboot, Restart, Halt, BootAgain, SameDb, blockVars, txVars, ConfirmInv, FlagsAgree,
       Rewriting, Has, IsMain

LEMMA HistoricConfirms ==
  ASSUME Sound, Settling, ConfirmInv, ConfirmedCanBeUndone', HistoricProgress
  PROVE  ConfirmInv'
<1> USE DEF HGoto, vars, blockVars, txVars, callVars
<1>1. ASSUME UNCHANGED <<prev, main, inBlk, missed, stray, pc, todo>>,
             hpc \notin {"idle", "store", "orphScan", "orphTxs"}, ~Rewriting'
      PROVE  ConfirmInv'
  <2>1. pc[Historic] = "idle"
    BY <1>1 DEF Settling, InsightInv, HistoricInv, HistoricCall
  <2> QED
    BY <1>1, <2>1, ConfirmationsKept DEF Rewriting
<1>2. CASE TipInfo
  <2>1. hpc = "info"
    BY <1>2 DEF TipInfo
  <2>2. Reboot \/ (UNCHANGED vars /\ hpc' \in {"orphMain", "info", "fetch"})
    BY <1>2 DEF TipInfo, StepBack, StartFrom
  <2> QED
    BY <1>1, <2>1, <2>2, StopConfirms DEF Rewriting
<1>3. CASE CheckNetworkSettings \/ UpdateBlockChainHeight \/ ReadTip \/ FetchFails \/ Finish
  <2>1. /\ UNCHANGED vars /\ hpc' \in {"height", "tip", "info", "fetch", "idle"}
        /\ hpc \in {"check", "height", "tip", "fetch", "setTip"}
    BY <1>3 DEF CheckNetworkSettings, UpdateBlockChainHeight, ReadTip, StartFrom, FetchFails,
                Finish, Done
  <2> QED
    BY <1>1, <2>1 DEF Rewriting
<1>4. CASE PrepareFails
  <2>1. UNCHANGED vars /\ hpc = "check" /\ hpc' = "idle"
    BY <1>4 DEF PrepareFails, Sound, DbFails
  <2> QED
    BY <1>1, <2>1 DEF Rewriting
<1>5. CASE SetHistoricTip
  <2>1. /\ UNCHANGED <<prev, main, inBlk, missed, stray, pc, todo>>
        /\ hpc = "setTip" /\ hpc' = "fetch"
    BY <1>5 DEF SetHistoricTip, SetTip
  <2> QED
    BY <1>1, <2>1 DEF Rewriting
<1>6. CASE Fetch
  <2>1. /\ UNCHANGED <<prev, main, inBlk, missed, stray>> /\ hpc = "fetch" /\ hpc' = "store"
        /\ pc'[Historic] = "hasBlock"
    BY <1>6, InsightAssumption
       DEF Fetch, Call, Goto, SameDb, SameBackground, Settling, InsightInv, TypeInv, TypeOK
  <2> QED
    BY <2>1, ConfirmationsKept DEF Rewriting
<1>7. CASE HeightFails
  BY <1>7, StopConfirms DEF HeightFails, Rewriting
<1> QED
  BY <1>2, <1>3, <1>4, <1>5, <1>6, <1>7, OrphaningConfirms, StoringConfirms, StoreEndConfirms
     DEF HistoricProgress

LEMMA NextConfirmInv ==
  ASSUME Sound, Settling, ConfirmInv, [InsightNext]_insightVars
  PROVE  ConfirmInv'
<1>1. CASE UNCHANGED <<vars, historicVars>>
  BY <1>1 DEF vars, blockVars, txVars, callVars, historicVars, startVars, ConfirmInv,
              ConfirmedCanBeUndone, FlagsAgree, Rewriting, Has, IsMain, TxsFromBlock
<1>2. CASE InsightNext
  <2>1. ConfirmedCanBeUndone'
    BY <1>2, UndoKept DEF Settling, ConfirmInv
  <2>2. CASE HistoricProgress
    BY <2>1, <2>2, HistoricConfirms
  <2>3. CASE Disconnect \/ \E b \in Blocks : Mine(b)
    BY <1>1, <2>3 DEF Disconnect, Mine
  <2>4. ASSUME NEW t \in Txs, NEW b \in Blocks, StrayTx(t, b), UNCHANGED historicVars
        PROVE  ConfirmInv'
    <3>1. /\ hpc = "idle" /\ ~Has(b) /\ stray' = stray \ {<<t, b>>}
          /\ UNCHANGED <<prev, main, missed, pc, todo, hpc, got>>
          /\ inBlk' = inBlk \/ inBlk' = inBlk \cup {<<t, b>>}
      BY <2>4 DEF StrayTx, SetConfirmation, ConfirmInv, blockVars, txVars, callVars, historicVars
    <3>2. ASSUME NEW h \in Blocks, Has(h), FlagsAgree(h) PROVE FlagsAgree(h)'
      BY <3>1, <3>2 DEF FlagsAgree, IsMain
    <3>3. pc[Historic] = "idle"
      BY <3>1 DEF Settling, InsightInv, HistoricInv, HistoricCall
    <3> QED
      BY <2>1, <3>1, <3>2, <3>3 DEF ConfirmInv, Rewriting, Has
  <2>5. CASE CrashAndBoot
    BY <2>1, <2>5, StopConfirms DEF CrashAndBoot, Sound, Quiet, Rewriting
  <2>6. Peers = {}
    BY DEF Peers, Sound
  <2> QED
    BY <1>2, <2>2, <2>3, <2>4, <2>5, <2>6 DEF InsightNext, InsightStep
<1> QED
  BY <1>1, <1>2 DEF insightVars

(* Through restarts, RPC errors and the node's changes of branch, what     *)
(* setBlockMain and createFromArray write for the transactions of a block  *)
(* agrees with the block's own flag whenever nothing is in flight.         *)
THEOREM ConfirmationsSettle ==
  ASSUME Sound
  PROVE  SettledSpec => []SettledConfirmations
<1>1. InsightInit => Settling /\ ConfirmInv
  BY InitInsightInv, InitCopyInv, InitSettleInv, InitConfirmInv DEF Settling
<1>2. Settling /\ ConfirmInv /\ [SettledNext]_insightVars => (Settling /\ ConfirmInv)'
  BY NextInsightInv, NextCopyInv, NextSettleInv, NextConfirmInv
     DEF Settling, SettledNext, InsightNext, Sound
<1>3. ConfirmInv => SettledConfirmations
  BY DEF ConfirmInv, SettledConfirmations, Quiet, Rewriting
<1> QED
  BY <1>1, <1>2, <1>3, PTL DEF SettledSpec
=============================================================================
