---------------------------- MODULE SerialProofs ----------------------------
(***************************************************************************)
(* What storeTipBlock promises where calls do not overlap and no operation *)
(* fails: for every tree of blocks and every set of transactions, through  *)
(* any sequence of reorganisations that reconnect straight branches.       *)
(*                                                                         *)
(* The inductive invariant says, for every operation a call may wait for,  *)
(* which blocks are flagged main meanwhile, and in which stretches of the  *)
(* tree the next pointers can be followed.                                 *)
(***************************************************************************)
EXTENDS SyncProofs, TreeProofs

BeforeAdd == {"idle", "hasBlock", "hasPrev", "createTxs", "getTip", "getNext", "add"}
Checked   == {"createTxs", "getTip", "getNext", "add"}
ConnOps   == {"connMain", "connScan", "connTxs", "connPrev"}
ForkOps   == {"connIsMain", "forkNext", "forkLink"}
OrphOps   == {"orphMain", "orphScan", "orphTxs", "orphNext"}
AfterAdd  == ReorgOps \cup LinkOps

(* The steps of SerialSpec, for the only caller.                           *)
SerialStep(c) ==
  \/ \E b \in Blocks, allow \in AllowModes : Call(c, b, allow)
  \/ Store(c) \/ Reorg(c)

(* What holds with any number of calls.                                    *)
SharedInv == TypeInv /\ LinkInv /\ StoreInv /\ ConfirmedCanBeUndone /\ StoredInv

LEMMA SerialIsNext == ASSUME NEW c \in Callers, SerialStep(c) PROVE Next
BY DEF SerialStep, Next, Progress

LEMMA SharedInvInit == Init => SharedInv
BY InitTypeInv, InitLinkInv, InitStoreInv, InitUndo, InitStoredInv DEF SharedInv

LEMMA SharedInvNext ==
  ASSUME FALSE \notin AllowModes
  PROVE  SharedInv /\ [Next]_vars => SharedInv'
BY NextTypeInv, NextLinkInv, NextStoreInv, NextUndo, NextStoredInv DEF SharedInv

-----------------------------------------------------------------------------
(* The pointers of the stored blocks                                       *)

(* The blocks stored by calls that have returned.                          *)
Settled(c) == {k \in Blocks : Has(k) /\ ~ (pc[c] \in AfterAdd /\ k = blk[c])}

(* A settled block with a settled child has a next block, and so the tip   *)
(* has no settled child: only a reorganisation leaves a tip with a child.  *)
Pointers(c) ==
  /\ \A k \in Blocks : next[k] # Null => Has(next[k])
  /\ \A k \in Settled(c) : Parent[k] # Zero => next[Parent[k]] # Null
  /\ \A k \in Settled(c) : Parent[k] # tip
  /\ tip # Null => tip \in Blocks /\ Has(tip)
  /\ tip = Null => Settled(c) = {}

(* What the local variables of the call remember is still so: no one else  *)
(* writes.  In particular the block that is being added has no child.      *)
CallState(c) ==
  LET b == blk[c]
      p == NewPrev(c)
  IN /\ pc[c] # "idle" => b \in Blocks
     /\ pc[c] \in Checked \cup {"hasPrev"} => ~ Has(b)
     /\ pc[c] \in Checked \cup AfterAdd => p = Zero \/ Has(p)
     /\ pc[c] \in {"getNext"} \cup ReorgOps => tip # Null /\ p # tip
     /\ pc[c] = "getNext" => needReorg[c]
     /\ pc[c] = "add" => (needReorg[c] <=> tip # Null /\ p # tip)
     /\ pc[c] = "add" /\ needReorg[c] => oldNext[c] = next[p]
     /\ pc[c] = "reorgIsMain" => oldNext[c] = next[p]
     /\ pc[c] \in AfterAdd => Has(b) /\ \A k \in Blocks : Has(k) => Parent[k] # b
     /\ pc[c] \in ReorgOps \cup {"setTip"} => tip # b
     /\ pc[c] = "setNext" => tip = b
     /\ pc[c] \in ForkOps /\ last[c] \in Blocks => Has(last[c])

Shape(c) == Pointers(c) /\ CallState(c)

LEMMA ShapeInit == ASSUME NEW c \in Callers PROVE Init => Shape(c)
BY DEF Init, BlockDbInit, Shape, Pointers, CallState, Settled, Has, Hashes, Checked, ConnOps,
       ForkOps, AfterAdd, ReorgOps, LinkOps

LEMMA ShapeNext ==
  ASSUME NEW c \in Callers, FALSE \notin AllowModes, SharedInv, Shape(c), SerialStep(c)
  PROVE  Shape(c)'
<1> USE BlocksAssumption, TreeAssumption
    DEF SharedInv, TypeInv, TypeOK, BlockDbTypeOK, LinkInv, PrevIsParent, NextIsBlock,
        WalkAdjacent, StoredInv, WalkStored, NoGap, Shape, Pointers, CallState, Settled, Has, NewPrev,
        Checked, ForkOps, AfterAdd,
        Hashes, Ops, StoreOps, ReorgOps, LinkOps,
        Goto, Return, SameDb, SameBackground,
        blockVars, txVars, callVars, argVars, tipVars, walkVars
<1>1. ASSUME NEW b \in Blocks, NEW allow \in AllowModes, Call(c, b, allow)
      PROVE  Shape(c)'
  BY <1>1 DEF Call
<1>2. ASSUME HasBlock(c) PROVE Shape(c)'
  BY <1>2 DEF HasBlock, BeginTxs
<1>3. ASSUME HasPrev(c) PROVE Shape(c)'
  BY <1>3 DEF HasPrev, BeginTxs, PrevMissing
<1>4. ASSUME TxsStored(c) PROVE Shape(c)'
  BY <1>4 DEF TxsStored
<1>5. ASSUME GetTip(c) PROVE Shape(c)'
  <2> DEFINE reorg == tip # Null /\ NewPrev(c) # tip
  <2>1. needReorg' = [needReorg EXCEPT ![c] = reorg] /\ pc[c] = "getTip"
    BY <1>5, Zenon DEF GetTip
  <2>2. needReorg'[c] = reorg
    <3> HIDE DEF reorg
    <3> QED
      BY <2>1
  <2>3. UNCHANGED <<argVars, oldNext, blockVars>> /\ Goto(c, IF reorg THEN "getNext" ELSE "add")
    BY <1>5, Zenon DEF GetTip, SameDb
  <2>4. CASE reorg
    <3>1. needReorg'[c]
      BY <2>2, <2>4, Zenon
    <3> QED
      BY <3>1, <2>3, <2>4, <2>1
  <2>5. CASE ~ reorg
    <3>1. ~ needReorg'[c]
      BY <2>2, <2>5, Zenon
    <3> QED
      BY <3>1, <2>3, <2>5, <2>1
  <2> HIDE DEF reorg, Shape
  <2> QED
    BY <2>4, <2>5, Zenon
<1>6. ASSUME GetNext(c) PROVE Shape(c)'
  BY <1>6 DEF GetNext
<1>7. ASSUME Add(c) PROVE Shape(c)'
  BY <1>7 DEF Add, AddBlock
<1>8. ASSUME SetTipStep(c) PROVE Shape(c)'
  BY <1>8 DEF SetTipStep, SetTip
<1>9. ASSUME SetNextStep(c) PROVE Shape(c)'
  BY <1>9 DEF SetNextStep, SetNext
<1>10. ASSUME NEW t \in Txs, StoreTx(c, t) \/ MissTx(c, t) PROVE Shape(c)'
  BY <1>10 DEF StoreTx, MissTx, SetConfirmation
<1>11. ASSUME ReorgIsMain(c) PROVE Shape(c)'
  BY <1>11 DEF ReorgIsMain, BeginOrphan, BeginConnect
<1>12. ASSUME ConnMain(c) \/ OrphMain(c) PROVE Shape(c)'
  BY <1>12 DEF ConnMain, OrphMain, FlagBlock, SetMain
<1>13. ASSUME ConnScan(c) \/ OrphScan(c) PROVE Shape(c)'
  BY <1>13 DEF ConnScan, OrphScan, ScanTxs
<1>14. ASSUME ConnTxs(c) \/ OrphTxs(c) PROVE Shape(c)'
  BY <1>14 DEF ConnTxs, OrphTxs, WriteTxs, WriteConfirmations
<1>15. ASSUME ConnPrev(c) PROVE Shape(c)'
  BY <1>15 DEF ConnPrev
<1>16. ASSUME ConnIsMain(c) PROVE Shape(c)'
  BY <1>16 DEF ConnIsMain
<1>17. ASSUME ForkNext(c) PROVE Shape(c)'
  BY <1>17 DEF ForkNext
<1>18. ASSUME ForkLink(c) PROVE Shape(c)'
  BY <1>18 DEF ForkLink, BeginOrphan, SetNext
<1>19. ASSUME OrphNext(c) PROVE Shape(c)'
  BY <1>19 DEF OrphNext, BeginOrphan
<1> QED
  BY <1>1, <1>2, <1>3, <1>4, <1>5, <1>6, <1>7, <1>8, <1>9, <1>10, <1>11, <1>12, <1>13,
     <1>14, <1>15, <1>16, <1>17, <1>18, <1>19 DEF SerialStep, Store, Reorg

-----------------------------------------------------------------------------
(* The main flags and the walks                                            *)

(* The next pointers lead up the lineage of b.                             *)
LinksRun(b) == \A h \in Lineage(b) \ {b} : next[h] \in Lineage(b)

(* Which blocks are flagged main while an operation is in flight: the chain*)
(* of the old tip until the new branch is flagged, block by block from the *)
(* top down; then the old branch is unflagged from the bottom up.          *)
MainAt(c) ==
  LET b == blk[c]
      x == it[c]
  IN /\ pc[c] \in BeforeAdd => MainBlocks = PromisedChain
     /\ pc[c] = "reorgIsMain" => MainBlocks = Lineage(tip) \cup {b}
     /\ pc[c] = "connMain" => MainBlocks = Lineage(tip) \cup (Above(x, b) \ {x})
     /\ pc[c] \in ConnOps \ {"connMain"} => MainBlocks = Lineage(tip) \cup Above(x, b)
     /\ pc[c] \in ForkOps => MainBlocks = Lineage(tip) \cup Above(last[c], b)
     /\ pc[c] = "orphMain" => MainBlocks = Lineage(b) \cup Above(x, tip)
     /\ pc[c] \in OrphOps \ {"orphMain"} => MainBlocks = Lineage(b) \cup (Above(x, tip) \ {x})
     /\ pc[c] \in LinkOps => MainBlocks = Lineage(b)

(* Where the walks are: on the new branch down to the fork, on the old one *)
(* up from it.                                                             *)
WalkAt(c) ==
  LET b == blk[c]
      p == NewPrev(c)
      x == it[c]
  IN /\ pc[c] \in ConnOps => x \in Lineage(p) \ Lineage(tip)
     /\ pc[c] \in ForkOps =>
          x \in Blocks /\ last[c] \in Lineage(p) \ Lineage(tip) /\ Parent[last[c]] = x
     /\ pc[c] \in {"forkNext", "forkLink"} => x \in Lineage(tip)
     /\ pc[c] = "forkLink" => from[c] = next[x]
     /\ pc[c] \in OrphOps => x \in Lineage(tip) \ Lineage(b)

(* Where the next pointers lead: up the old chain until it is orphaned, and*)
(* up to the new block's parent from the moment the fork is linked.        *)
OldLinked == BeforeAdd \cup {"reorgIsMain"} \cup ConnOps \cup ForkOps

LinksAt(c) ==
  LET b == blk[c]
      p == NewPrev(c)
  IN /\ pc[c] \in OldLinked /\ tip # Null => LinksRun(tip)
     /\ pc[c] \in OldLinked \ {"idle"} /\ tip # Null /\ Has(p) =>
          \A h \in Lineage(p) \ {p} : h \in Lineage(tip) \/ next[h] \in Lineage(p)
     /\ pc[c] \in OrphOps =>
          \A h \in Lineage(tip) \ Lineage(b) : h # tip => next[h] \in Lineage(tip)
     /\ pc[c] \in OrphOps \cup LinkOps /\ p # Zero => LinksRun(p)

ChainState(c) == MainAt(c) /\ WalkAt(c) /\ LinksAt(c)

LEMMA ChainInit == ASSUME NEW c \in Callers PROVE Init => ChainState(c)
BY DEF Init, BlockDbInit, ChainState, MainAt, WalkAt, LinksAt, MainBlocks, PromisedChain, IsMain,
       Hashes, BeforeAdd, ConnOps, ForkOps, OrphOps, LinkOps, OldLinked

LEMMA StoredLineage ==
  ASSUME SharedInv, NEW k \in Blocks, Has(k)
  PROVE  \A h \in Lineage(k) : Has(h)
<1> DEFINE S == {h \in Blocks : Has(h)}
<1>1. Closed(S)
  BY TreeAssumption DEF Closed, SharedInv, StoredInv, NoGap
<1> QED
  BY <1>1, LineageLeast

(* The new block's branch and the old chain, during a reorganisation.      *)
LEMMA ReorgBranches ==
  ASSUME SharedInv, NEW c \in Callers, Shape(c), pc[c] \in ReorgOps
  PROVE  /\ tip \in Blocks /\ Has(tip)
         /\ blk[c] \in Blocks /\ Has(blk[c]) /\ blk[c] \notin Lineage(tip)
         /\ NewPrev(c) \in Blocks /\ Has(NewPrev(c))
         /\ Lineage(blk[c]) = {blk[c]} \cup Lineage(NewPrev(c))
         /\ blk[c] \notin Lineage(NewPrev(c))
<1> USE BlocksAssumption, TreeAssumption
<1> DEFINE b == blk[c]
<1>1. /\ tip \in Blocks /\ Has(tip) /\ b \in Blocks /\ Has(b) /\ b # tip
      /\ \A k \in Blocks : Has(k) => Parent[k] # b
      /\ NewPrev(c) = Zero \/ Has(NewPrev(c))
  BY DEF Shape, Pointers, CallState, AfterAdd, ReorgOps
<1>2. b \notin Lineage(tip)
  <2>1. SUFFICES ASSUME b \in Lineage(tip) PROVE FALSE
    OBVIOUS
  <2>2. PICK k \in Lineage(tip) : k \in Blocks /\ Parent[k] = b
    BY <1>1, <2>1, ChildOnTheWay
  <2> QED
    BY <1>1, <2>2, StoredLineage
<1>3. Parent[b] # Zero
  BY <1>1, <1>2, GenesisInLineage
<1> QED
  BY <1>1, <1>2, <1>3, LineageParent DEF NewPrev

(* What an intact run of next pointers says of the ancestors.              *)
LEMMA LinksRunDown ==
  ASSUME SharedInv, NEW b \in Blocks, NEW k \in Lineage(b), LinksRun(b)
  PROVE  LinksRun(k)
<1> SUFFICES ASSUME NEW h \in Lineage(k), h # k PROVE next[h] \in Lineage(k)
  BY DEF LinksRun
<1>1. k \in Blocks /\ h \in Lineage(b) /\ h \in Blocks
  BY LineageClosed, LineageTransitive
<1>2. PICK j \in Lineage(k) : Parent[j] = h
  BY <1>1, ChildOnTheWay
<1>3. j \in Lineage(b)
  BY LineageTransitive
<1>4. h # b
  BY <1>1, LineageAntisymmetric
<1>5. next[h] \in Lineage(b)
  BY <1>1, <1>4 DEF LinksRun
<1>6. Parent[next[h]] = h
  <2>1. next[h] # Null /\ h # Null
    BY <1>1, <1>5, LineageClosed, BlocksAssumption
  <2> QED
    BY <1>1, <2>1 DEF SharedInv, LinkInv, NextIsBlock, Hashes
<1> QED
  BY <1>2, <1>3, <1>5, <1>6, NoSiblings

StageOf == <<BeforeAdd \ {"idle"}, ConnOps \ {"connMain"}, OrphOps \ {"orphMain"}>>

SameWalk == UNCHANGED <<blockVars, blk, it, last, from>>

(* A step within a stage that changes neither pointers nor walks.          *)
LEMMA ChainFrame ==
  ASSUME SharedInv, NEW c \in Callers, ChainState(c), SameWalk,
         NEW i \in {1, 2, 3}, pc[c] \in StageOf[i], pc'[c] \in StageOf[i]
  PROVE  ChainState(c)'
<1>1. /\ MainBlocks' = MainBlocks
      /\ Lineage(tip)' = Lineage(tip) /\ Lineage(blk[c])' = Lineage(blk[c])
      /\ NewPrev(c)' = NewPrev(c) /\ Lineage(NewPrev(c))' = Lineage(NewPrev(c))
      /\ Above(it[c], blk[c])' = Above(it[c], blk[c])
      /\ Above(it[c], tip)' = Above(it[c], tip)
  BY DEF SameWalk, blockVars, MainBlocks, IsMain, NewPrev
<1> QED
  BY <1>1 DEF ChainState, MainAt, WalkAt, LinksAt, StageOf, SameWalk, blockVars,
              BeforeAdd, ConnOps, ForkOps, OrphOps, LinkOps, OldLinked, LinksRun, PromisedChain, Has

(* A call that starts on a straight branch, or returns before add.         *)
LEMMA ChainCall ==
  ASSUME SharedInv, NEW c \in Callers, ChainState(c), 
         NEW b \in Blocks, NEW allow \in AllowModes, StraightBranch(b), Call(c, b, allow)
  PROVE  ChainState(c)'
<1>1. /\ UNCHANGED blockVars
      /\ pc[c] = "idle" /\ pc'[c] = "hasBlock" /\ blk'[c] = b /\ NewPrev(c)' = Parent[b]
  BY DEF Call, Goto, SameDb, SharedInv, TypeInv, TypeOK, NewPrev
<1>2. /\ MainBlocks' = MainBlocks /\ Lineage(tip)' = Lineage(tip)
      /\ Lineage(NewPrev(c))' = Lineage(Parent[b])
  BY <1>1 DEF blockVars, MainBlocks, IsMain
<1>3. MainBlocks = PromisedChain /\ (tip # Null => LinksRun(tip))
  BY <1>1 DEF ChainState, MainAt, LinksAt, BeforeAdd, OldLinked
<1>4. ASSUME tip # Null, Has(Parent[b]), NEW h \in Lineage(Parent[b]) \ {Parent[b]}
      PROVE  h \in Lineage(tip) \/ next[h] \in Lineage(Parent[b])
  <2>1. Parent[b] \in Blocks
    BY <1>4, BlocksAssumption, TreeAssumption
       DEF Has, SharedInv, LinkInv, PrevIsParent, Hashes
  <2> QED
    BY <1>3, <1>4, <2>1, LineageClosed DEF StraightBranch, MainBlocks, PromisedChain
<1> QED
  BY <1>1, <1>2, <1>3, <1>4
     DEF ChainState, MainAt, WalkAt, LinksAt, blockVars, 
         BeforeAdd, ConnOps, ForkOps, OrphOps, LinkOps, OldLinked, LinksRun, PromisedChain, Has

LEMMA ChainReturn ==
  ASSUME SharedInv, NEW c \in Callers, ChainState(c), pc[c] \in BeforeAdd,
         Return(c), UNCHANGED blockVars
  PROVE  ChainState(c)'
<1>1. pc'[c] = "idle"
  BY DEF Return, Goto, SharedInv, TypeInv, TypeOK
<1>2. MainBlocks' = MainBlocks /\ Lineage(tip)' = Lineage(tip)
  BY DEF blockVars, MainBlocks, IsMain
<1> QED
  BY <1>1, <1>2
     DEF ChainState, MainAt, WalkAt, LinksAt, blockVars, 
         BeforeAdd, ConnOps, ForkOps, OrphOps, LinkOps, OldLinked, LinksRun, PromisedChain, Has

(* Case 0 of storeTipBlock goes on to setTip, the others to processReorg.  *)
LEMMA ChainAdd ==
  ASSUME SharedInv, NEW c \in Callers, Shape(c), ChainState(c), Add(c)
  PROVE  ChainState(c)'
<1> USE BlocksAssumption, TreeAssumption
<1> DEFINE b == blk[c]
           p == NewPrev(c)
<1>1. /\ pc[c] = "add" /\ allowReorgs[c] /\ b \in Blocks /\ ~ Has(b)
      /\ p = Zero \/ Has(p)
      /\ needReorg[c] <=> tip # Null /\ p # tip
  BY DEF Add, SharedInv, StoredInv, WalkStored, Shape, CallState, Checked
<1>2. /\ pc'[c] = IF needReorg[c] THEN "reorgIsMain" ELSE "setTip"
      /\ UNCHANGED <<next, tip, blk, it, last, from>>
      /\ prev' = [prev EXCEPT ![b] = Parent[b]]
      /\ main' = [main EXCEPT ![b] = "main"]
  BY <1>1 DEF Add, AddBlock, Goto, callVars, argVars, walkVars, SharedInv, TypeInv, TypeOK
<1>3. /\ Lineage(tip)' = Lineage(tip) /\ Lineage(b)' = Lineage(b) /\ NewPrev(c)' = p
      /\ Lineage(p)' = Lineage(p)
  BY <1>2 DEF NewPrev
<1>4. MainBlocks' = MainBlocks \cup {b}
  BY <1>1, <1>2 DEF MainBlocks, IsMain, SharedInv, TypeInv, TypeOK, BlockDbTypeOK, Hashes
<1>5. MainBlocks = PromisedChain /\ (tip # Null => LinksRun(tip))
  BY <1>1 DEF ChainState, MainAt, LinksAt, BeforeAdd, OldLinked
<1>6. CASE needReorg[c]
  <2>1. pc'[c] = "reorgIsMain" /\ tip # Null
    BY <1>1, <1>2, <1>6
  <2>2. MainBlocks' = Lineage(tip) \cup {b}
    BY <1>4, <1>5, <2>1 DEF PromisedChain
  <2>3. Has(p)' => Has(p)
    BY <1>1, <1>2, <1>3, <2>1, LineageParent DEF Has, NewPrev, SharedInv, TypeInv, TypeOK, BlockDbTypeOK, Hashes
  <2> QED
    BY <1>1, <1>2, <1>3, <1>5, <2>1, <2>2, <2>3
       DEF ChainState, MainAt, WalkAt, LinksAt, 
           BeforeAdd, ConnOps, ForkOps, OrphOps, LinkOps, OldLinked, LinksRun
<1>7. CASE ~ needReorg[c]
  <2>1. pc'[c] = "setTip" /\ (tip = Null \/ p = tip)
    BY <1>1, <1>2, <1>7
  <2>2. MainBlocks' = Lineage(b) /\ (p # Zero => LinksRun(p))
    <3>1. CASE tip = Null
      <4>1. ~ Has(p)
        BY <3>1, <1>1 DEF Shape, Pointers, Settled, NewPrev, Has, SharedInv, LinkInv, PrevIsParent,
                          TypeInv, TypeOK, BlockDbTypeOK, Hashes, AfterAdd, ReorgOps, LinkOps
      <4>2. Parent[b] = Zero
        BY <1>1, <4>1 DEF NewPrev
      <4> QED
        BY <1>1, <1>4, <1>5, <3>1, <4>2, LineageStep DEF PromisedChain, NewPrev
    <3>2. CASE tip # Null
      <4>1. p = tip /\ p \in Blocks
        BY <2>1, <3>2 DEF Shape, Pointers
      <4> QED
        BY <1>1, <1>4, <1>5, <3>2, <4>1, LineageParent DEF PromisedChain, NewPrev
    <3> QED
      BY <3>1, <3>2
  <2> QED
    BY <1>2, <1>3, <2>1, <2>2
       DEF ChainState, MainAt, WalkAt, LinksAt, 
           BeforeAdd, ConnOps, ForkOps, OrphOps, LinkOps, OldLinked, LinksRun
<1> QED
  BY <1>6, <1>7

(* Case 1 orphans the old next of the parent, Case 2 connects the parent.  *)
LEMMA ChainReorgIsMain ==
  ASSUME SharedInv, NEW c \in Callers, Shape(c), ChainState(c), ReorgIsMain(c)
  PROVE  ChainState(c)'
<1> USE BlocksAssumption, TreeAssumption
<1> DEFINE b == blk[c]
           p == NewPrev(c)
           y == next[p]
<1>1. /\ pc[c] = "reorgIsMain" /\ oldNext[c] = y /\ p # tip
      /\ UNCHANGED <<blockVars, blk>>
      /\ IF IsMain(p) /\ y # Null THEN pc'[c] = "orphMain" /\ it'[c] = y
                                  ELSE pc'[c] = "connMain" /\ it'[c] = p
  BY DEF ReorgIsMain, BeginOrphan, BeginConnect, Goto, SameDb, argVars, Shape, CallState, ReorgOps,
         SharedInv, TypeInv, TypeOK
<1>2. /\ tip \in Blocks /\ Has(tip) /\ b \in Blocks /\ b \notin Lineage(tip)
      /\ p \in Blocks /\ Lineage(b) = {b} \cup Lineage(p) /\ b \notin Lineage(p)
      /\ p \in Lineage(p) /\ b \in Lineage(b) /\ Lineage(p) \in SUBSET Blocks /\ tip # Null
  BY <1>1, ReorgBranches, LineageClosed DEF ReorgOps
<1>3. /\ MainBlocks' = MainBlocks
      /\ Lineage(tip)' = Lineage(tip) /\ Lineage(b)' = Lineage(b)
      /\ NewPrev(c)' = p /\ Lineage(p)' = Lineage(p)
  BY <1>1 DEF blockVars, MainBlocks, IsMain, NewPrev
<1>4. MainBlocks = Lineage(tip) \cup {b} /\ LinksRun(tip)
  BY <1>1, <1>2 DEF ChainState, MainAt, LinksAt, OldLinked
<1>5. IsMain(p) <=> p \in Lineage(tip)
  BY <1>2, <1>4 DEF MainBlocks
<1>6. p \in Lineage(tip) => y \in Lineage(tip) /\ y \in Blocks /\ y # Null /\ Parent[y] = p
  <2>1. p \in Lineage(tip) => y \in Lineage(tip) /\ y \in Blocks /\ y # Null
    BY <1>1, <1>2, <1>4, LineageClosed DEF LinksRun
  <2> QED
    BY <1>2, <2>1 DEF SharedInv, LinkInv, NextIsBlock, Hashes
<1>7. CASE p \in Lineage(tip)
  <2>1. pc'[c] = "orphMain" /\ it'[c] = y
    BY <1>1, <1>5, <1>6, <1>7
  <2>2. y \notin Lineage(b)
    <3>1. y # b
      BY <1>2, <1>6, <1>7
    <3> QED
      BY <3>1, <1>2, <1>6, <1>7, NoSiblings DEF NewPrev
  <2>3. MainBlocks = Lineage(b) \cup Above(y, tip)
    <3>1. Lineage(tip) = Above(y, tip) \cup Lineage(y)
      BY <1>2, <1>6, <1>7, LineageSplit
    <3>2. Lineage(y) = {y} \cup Lineage(p)
      BY <1>2, <1>6, <1>7, LineageParent
    <3>3. y \in Above(y, tip)
      BY <1>6, <1>7, LineageClosed DEF Above
    <3> QED
      BY <1>2, <1>4, <3>1, <3>2, <3>3
  <2>4. LinksRun(p)
    BY <1>2, <1>4, <1>7, LinksRunDown
  <2>5. Above(it[c], tip)' = Above(y, tip) /\ LinksRun(NewPrev(c))' = LinksRun(p)
    BY <1>1, <1>3, <2>1 DEF blockVars, LinksRun
  <2>6. \A h \in Lineage(tip) : h # tip => next[h] \in Lineage(tip)
    BY <1>4 DEF LinksRun
  <2>7. UNCHANGED <<next, tip, blk>>
    BY <1>1 DEF blockVars
  <2> QED
    BY <1>2, <1>3, <1>6, <1>7, <2>1, <2>2, <2>3, <2>4, <2>5, <2>6, <2>7
       DEF ChainState, MainAt, WalkAt, LinksAt,
           BeforeAdd, ConnOps, ForkOps, OrphOps, LinkOps, OldLinked
<1>8. CASE p \notin Lineage(tip)
  <2>1. pc'[c] = "connMain" /\ it'[c] = p
    BY <1>1, <1>5, <1>8
  <2>2. Above(p, b) \ {p} = {b}
    <3>1. Parent[b] = p /\ p # b
      BY <1>2 DEF NewPrev
    <3>2. Parent[b] # Zero
      BY <1>2, <3>1
    <3>3. Above(Parent[b], b) = Above(b, b) \cup {Parent[b]}
      BY <1>2, <3>2, AboveStep
    <3>4. Above(b, b) = {b}
      BY <1>2, AboveTop
    <3> QED
      BY <3>1, <3>3, <3>4
  <2>3. Above(it[c], b)' = Above(p, b)
    BY <1>1, <2>1 DEF blockVars
  <2>4. UNCHANGED <<next, tip, blk, prev>>
    BY <1>1 DEF blockVars
  <2> QED
    BY <1>1, <1>2, <1>3, <1>4, <1>8, <2>1, <2>2, <2>3, <2>4
       DEF ChainState, MainAt, WalkAt, LinksAt, LinksRun, Has,
           BeforeAdd, ConnOps, ForkOps, OrphOps, LinkOps, OldLinked
<1> QED
  BY <1>7, <1>8

LEMMA ChainConnMain ==
  ASSUME SharedInv, NEW c \in Callers, Shape(c), ChainState(c), ConnMain(c)
  PROVE  ChainState(c)'
<1> DEFINE b == blk[c]
           x == it[c]
<1>1. /\ pc[c] = "connMain" /\ pc'[c] = "connScan"
      /\ UNCHANGED <<prev, next, tip, blk, it>>
      /\ main' = [main EXCEPT ![x] = "main"]
  BY DEF ConnMain, FlagBlock, SetMain, Goto, callVars, argVars, walkVars, SharedInv, TypeInv, TypeOK
<1>2. /\ Lineage(tip)' = Lineage(tip) /\ Lineage(b)' = Lineage(b) /\ NewPrev(c)' = NewPrev(c)
      /\ Lineage(NewPrev(c))' = Lineage(NewPrev(c)) /\ Above(x, b)' = Above(x, b)
  BY <1>1 DEF NewPrev
<1>3. /\ x \in Lineage(NewPrev(c)) \ Lineage(tip)
      /\ MainBlocks = Lineage(tip) \cup (Above(x, b) \ {x})
  BY <1>1 DEF ChainState, WalkAt, MainAt, ConnOps
<1>4. x \in Blocks /\ x \in Above(x, b)
  BY <1>1, <1>3, ReorgBranches, LineageClosed DEF Above, ReorgOps
<1>5. MainBlocks' = Lineage(tip) \cup Above(x, b)
  <2>1. MainBlocks' = MainBlocks \cup {x}
    BY <1>1, <1>4 DEF MainBlocks, IsMain, SharedInv, TypeInv, TypeOK, BlockDbTypeOK, Hashes
  <2> QED
    BY <1>3, <1>4, <2>1
<1> QED
  BY <1>1, <1>2, <1>3, <1>5
     DEF ChainState, MainAt, WalkAt, LinksAt, LinksRun, Has,
         BeforeAdd, ConnOps, ForkOps, OrphOps, LinkOps, OldLinked

LEMMA ChainConnPrev ==
  ASSUME SharedInv, NEW c \in Callers, Shape(c), ChainState(c), ConnPrev(c)
  PROVE  ChainState(c)'
<1> USE BlocksAssumption, TreeAssumption
<1> DEFINE b == blk[c]
           x == it[c]
<1>1. /\ pc[c] = "connPrev" /\ pc'[c] = "connIsMain"
      /\ UNCHANGED <<blockVars, blk>>
      /\ last'[c] = x /\ it'[c] = prev[x]
  BY DEF ConnPrev, Goto, SameDb, argVars, SharedInv, TypeInv, TypeOK
<1>2. /\ x \in Lineage(NewPrev(c)) \ Lineage(tip)
      /\ MainBlocks = Lineage(tip) \cup Above(x, b)
  BY <1>1 DEF ChainState, WalkAt, MainAt, ConnOps
<1>3. tip \in Blocks /\ x \in Blocks /\ Has(x)
  BY <1>1, <1>2, ReorgBranches, LineageClosed, StoredLineage DEF ReorgOps
<1>4. prev[x] = Parent[x] /\ Parent[x] \in Blocks
  <2>1. x # Genesis
    BY <1>2, <1>3, GenesisInLineage
  <2> QED
    BY <1>3, <2>1 DEF Has, SharedInv, LinkInv, PrevIsParent, Hashes
<1>5. /\ MainBlocks' = MainBlocks /\ Lineage(tip)' = Lineage(tip) /\ Lineage(b)' = Lineage(b)
      /\ NewPrev(c)' = NewPrev(c) /\ Lineage(NewPrev(c))' = Lineage(NewPrev(c))
      /\ Above(last[c], b)' = Above(x, b)
      /\ UNCHANGED <<next, tip, blk, prev>>
  BY <1>1 DEF blockVars, MainBlocks, IsMain, NewPrev
<1> QED
  BY <1>1, <1>2, <1>4, <1>5
     DEF ChainState, MainAt, WalkAt, LinksAt, LinksRun, Has,
         BeforeAdd, ConnOps, ForkOps, OrphOps, LinkOps, OldLinked

(* The walk stops at the first block of the old chain.                     *)
LEMMA ChainConnIsMain ==
  ASSUME SharedInv, NEW c \in Callers, Shape(c), ChainState(c), ConnIsMain(c)
  PROVE  ChainState(c)'
<1> USE BlocksAssumption, TreeAssumption
<1> DEFINE b == blk[c]
           p == NewPrev(c)
           x == it[c]
           y == last[c]
<1>1. /\ pc[c] = "connIsMain"
      /\ pc'[c] = IF x # Null /\ ~ IsMain(x) THEN "connMain" ELSE "forkNext"
      /\ UNCHANGED <<prev, next, main, tip, blk, it, last>>
  BY DEF ConnIsMain, Goto, SameDb, callVars, argVars, walkVars, blockVars,
         SharedInv, TypeInv, TypeOK
<1>2. /\ x \in Blocks /\ y \in Lineage(p) \ Lineage(tip) /\ Parent[y] = x
      /\ MainBlocks = Lineage(tip) \cup Above(y, b)
  BY <1>1 DEF ChainState, WalkAt, MainAt, ForkOps
<1>3. /\ b \in Blocks /\ p \in Blocks /\ Lineage(b) = {b} \cup Lineage(p)
      /\ y \in Blocks /\ x # Null /\ x # Zero /\ x \in Lineage(p)
  BY <1>1, <1>2, ReorgBranches, LineageClosed DEF ReorgOps, Closed
<1>4. x \notin Above(y, b)
  BY <1>2, <1>3, LineageParent DEF Above
<1>5. /\ MainBlocks' = MainBlocks /\ Lineage(tip)' = Lineage(tip) /\ Lineage(b)' = Lineage(b)
      /\ NewPrev(c)' = p /\ Lineage(NewPrev(c))' = Lineage(p)
      /\ Above(y, b)' = Above(y, b) /\ Above(x, b)' = Above(x, b)
  BY <1>1 DEF MainBlocks, IsMain, NewPrev
<1>6. CASE x \in Lineage(tip)
  <2>1. pc'[c] = "forkNext"
    BY <1>1, <1>2, <1>3, <1>6 DEF MainBlocks
  <2> QED
    BY <1>1, <1>2, <1>5, <1>6, <2>1
       DEF ChainState, MainAt, WalkAt, LinksAt, LinksRun, Has,
           BeforeAdd, ConnOps, ForkOps, OrphOps, LinkOps, OldLinked
<1>7. CASE x \notin Lineage(tip)
  <2>1. pc'[c] = "connMain"
    BY <1>1, <1>2, <1>3, <1>4, <1>7 DEF MainBlocks
  <2>2. Above(y, b) = Above(x, b) \ {x}
    <3>1. y \in Lineage(b) /\ Parent[y] # Zero
      BY <1>2, <1>3
    <3>2. Above(Parent[y], b) = Above(y, b) \cup {Parent[y]}
      BY <1>3, <3>1, AboveStep
    <3> QED
      BY <1>2, <1>4, <3>2
  <2> QED
    BY <1>1, <1>2, <1>3, <1>5, <1>7, <2>1, <2>2
       DEF ChainState, MainAt, WalkAt, LinksAt, LinksRun, Has,
           BeforeAdd, ConnOps, ForkOps, OrphOps, LinkOps, OldLinked
<1> QED
  BY <1>6, <1>7

LEMMA ChainForkNext ==
  ASSUME SharedInv, NEW c \in Callers, ChainState(c), ForkNext(c)
  PROVE  ChainState(c)'
<1>1. /\ pc[c] = "forkNext" /\ pc'[c] = "forkLink" /\ from'[c] = next[it[c]]
      /\ UNCHANGED <<prev, next, main, tip, blk, it, last>>
  BY DEF ForkNext, Goto, SameDb, argVars, blockVars, SharedInv, TypeInv, TypeOK
<1>2. /\ MainBlocks' = MainBlocks /\ Lineage(tip)' = Lineage(tip)
      /\ NewPrev(c)' = NewPrev(c) /\ Lineage(NewPrev(c))' = Lineage(NewPrev(c))
      /\ Above(last[c], blk[c])' = Above(last[c], blk[c])
  BY <1>1 DEF MainBlocks, IsMain, NewPrev
<1> QED
  BY <1>1, <1>2
     DEF ChainState, MainAt, WalkAt, LinksAt, LinksRun, Has,
         BeforeAdd, ConnOps, ForkOps, OrphOps, LinkOps, OldLinked

(* The only step that moves a pointer below the tip: the fork now leads to *)
(* the new branch, and the old branch is orphaned from its first block.    *)
LEMMA ChainForkLink ==
  ASSUME SharedInv, NEW c \in Callers, Shape(c), ChainState(c), ForkLink(c)
  PROVE  ChainState(c)'
<1> USE BlocksAssumption, TreeAssumption
<1> DEFINE b == blk[c]
           p == NewPrev(c)
           x == it[c]
           k == last[c]
           y == next[x]
<1>1. /\ pc[c] = "forkLink"
      /\ IF y = Null THEN pc'[c] = "setTip" ELSE pc'[c] = "orphMain"
      /\ it'[c] = y /\ next' = [next EXCEPT ![x] = k]
      /\ UNCHANGED <<prev, main, tip, blk>>
  BY DEF ForkLink, BeginOrphan, SetNext, Goto, argVars, SharedInv, TypeInv, TypeOK,
         ChainState, WalkAt
<1>2. /\ x \in Blocks /\ x \in Lineage(tip) /\ k \in Lineage(p) \ Lineage(tip) /\ Parent[k] = x
      /\ MainBlocks = Lineage(tip) \cup Above(k, b)
  BY <1>1 DEF ChainState, WalkAt, MainAt, ForkOps
<1>3. /\ tip \in Blocks /\ Has(tip) /\ b \in Blocks /\ b \notin Lineage(tip)
      /\ p \in Blocks /\ Has(p) /\ Lineage(b) = {b} \cup Lineage(p) /\ b \notin Lineage(p)
      /\ k \in Blocks /\ Has(k) /\ k \in Lineage(b) /\ x \in Lineage(p) /\ x # Zero
      /\ Lineage(p) \in SUBSET Blocks /\ Lineage(tip) \in SUBSET Blocks
  BY <1>1, <1>2, ReorgBranches, LineageClosed, StoredLineage DEF ReorgOps, Closed
<1>4. /\ LinksRun(tip)
      /\ \A h \in Lineage(p) \ {p} : h \in Lineage(tip) \/ next[h] \in Lineage(p)
  BY <1>1, <1>3 DEF ChainState, LinksAt, OldLinked, ForkOps
<1>5. /\ MainBlocks' = MainBlocks /\ Lineage(tip)' = Lineage(tip) /\ Lineage(b)' = Lineage(b)
      /\ NewPrev(c)' = p /\ Lineage(NewPrev(c))' = Lineage(p)
      /\ Above(it[c], tip)' = Above(y, tip)
  BY <1>1 DEF MainBlocks, IsMain, NewPrev
(* The fork is not the tip, for then the new branch would extend the tip.  *)
<1>6. x # tip
  <2>1. k \in Settled(c)
    BY <1>2, <1>3 DEF Settled
  <2> QED
    BY <1>2, <2>1 DEF Shape, Pointers
<1>7. y \in Lineage(tip) /\ y \in Blocks /\ Parent[y] = x
  <2>1. y \in Lineage(tip) /\ y \in Blocks
    BY <1>2, <1>3, <1>4, <1>6 DEF LinksRun
  <2> QED
    BY <1>2, <2>1 DEF SharedInv, LinkInv, NextIsBlock, Hashes
<1>8. y \notin Lineage(b)
  BY <1>2, <1>3, <1>7, NoSiblings
<1>9. MainBlocks = Lineage(b) \cup Above(y, tip)
  <2>1. Lineage(tip) = Above(y, tip) \cup Lineage(y) /\ Lineage(b) = Above(k, b) \cup Lineage(k)
    BY <1>3, <1>7, LineageSplit
  <2>2. Lineage(y) = {y} \cup Lineage(x) /\ Lineage(k) = {k} \cup Lineage(x)
    BY <1>2, <1>3, <1>7, LineageParent
  <2>3. y \in Above(y, tip) /\ k \in Above(k, b)
    BY <1>3, <1>7, LineageClosed DEF Above
  <2> QED
    BY <1>2, <2>1, <2>2, <2>3
<1>10. \A h \in Lineage(tip) \ Lineage(b) : h # tip => next'[h] \in Lineage(tip)
  <2>1. x \in Lineage(b)
    BY <1>3
  <2> QED
    BY <1>1, <1>3, <1>4, <2>1
       DEF LinksRun, SharedInv, TypeInv, TypeOK, BlockDbTypeOK, Hashes
<1>11. \A h \in Lineage(p) \ {p} : next'[h] \in Lineage(p)
  <2> SUFFICES ASSUME NEW h \in Lineage(p), h # p PROVE next'[h] \in Lineage(p)
    OBVIOUS
  <2>1. h \in Blocks /\ next \in [Hashes -> Hashes] /\ h \in Hashes
    BY <1>3 DEF SharedInv, TypeInv, TypeOK, BlockDbTypeOK, Hashes
  <2>2. CASE h = x
    BY <1>1, <1>2, <2>1, <2>2
  <2>3. CASE h # x /\ h \notin Lineage(tip)
    BY <1>1, <1>4, <2>1, <2>3
  <2>4. CASE h # x /\ h \in Lineage(tip)
    (* An old block of the new branch other than the fork is below it.     *)
    <3>1. h \in Lineage(x)
      <4>1. SUFFICES ASSUME x \in Lineage(h) PROVE FALSE
        BY <1>3, LineageLinear
      <4>2. PICK j \in Lineage(h) : Parent[j] = x
        BY <2>1, <2>4, <4>1, ChildOnTheWay
      <4>3. j \in Lineage(p) /\ j \in Lineage(tip)
        BY <1>3, <2>4, LineageTransitive
      <4>4. j = k
        BY <1>2, <1>3, <4>2, <4>3, NoSiblings
      <4> QED
        BY <1>2, <4>3, <4>4
    <3>2. next[h] \in Lineage(x)
      BY <1>2, <1>3, <1>4, <2>4, <3>1, LinksRunDown DEF LinksRun
    <3>3. next[h] \in Lineage(p)
      BY <1>3, <3>2, LineageTransitive
    <3> QED
      BY <1>1, <2>1, <2>4, <3>3
  <2> QED
    BY <2>2, <2>3, <2>4
<1>12. pc'[c] = "orphMain"
  BY <1>1, <1>7
<1> QED
  BY <1>1, <1>5, <1>7, <1>8, <1>9, <1>10, <1>11, <1>12
     DEF ChainState, MainAt, WalkAt, LinksAt, LinksRun,
         BeforeAdd, ConnOps, ForkOps, OrphOps, LinkOps, OldLinked

LEMMA ChainOrphMain ==
  ASSUME SharedInv, NEW c \in Callers, Shape(c), ChainState(c), OrphMain(c)
  PROVE  ChainState(c)'
<1> DEFINE b == blk[c]
           x == it[c]
<1>1. /\ pc[c] = "orphMain" /\ pc'[c] = "orphScan"
      /\ UNCHANGED <<prev, next, tip, blk, it>>
      /\ main' = [main EXCEPT ![x] = "orphan"]
  BY DEF OrphMain, FlagBlock, SetMain, Goto, callVars, argVars, walkVars, SharedInv, TypeInv, TypeOK
<1>2. /\ Lineage(tip)' = Lineage(tip) /\ Lineage(b)' = Lineage(b) /\ NewPrev(c)' = NewPrev(c)
      /\ Lineage(NewPrev(c))' = Lineage(NewPrev(c)) /\ Above(x, tip)' = Above(x, tip)
      /\ LinksRun(NewPrev(c))' = LinksRun(NewPrev(c))
  BY <1>1 DEF NewPrev, LinksRun
<1>3. /\ x \in Lineage(tip) \ Lineage(b)
      /\ MainBlocks = Lineage(b) \cup Above(x, tip)
  BY <1>1 DEF ChainState, WalkAt, MainAt, OrphOps
<1>4. x \in Blocks
  BY <1>1, <1>3, ReorgBranches, LineageClosed DEF ReorgOps
<1>5. MainBlocks' = Lineage(b) \cup (Above(x, tip) \ {x})
  <2>1. MainBlocks' = MainBlocks \ {x}
    BY <1>1, <1>4 DEF MainBlocks, IsMain, SharedInv, TypeInv, TypeOK, BlockDbTypeOK, Hashes
  <2> QED
    BY <1>3, <2>1
<1> QED
  BY <1>1, <1>2, <1>3, <1>5
     DEF ChainState, MainAt, WalkAt, LinksAt,
         BeforeAdd, ConnOps, ForkOps, OrphOps, LinkOps, OldLinked

(* The walk up the old branch ends at the old tip, which has no next.      *)
LEMMA ChainOrphNext ==
  ASSUME SharedInv, NEW c \in Callers, Shape(c), ChainState(c), OrphNext(c)
  PROVE  ChainState(c)'
<1> USE BlocksAssumption, TreeAssumption
<1> DEFINE b == blk[c]
           p == NewPrev(c)
           x == it[c]
           y == next[x]
<1>1. /\ pc[c] = "orphNext" /\ it'[c] = y
      /\ pc'[c] = IF y = Null THEN "setTip" ELSE "orphMain"
      /\ UNCHANGED <<prev, next, main, tip, blk>>
  BY DEF OrphNext, BeginOrphan, Goto, SameDb, argVars, blockVars, SharedInv, TypeInv, TypeOK
<1>2. /\ x \in Lineage(tip) \ Lineage(b)
      /\ MainBlocks = Lineage(b) \cup (Above(x, tip) \ {x})
      /\ \A h \in Lineage(tip) \ Lineage(b) : h # tip => next[h] \in Lineage(tip)
      /\ p # Zero => LinksRun(p)
  BY <1>1 DEF ChainState, WalkAt, MainAt, LinksAt, OrphOps
<1>3. /\ tip \in Blocks /\ b \in Blocks /\ p \in Blocks /\ x \in Blocks /\ p # tip
      /\ Lineage(tip) \in SUBSET Blocks
  BY <1>1, <1>2, ReorgBranches, LineageClosed DEF ReorgOps, Shape, CallState
<1>4. y # Null => y \in Blocks /\ Parent[y] = x /\ Has(y)
  BY <1>3 DEF SharedInv, LinkInv, NextIsBlock, Hashes, Shape, Pointers
<1>5. /\ MainBlocks' = MainBlocks /\ Lineage(tip)' = Lineage(tip) /\ Lineage(b)' = Lineage(b)
      /\ NewPrev(c)' = p /\ Lineage(NewPrev(c))' = Lineage(p)
      /\ Above(it[c], tip)' = Above(y, tip) /\ LinksRun(NewPrev(c))' = LinksRun(p)
  BY <1>1 DEF MainBlocks, IsMain, NewPrev, LinksRun
<1>6. CASE x = tip
  <2>1. y = Null
    <3>1. ASSUME y # Null PROVE FALSE
      <4>1. y # b
        BY <1>3, <1>4, <1>6, <3>1 DEF NewPrev
      <4>2. y \in Settled(c)
        BY <1>4, <3>1, <4>1 DEF Settled
      <4> QED
        BY <1>4, <1>6, <3>1, <4>2 DEF Shape, Pointers
    <3> QED
      BY <3>1
  <2>2. MainBlocks = Lineage(b)
    BY <1>2, <1>3, <1>6, AboveTop
  <2> QED
    BY <1>1, <1>2, <1>5, <2>1, <2>2
       DEF ChainState, MainAt, WalkAt, LinksAt,
           BeforeAdd, ConnOps, ForkOps, OrphOps, LinkOps, OldLinked
<1>7. CASE x # tip
  <2>1. y \in Lineage(tip) /\ y \in Blocks /\ y # Null /\ Parent[y] = x
    BY <1>2, <1>3, <1>4, <1>7
  <2>2. y \notin Lineage(b)
    BY <1>2, <1>3, <2>1, LineageClosed DEF Closed
  <2>3. Above(x, tip) \ {x} = Above(y, tip)
    <3>1. Above(Parent[y], tip) = Above(y, tip) \cup {Parent[y]}
      BY <1>3, <2>1, AboveStep
    <3>2. x \notin Above(y, tip)
      BY <1>3, <2>1, LineageParent DEF Above
    <3> QED
      BY <2>1, <3>1, <3>2
  <2> QED
    BY <1>1, <1>2, <1>5, <2>1, <2>2, <2>3
       DEF ChainState, MainAt, WalkAt, LinksAt,
           BeforeAdd, ConnOps, ForkOps, OrphOps, LinkOps, OldLinked
<1> QED
  BY <1>6, <1>7

LEMMA ChainSetTip ==
  ASSUME SharedInv, NEW c \in Callers, ChainState(c), SetTipStep(c)
  PROVE  ChainState(c)'
<1>1. /\ pc[c] = "setTip" /\ pc'[c] = "setNext"
      /\ UNCHANGED <<prev, next, main, blk>>
  BY DEF SetTipStep, SetTip, Goto, callVars, argVars, SharedInv, TypeInv, TypeOK
<1>2. /\ MainBlocks' = MainBlocks /\ Lineage(blk[c])' = Lineage(blk[c]) /\ NewPrev(c)' = NewPrev(c)
      /\ LinksRun(NewPrev(c))' = LinksRun(NewPrev(c))
  BY <1>1 DEF MainBlocks, IsMain, NewPrev, LinksRun
<1> QED
  BY <1>1, <1>2
     DEF ChainState, MainAt, WalkAt, LinksAt,
         BeforeAdd, ConnOps, ForkOps, OrphOps, LinkOps, OldLinked

LEMMA ChainSetNext ==
  ASSUME SharedInv, NEW c \in Callers, Shape(c), ChainState(c), SetNextStep(c)
  PROVE  ChainState(c)'
<1> USE BlocksAssumption, TreeAssumption
<1> DEFINE b == blk[c]
           p == NewPrev(c)
<1>1. /\ pc[c] = "setNext" /\ pc'[c] = "idle" /\ tip = b /\ b \in Blocks
      /\ next' = [next EXCEPT ![p] = b]
      /\ UNCHANGED <<prev, main, tip>>
  BY DEF SetNextStep, SetNext, Return, Goto, SharedInv, TypeInv, TypeOK, Shape, CallState
<1>2. MainBlocks = Lineage(b) /\ (p # Zero => LinksRun(p))
  BY <1>1 DEF ChainState, MainAt, LinksAt, LinkOps
<1>3. MainBlocks' = MainBlocks /\ Lineage(tip)' = Lineage(b) /\ tip' # Null
  BY <1>1 DEF MainBlocks, IsMain
<1>4. ASSUME NEW h \in Lineage(b), h # b PROVE next'[h] \in Lineage(b)
  <2>1. p # Zero
    BY <1>1, <1>4, LineageStep DEF NewPrev
  <2>2. p \in Blocks /\ Lineage(b) = {b} \cup Lineage(p) /\ h \in Lineage(p) /\ h \in Blocks
    BY <1>1, <1>4, <2>1, LineageParent, LineageClosed DEF NewPrev
  <2>3. h \in Hashes /\ next \in [Hashes -> Hashes]
    BY <2>2 DEF SharedInv, TypeInv, TypeOK, BlockDbTypeOK, Hashes
  <2>4. CASE h = p
    BY <1>1, <2>2, <2>3, <2>4
  <2>5. CASE h # p
    BY <1>1, <1>2, <2>1, <2>2, <2>3, <2>5 DEF LinksRun
  <2> QED
    BY <2>4, <2>5
<1> QED
  BY <1>1, <1>2, <1>3, <1>4
     DEF ChainState, MainAt, WalkAt, LinksAt, LinksRun, PromisedChain,
         BeforeAdd, ConnOps, ForkOps, OrphOps, LinkOps, OldLinked

LEMMA ChainNext ==
  ASSUME NEW c \in Callers, FALSE \notin AllowModes, SharedInv, Shape(c), ChainState(c),
         \/ \E b \in Blocks, allow \in AllowModes : StraightBranch(b) /\ Call(c, b, allow)
         \/ Store(c) \/ Reorg(c)
  PROVE  ChainState(c)'
<1> USE DEF StageOf, SameWalk, BeforeAdd, ConnOps, OrphOps, Goto, SameDb, callVars, argVars,
            tipVars, walkVars, blockVars, SharedInv, TypeInv, TypeOK
<1>1. CASE \E b \in Blocks, allow \in AllowModes : StraightBranch(b) /\ Call(c, b, allow)
  BY <1>1, ChainCall
<1>2. CASE HasBlock(c)
  <2>1. ~ ~ allowReorgs[c]
    BY <1>2 DEF StoredInv, WalkStored, HasBlock
  <2>2. CASE Return(c)
    BY <1>2, <2>2, ChainReturn DEF HasBlock
  <2>3. CASE ~ Return(c)
    BY <1>2, <2>1, <2>3, ChainFrame DEF HasBlock
  <2> QED
    BY <2>2, <2>3
<1>3. CASE HasPrev(c)
  <2>1. CASE Return(c)
    BY <1>3, <2>1, ChainReturn DEF HasPrev
  <2>2. CASE BeginTxs(c)
    BY <1>3, <2>2, ChainFrame DEF HasPrev, BeginTxs
  <2> QED
    BY <1>3, <2>1, <2>2 DEF HasPrev
<1>4. CASE TxsStored(c)
  BY <1>4, ChainFrame DEF TxsStored
<1>5. CASE GetTip(c)
  BY <1>5, ChainFrame DEF GetTip
<1>6. CASE GetNext(c)
  BY <1>6, ChainFrame DEF GetNext
<1>7. CASE \E t \in Txs : StoreTx(c, t) \/ MissTx(c, t)
  BY <1>7, ChainFrame DEF StoreTx, MissTx
<1>8. CASE ConnScan(c) \/ OrphScan(c)
  BY <1>8, ChainFrame DEF ConnScan, OrphScan, ScanTxs
<1>9. CASE ConnTxs(c) \/ OrphTxs(c)
  BY <1>9, ChainFrame DEF ConnTxs, OrphTxs, WriteTxs
<1> QED
  BY <1>1, <1>2, <1>3, <1>4, <1>5, <1>6, <1>7, <1>8, <1>9, ChainAdd,
     ChainReorgIsMain, ChainConnMain, ChainConnPrev, ChainConnIsMain, ChainForkNext,
     ChainForkLink, ChainOrphMain, ChainOrphNext, ChainSetTip, ChainSetNext
     DEF Store, Reorg

-----------------------------------------------------------------------------
(* The confirmations                                                       *)

(* The block whose flag is set but whose transactions are not rewritten.   *)
Changing(c) == IF pc[c] \in {"connScan", "connTxs", "orphScan", "orphTxs"} THEN {it[c]} ELSE {}

(* Every stored block but that one has the confirmations its flag asks for,*)
(* the block being added those of its transactions that were fetched, and  *)
(* no other block any.                                                     *)
TxsAt(c) ==
  /\ \A h \in Blocks \ Changing(c) : Has(h) =>
       IF IsMain(h) THEN \A t \in Wanted(h) : <<t, h>> \in inBlk \/ <<h, t>> \in missed
                    ELSE \A t \in Txs : <<t, h>> \notin inBlk
  /\ pc[c] \in Checked =>
       \A t \in Wanted(blk[c]) : \/ <<t, blk[c]>> \in inBlk
                                 \/ <<blk[c], t>> \in missed
                                 \/ pc[c] = "createTxs" /\ t \in todo[c]
  /\ \A t \in Txs, h \in Blocks :
       <<t, h>> \in inBlk => Has(h) \/ (pc[c] \in Checked /\ h = blk[c])
  /\ \A t \in Txs, h \in Blocks : <<h, t>> \in fromBlk \cup missed => t \in Wanted(h)
  /\ pc[c] = "createTxs" => todo[c] \subseteq Wanted(blk[c])
  /\ pc[c] \in {"connTxs", "orphTxs"} => todo[c] = TxsFromBlock(it[c])
  /\ pc[c] \in {"connScan", "connTxs"} => it[c] \in Blocks /\ Has(it[c]) /\ IsMain(it[c])
  /\ pc[c] \in {"orphScan", "orphTxs"} => it[c] \in Blocks /\ Has(it[c]) /\ ~ IsMain(it[c])

LEMMA TxsInit == ASSUME NEW c \in Callers PROVE Init => TxsAt(c)
BY DEF Init, BlockDbInit, ConfirmDbInit, TxsAt, Changing, Checked, Has, Hashes

LEMMA TxsNext ==
  ASSUME NEW c \in Callers, FALSE \notin AllowModes, SharedInv, Shape(c), ChainState(c), TxsAt(c),
         SerialStep(c)
  PROVE  TxsAt(c)'
<1> USE BlocksAssumption, TreeAssumption
    DEF SharedInv, TypeInv, TypeOK, BlockDbTypeOK, ConfirmDbTypeOK, TxsAt, Changing, Checked,
        Has, IsMain, Hashes, Goto, Return, SameDb, SameBackground,
        blockVars, txVars, callVars, argVars, tipVars, walkVars
<1>0. Wanted(blk[c]) \subseteq Txs \/ pc[c] = "idle"
  BY WantedTxs
<1>1. ASSUME NEW b \in Blocks, NEW allow \in AllowModes, Call(c, b, allow)
      PROVE  TxsAt(c)'
  BY <1>1 DEF Call
<1>2. ASSUME HasBlock(c) PROVE TxsAt(c)'
  BY <1>2 DEF HasBlock, BeginTxs, StoredInv, WalkStored
<1>3. ASSUME HasPrev(c) PROVE TxsAt(c)'
  BY <1>3 DEF HasPrev, BeginTxs
<1>4. ASSUME TxsStored(c) \/ GetTip(c) \/ GetNext(c) PROVE TxsAt(c)'
  BY <1>4 DEF TxsStored, GetTip, GetNext
<1>5. ASSUME Add(c) PROVE TxsAt(c)'
  BY <1>5, <1>0 DEF Add, AddBlock, Shape, CallState
<1>6. ASSUME SetTipStep(c) PROVE TxsAt(c)'
  BY <1>6 DEF SetTipStep, SetTip
<1>7. ASSUME SetNextStep(c) PROVE TxsAt(c)'
  BY <1>7 DEF SetNextStep, SetNext
<1>8. ASSUME NEW t \in Txs, StoreTx(c, t) PROVE TxsAt(c)'
  BY <1>8, <1>0 DEF StoreTx, SetConfirmation, Shape, CallState
<1>9. ASSUME NEW t \in Txs, MissTx(c, t) PROVE TxsAt(c)'
  BY <1>9, <1>0 DEF MissTx
<1>10. ASSUME ReorgIsMain(c) \/ ConnPrev(c) \/ ConnIsMain(c) \/ ForkNext(c) PROVE TxsAt(c)'
  BY <1>10 DEF ReorgIsMain, BeginOrphan, BeginConnect, ConnPrev, ConnIsMain, ForkNext
<1>11. ASSUME ForkLink(c) \/ OrphNext(c) PROVE TxsAt(c)'
  BY <1>11 DEF ForkLink, OrphNext, BeginOrphan, SetNext
<1>12. ASSUME ConnMain(c) PROVE TxsAt(c)'
  <2>1. it[c] \in Blocks /\ Has(it[c])
    BY <1>12, ReorgBranches, LineageClosed DEF ConnMain, ChainState, WalkAt, ConnOps, ReorgOps,
          StoredInv, WalkStored
  <2> QED
    BY <1>12, <2>1 DEF ConnMain, FlagBlock, SetMain
<1>13. ASSUME OrphMain(c) PROVE TxsAt(c)'
  <2>1. it[c] \in Blocks /\ Has(it[c])
    BY <1>13, ReorgBranches, LineageClosed, StoredLineage
       DEF OrphMain, ChainState, WalkAt, OrphOps, ReorgOps
  <2> QED
    BY <1>13, <2>1 DEF OrphMain, FlagBlock, SetMain
<1>14. ASSUME ConnScan(c) \/ OrphScan(c) PROVE TxsAt(c)'
  BY <1>14 DEF ConnScan, OrphScan, ScanTxs, TxsFromBlock
<1>15. ASSUME ConnTxs(c) PROVE TxsAt(c)'
  <2>1. \A t \in Wanted(it[c]) : t \in todo[c] \/ <<it[c], t>> \in missed
    BY <1>15, WantedTxs DEF ConnTxs, TxsFromBlock, StoreInv, StoredBlockTxs
  <2> QED
    BY <1>15, <2>1 DEF ConnTxs, WriteTxs, WriteConfirmations
<1>16. ASSUME OrphTxs(c) PROVE TxsAt(c)'
  <2>1. \A t \in Txs : <<t, it[c]>> \in inBlk => t \in todo[c]
    BY <1>16 DEF OrphTxs, TxsFromBlock, ConfirmedCanBeUndone
  <2> QED
    BY <1>16, <2>1 DEF OrphTxs, WriteTxs, WriteConfirmations
<1> QED
  BY <1>1, <1>2, <1>3, <1>4, <1>5, <1>6, <1>7, <1>8, <1>9, <1>10, <1>11, <1>12, <1>13,
     <1>14, <1>15, <1>16 DEF SerialStep, Store, Reorg

-----------------------------------------------------------------------------
(* The inductive invariant                                                 *)

SerialInv(c) == SharedInv /\ Shape(c) /\ ChainState(c) /\ TxsAt(c)

LEMMA SerialInvInit == ASSUME NEW c \in Callers PROVE Init => SerialInv(c)
BY SharedInvInit, ShapeInit, ChainInit, TxsInit DEF SerialInv

LEMMA SerialInvNext ==
  ASSUME NEW c, Callers = {c}, FALSE \notin AllowModes
  PROVE  SerialInv(c) /\ [StraightNext]_vars => SerialInv(c)'
<1> SUFFICES ASSUME SerialInv(c), [StraightNext]_vars PROVE SerialInv(c)'
  OBVIOUS
<1>1. c \in Callers
  OBVIOUS
<1>2. CASE StraightNext
  <2>1. \/ \E b \in Blocks, allow \in AllowModes : StraightBranch(b) /\ Call(c, b, allow)
        \/ Store(c) \/ Reorg(c)
    BY <1>2 DEF StraightNext
  <2>2. SerialStep(c)
    BY <2>1 DEF SerialStep
  <2>3. SharedInv'
    BY <1>1, <2>2, SerialIsNext, SharedInvNext DEF SerialInv
  <2>4. Shape(c)'
    BY <1>1, <2>2, ShapeNext DEF SerialInv
  <2>5. ChainState(c)'
    BY <1>1, <2>1, ChainNext DEF SerialInv
  <2>6. TxsAt(c)'
    BY <1>1, <2>2, TxsNext DEF SerialInv
  <2> QED
    BY <2>3, <2>4, <2>5, <2>6 DEF SerialInv
<1>3. CASE UNCHANGED vars
  <2> USE <1>3 DEF vars, blockVars, txVars, callVars, argVars, tipVars, walkVars
  <2>1. SharedInv'
    BY SharedInvNext DEF SerialInv
  <2>2. Shape(c)'
    BY DEF SerialInv, Shape, Pointers, CallState, Settled, Has, NewPrev
  <2>3. /\ MainBlocks' = MainBlocks /\ NewPrev(c)' = NewPrev(c)
        /\ Lineage(tip)' = Lineage(tip) /\ Lineage(blk[c])' = Lineage(blk[c])
        /\ Lineage(NewPrev(c))' = Lineage(NewPrev(c))
        /\ Above(it[c], blk[c])' = Above(it[c], blk[c])
        /\ Above(last[c], blk[c])' = Above(last[c], blk[c])
        /\ Above(it[c], tip)' = Above(it[c], tip)
    BY DEF MainBlocks, IsMain, NewPrev
  <2>4. ChainState(c)'
    BY <2>3 DEF SerialInv, ChainState, MainAt, WalkAt, LinksAt, LinksRun, PromisedChain, Has
  <2>5. TxsAt(c)'
    BY DEF SerialInv, TxsAt, Changing, Has, IsMain, TxsFromBlock
  <2> QED
    BY <2>1, <2>2, <2>4, <2>5 DEF SerialInv
<1> QED
  BY <1>2, <1>3

LEMMA StraightInvariant ==
  ASSUME NEW c, Callers = {c}, FALSE \notin AllowModes
  PROVE  StraightSpec => []SerialInv(c)
<1>1. Init => SerialInv(c)
  BY SerialInvInit
<1> QED
  BY <1>1, SerialInvNext, PTL DEF StraightSpec

(* Where all branches start at one block, every branch is straight: a block*)
(* off the main chain with two children would be a second fork.            *)
LEMMA OneForkIsStraight ==
  ASSUME NEW c, Callers = {c}, OneFork, SerialInv(c), pc[c] = "idle", NEW b \in Blocks
  PROVE  StraightBranch(b)
<1> USE BlocksAssumption, TreeAssumption
<1> DEFINE p == Parent[b]
<1> SUFFICES ASSUME Has(p), NEW h \in Lineage(p), h # p, ~ IsMain(h)
             PROVE  next[h] \in Lineage(p)
  BY DEF StraightBranch
<1>1. SharedInv /\ Pointers(c) /\ p \in Blocks
  BY DEF SerialInv, Shape, Has, SharedInv, LinkInv, PrevIsParent, Hashes
<1>2. h \in Blocks /\ Lineage(p) \in SUBSET Blocks /\ Closed(Lineage(p))
  BY <1>1, LineageClosed
<1>3. \A k \in Lineage(p) : k \in Settled(c)
  BY <1>1, <1>2, StoredLineage DEF Settled, AfterAdd, ReorgOps, LinkOps
<1>4. tip \in Blocks
  BY <1>2, <1>3 DEF Pointers, SerialInv, Shape
<1>5. h \notin Lineage(tip)
  BY <1>2, <1>4 DEF SerialInv, ChainState, MainAt, BeforeAdd, PromisedChain, MainBlocks
<1>6. PICK k \in Lineage(p) : k \in Blocks /\ Parent[k] = h
  BY <1>1, ChildOnTheWay
<1>7. next[h] \in Blocks /\ Parent[next[h]] = h
  BY <1>1, <1>2, <1>3, <1>6 DEF Pointers, SharedInv, LinkInv, NextIsBlock, Hashes
(* The branch leaves the main chain at f, below j.                         *)
<1>8. PICK j \in {i \in Lineage(p) : i \notin Lineage(tip)} :
        Parent[j] \notin {i \in Lineage(p) : i \notin Lineage(tip)}
  BY <1>2, <1>5, LowestBlock
<1>9. Parent[j] \in Lineage(tip) /\ Parent[j] # tip /\ j \in Blocks
  <2>1. Parent[j] # Zero
    BY <1>2, <1>4, <1>8, GenesisInLineage
  <2> QED
    BY <1>1, <1>2, <1>3, <1>8, <2>1 DEF Closed, Pointers
<1>10. PICK i \in Lineage(tip) : i \in Blocks /\ Parent[i] = Parent[j]
  BY <1>4, <1>9, ChildOnTheWay
<1>11. i # j
  BY <1>8, <1>10
<1>12. ASSUME next[h] # k PROVE FALSE
  BY <1>5, <1>6, <1>7, <1>9, <1>10, <1>11, <1>12 DEF OneFork
<1> QED
  BY <1>6, <1>12

LEMMA SerialIsStraight ==
  ASSUME NEW c, Callers = {c}, FALSE \notin AllowModes, OneFork
  PROVE  SerialSpec => StraightSpec
<1>1. Init => SerialInv(c)
  BY SerialInvInit
<1>2. SerialInv(c) /\ [SerialNext]_vars => [StraightNext]_vars
  <2> SUFFICES ASSUME SerialInv(c), SerialNext PROVE StraightNext
    OBVIOUS
  <2>1. CASE Store(c) \/ Reorg(c)
    BY <2>1 DEF StraightNext
  <2>2. ASSUME NEW b \in Blocks, NEW allow \in AllowModes, Call(c, b, allow)
        PROVE  StraightNext
    BY <2>2, OneForkIsStraight DEF StraightNext, Call
  <2> QED
    BY <2>1, <2>2 DEF SerialNext
<1> QED
  BY <1>1, <1>2, SerialInvNext, PTL DEF SerialSpec, StraightSpec

-----------------------------------------------------------------------------
(* What the invariant says between calls                                   *)

LEMMA MainIsLineageHolds ==
  ASSUME NEW c \in Callers, SerialInv(c)
  PROVE  MainIsLineage
BY DEF MainIsLineage, Idle, SerialInv, ChainState, MainAt, BeforeAdd, PromisedChain

LEMMA NextFollowsMainHolds ==
  ASSUME NEW c \in Callers, SerialInv(c)
  PROVE  NextFollowsMain
<1> USE BlocksAssumption, TreeAssumption
<1> SUFFICES ASSUME Idle, tip # Null,
                    NEW b \in Lineage(tip)
             PROVE  IF b = tip THEN next[b] = Null ELSE next[b] \in Lineage(tip)
  BY DEF NextFollowsMain
<1>1. pc[c] = "idle" /\ Pointers(c) /\ tip \in Blocks
  BY DEF Idle, SerialInv, Shape, Pointers
<1>2. LinksRun(tip)
  BY <1>1 DEF SerialInv, ChainState, LinksAt, OldLinked, BeforeAdd
<1>3. next[tip] = Null
  <2>1. SUFFICES ASSUME next[tip] # Null PROVE FALSE
    OBVIOUS
  <2>2. next[tip] \in Blocks /\ Parent[next[tip]] = tip
    BY <1>1, <2>1 DEF SerialInv, SharedInv, LinkInv, NextIsBlock, Hashes
  <2>3. next[tip] \in Settled(c)
    BY <1>1, <2>1, <2>2 DEF Pointers, Settled, AfterAdd, ReorgOps, LinkOps
  <2> QED
    BY <1>1, <2>2, <2>3 DEF Pointers
<1> QED
  BY <1>2, <1>3 DEF LinksRun

LEMMA ConfirmedIffMainHolds ==
  ASSUME NEW c \in Callers, SerialInv(c)
  PROVE  ConfirmedIffMain
<1> SUFFICES ASSUME pc[c] = "idle", NEW b \in Blocks, Has(b), NEW t \in Wanted(b)
             PROVE  <<b, t>> \in missed \/ (<<t, b>> \in inBlk <=> IsMain(b))
  BY DEF ConfirmedIffMain, Idle
<1>1. t \in Txs
  BY WantedTxs
<1> QED
  BY <1>1 DEF SerialInv, TxsAt, Changing

(* MainIsLineage for one call at a time, on every tree: whatever sequence  *)
(* of blocks arrives, on whatever branches, the blocks flagged main are    *)
(* the tip and its ancestors, as long as reconnected branches are straight.*)
THEOREM MainChainIsLineage ==
  ASSUME NEW c, Callers = {c}, FALSE \notin AllowModes
  PROVE  StraightSpec => []MainIsLineage
<1>1. SerialInv(c) => MainIsLineage
  BY MainIsLineageHolds
<1> QED
  BY <1>1, StraightInvariant, PTL

(* NextFollowsMain likewise: the next pointers lead from Genesis to the    *)
(* tip, and no further.                                                    *)
THEOREM NextPointersFollowMain ==
  ASSUME NEW c, Callers = {c}, FALSE \notin AllowModes
  PROVE  StraightSpec => []NextFollowsMain
<1>1. SerialInv(c) => NextFollowsMain
  BY NextFollowsMainHolds
<1> QED
  BY <1>1, StraightInvariant, PTL

(* ConfirmedIffMain likewise: no reorganisation leaves a transaction       *)
(* confirmed in an orphan, or unconfirmed in a main block.                 *)
THEOREM ConfirmationsFollowMain ==
  ASSUME NEW c, Callers = {c}, FALSE \notin AllowModes
  PROVE  StraightSpec => []ConfirmedIffMain
<1>1. SerialInv(c) => ConfirmedIffMain
  BY ConfirmedIffMainHolds
<1> QED
  BY <1>1, StraightInvariant, PTL

(* Together, and for SerialSpec itself, where all branches of the tree     *)
(* start at one block.                                                     *)
THEOREM SerialStoreIsCorrect ==
  ASSUME NEW c, Callers = {c}, FALSE \notin AllowModes, OneFork
  PROVE  SerialSpec => [](MainIsLineage /\ NextFollowsMain /\ ConfirmedIffMain)
<1>1. SerialInv(c) => MainIsLineage /\ NextFollowsMain /\ ConfirmedIffMain
  BY MainIsLineageHolds, NextFollowsMainHolds, ConfirmedIffMainHolds
<1> QED
  BY <1>1, StraightInvariant, SerialIsStraight, PTL

(* ReorgSparesLineage: only orphMain clears a flag, and its walk is on the *)
(* old chain above the fork.                                               *)
THEOREM ReorgsSpareLineage ==
  ASSUME NEW c, Callers = {c}, FALSE \notin AllowModes
  PROVE  StraightSpec => ReorgSparesLineage
<1>1. SerialInv(c) /\ [StraightNext]_vars => [LineageSpared]_vars
  <2> SUFFICES ASSUME SerialInv(c), StraightNext,
                      NEW h, pc[c] # "idle", h \in Lineage(blk[c]), IsMain(h)
               PROVE  IsMain(h)'
    BY DEF LineageSpared
  <2>1. \/ \E b \in Blocks, allow \in AllowModes : Call(c, b, allow)
        \/ Store(c) \/ Reorg(c)
    BY DEF StraightNext
  <2>2. main \in [Hashes -> MainFlags] /\ h \in Hashes
    BY LineageClosed DEF SerialInv, SharedInv, TypeInv, TypeOK, BlockDbTypeOK, Hashes
  <2>3. CASE OrphMain(c)
    <3>1. it[c] # h
      BY <2>3 DEF OrphMain, SerialInv, ChainState, WalkAt, OrphOps
    <3> QED
      BY <2>2, <2>3, <3>1 DEF OrphMain, FlagBlock, SetMain, IsMain
  <2>4. CASE Add(c) \/ ConnMain(c)
    BY <2>2, <2>4 DEF Add, AddBlock, ConnMain, FlagBlock, SetMain, IsMain
  <2>5. CASE UNCHANGED main
    BY <2>5 DEF IsMain
  <2>6. OrphMain(c) \/ Add(c) \/ ConnMain(c) \/ UNCHANGED main
    BY <2>1 DEF Call, Store, Reorg, HasBlock, HasPrev, TxsStored, GetTip, GetNext, SetTipStep,
         SetTip, SetNextStep, SetNext, StoreTx, MissTx, ReorgIsMain, ConnScan, ConnTxs, ConnPrev,
         ConnIsMain, ForkNext, ForkLink, OrphScan, OrphTxs, OrphNext, ScanTxs, WriteTxs,
         SameDb, blockVars
  <2> QED
    BY <2>3, <2>4, <2>5, <2>6
<1> QED
  BY <1>1, StraightInvariant, PTL DEF StraightSpec, ReorgSparesLineage

-----------------------------------------------------------------------------
(* storeTipBlock implements ChainIndex                                     *)

SeenAsPromised ==
  /\ VisibleChain = PromisedChain
  /\ VisibleConfirmed = {p \in Txs \X PromisedChain : p[1] \in Wanted(p[2])}

(* What a reader is promised is the chain of the tip at any time: between  *)
(* calls it is what the flags and the confirmations say.                   *)
LEMMA Views ==
  ASSUME NEW c, Callers = {c}, SerialInv(c)
  PROVE  SeenAsPromised
<1> USE DEF SeenAsPromised
<1>1. CASE ~ Idle
  BY <1>1 DEF VisibleChain, VisibleConfirmed
<1>2. CASE Idle
  <2>1. pc[c] = "idle" /\ TxsAt(c) /\ SharedInv
    BY <1>2 DEF Idle, SerialInv
  <2>2. MainBlocks = PromisedChain
    BY <2>1 DEF SerialInv, ChainState, MainAt, BeforeAdd
  <2>3. inBlk \in SUBSET (Txs \X Blocks) /\ missed \in SUBSET (Blocks \X Txs)
    BY <2>1 DEF SharedInv, TypeInv, TypeOK, ConfirmDbTypeOK
  <2>4. ASSUME NEW t \in Txs, NEW b \in Blocks, <<t, b>> \in inBlk
        PROVE  b \in MainBlocks /\ t \in Wanted(b)
    <3>1. Has(b) /\ t \in Wanted(b)
      BY <2>1, <2>4 DEF TxsAt, Checked, SharedInv, ConfirmedCanBeUndone
    <3> QED
      BY <2>1, <2>4, <3>1 DEF TxsAt, Changing, MainBlocks
  <2>5. ASSUME NEW t \in Txs, NEW b \in MainBlocks, <<b, t>> \in missed
        PROVE  t \in Wanted(b)
    BY <2>1, <2>5 DEF TxsAt, MainBlocks
  <2>6. ASSUME NEW t \in Txs, NEW b \in MainBlocks, t \in Wanted(b)
        PROVE  <<t, b>> \in inBlk \/ <<b, t>> \in missed
    BY <2>1, <2>6 DEF TxsAt, Changing, MainBlocks, SharedInv, StoredInv, NoPhantomMain
  <2>7. inBlk \cup Credited = {p \in Txs \X MainBlocks : p[1] \in Wanted(p[2])}
    <3>1. ASSUME NEW q \in inBlk \cup Credited
          PROVE  q \in Txs \X MainBlocks /\ q[1] \in Wanted(q[2])
      BY <2>3, <2>4, <2>5, <3>1 DEF Credited, MainBlocks
    <3>2. ASSUME NEW q \in Txs \X MainBlocks, q[1] \in Wanted(q[2])
          PROVE  q \in inBlk \cup Credited
      BY <2>6, <3>2 DEF Credited
    <3> QED
      BY <3>1, <3>2
  <2> QED
    BY <1>2, <2>2, <2>7 DEF VisibleChain, VisibleConfirmed
<1> QED
  BY <1>1, <1>2

LEMMA RefinesInit ==
  ASSUME NEW c, Callers = {c}
  PROVE  Init => Chain!Init
<1> SUFFICES ASSUME Init PROVE Chain!Init
  OBVIOUS
<1>1. /\ tip = Null /\ inBlk = {} /\ missed = {}
      /\ \A b \in Blocks : ~ Has(b) /\ ~ IsMain(b)
  BY DEF Init, BlockDbInit, ConfirmDbInit, Has, IsMain, Hashes
<1>2. Idle
  BY DEF Init, Idle
<1> QED
  BY <1>1, <1>2 DEF Chain!Init, Adopted, VisibleChain, VisibleConfirmed, MainBlocks, Credited

(* The block of a call is adopted by setTip, not before.                   *)
LEMMA AdoptedBlocks ==
  ASSUME NEW c, Callers = {c}
  PROVE  Adopted = {k \in Blocks : Has(k) /\ ~ (pc[c] \in ReorgOps \cup {"setTip"} /\ k = blk[c])}
BY DEF Adopted, InFlight

LEMMA RefinesSetTip ==
  ASSUME NEW c, Callers = {c}, SerialInv(c), SerialInv(c)', SetTipStep(c)
  PROVE  Chain!Adopt(blk[c])
<1> USE BlocksAssumption, TreeAssumption
<1> DEFINE b == blk[c]
<1>1. /\ pc[c] = "setTip" /\ pc'[c] = "setNext" /\ tip' = b
      /\ UNCHANGED <<prev, blk>>
  BY DEF SetTipStep, SetTip, Goto, callVars, argVars, SerialInv, SharedInv, TypeInv, TypeOK
<1>2. b \in Blocks /\ Has(b) /\ (Parent[b] = Zero \/ (Has(Parent[b]) /\ Parent[b] \in Blocks))
      /\ Parent[b] # b
  <2>1. b \in Blocks /\ Has(b) /\ (Parent[b] = Zero \/ Has(Parent[b]))
    BY <1>1 DEF SerialInv, Shape, CallState, AfterAdd, LinkOps, NewPrev
  <2>2. Parent[b] # b
    BY <2>1, LineageParent, LineageClosed
  <2> QED
    BY <2>1, <2>2
<1>3. Adopted = {k \in Blocks : Has(k) /\ k # b}
  BY <1>1, AdoptedBlocks
<1>4. Adopted' = {k \in Blocks : Has(k)}
  BY <1>1 DEF Adopted, InFlight, Has, ReorgOps
<1>5. PromisedChain' = Lineage(b)
  BY <1>1, <1>2 DEF PromisedChain
<1>6. /\ VisibleChain' = Lineage(b)
      /\ VisibleConfirmed' = {p \in Txs \X Lineage(b) : p[1] \in Wanted(p[2])}
  <2>1. ~ Idle'
    BY <1>1 DEF Idle
  <2> QED
    BY <1>5, <2>1 DEF VisibleChain, VisibleConfirmed, Wanted
<1>7. Chain!Lineage(b) = Lineage(b)
  BY DEF Chain!Lineage, Lineage
<1> QED
  BY <1>1, <1>2, <1>3, <1>4, <1>6, <1>7 DEF Chain!Adopt, Chain!ConfirmedBy

LEMMA RefinesStutter ==
  ASSUME SeenAsPromised, SeenAsPromised', Adopted' = Adopted, tip' = tip
  PROVE  UNCHANGED Chain!chainVars
<1>1. PromisedChain' = PromisedChain
  BY DEF PromisedChain
<1> QED
  BY <1>1, TxsAssumption DEF SeenAsPromised, Chain!chainVars, Wanted

LEMMA RefinesNext ==
  ASSUME NEW c, Callers = {c}, FALSE \notin AllowModes, SerialInv(c), SerialInv(c)',
         SeenAsPromised, SeenAsPromised', [StraightNext]_vars
  PROVE  [Chain!Next]_(Chain!chainVars)
<1> USE DEF SerialInv, SharedInv, TypeInv, TypeOK, BlockDbTypeOK, Hashes
<1>1. CASE SetTipStep(c)
  <2>1. blk[c] \in Blocks
    BY <1>1 DEF SetTipStep
  <2> QED
    BY <1>1, <2>1, RefinesSetTip DEF Chain!Next
<1>2. CASE ~ SetTipStep(c) /\ StraightNext
  <2>1. /\ Adopted  = {k \in Blocks : Has(k) /\ ~ (pc[c] \in ReorgOps \cup {"setTip"} /\ k = blk[c])}
        /\ Adopted' = {k \in Blocks : Has(k)' /\ ~ (pc'[c] \in ReorgOps \cup {"setTip"} /\ k = blk'[c])}
    BY DEF Adopted, InFlight
  <2> DEFINE Same == tip' = tip /\ \A k \in Blocks :
        (Has(k)' /\ ~ (pc'[c] \in ReorgOps \cup {"setTip"} /\ k = blk'[c]))
        <=> (Has(k) /\ ~ (pc[c] \in ReorgOps \cup {"setTip"} /\ k = blk[c]))
  <2>2. Same
    <3> USE DEF Has, ReorgOps, Goto, Return, SameDb, blockVars, callVars, argVars, tipVars, walkVars
    <3>1. ASSUME NEW b \in Blocks, NEW allow \in AllowModes, Call(c, b, allow) PROVE Same
      BY <3>1 DEF Call
    <3>2. CASE HasBlock(c) \/ HasPrev(c) \/ TxsStored(c) \/ GetTip(c) \/ GetNext(c)
      BY <3>2 DEF HasBlock, HasPrev, TxsStored, GetTip, GetNext, BeginTxs
    <3>3. CASE Add(c)
      BY <3>3, BlocksAssumption, TreeAssumption
         DEF Add, AddBlock, Shape, CallState, Checked, StoredInv, WalkStored
    <3>4. CASE SetNextStep(c)
      BY <3>4 DEF SetNextStep, SetNext
    <3>5. CASE \E t \in Txs : StoreTx(c, t) \/ MissTx(c, t)
      BY <3>5 DEF StoreTx, MissTx
    <3>6. CASE ReorgIsMain(c) \/ ConnPrev(c) \/ ConnIsMain(c) \/ ForkNext(c)
      BY <3>6 DEF ReorgIsMain, BeginOrphan, BeginConnect, ConnPrev, ConnIsMain, ForkNext
    <3>7. CASE ForkLink(c) \/ OrphNext(c)
      BY <3>7 DEF ForkLink, OrphNext, BeginOrphan, SetNext
    <3>8. CASE ConnMain(c) \/ OrphMain(c)
      BY <3>8 DEF ConnMain, OrphMain, FlagBlock, SetMain
    <3>9. CASE ConnScan(c) \/ OrphScan(c) \/ ConnTxs(c) \/ OrphTxs(c)
      BY <3>9 DEF ConnScan, OrphScan, ConnTxs, OrphTxs, ScanTxs, WriteTxs
    <3> QED
      BY <1>2, <3>1, <3>2, <3>3, <3>4, <3>5, <3>6, <3>7, <3>8, <3>9 DEF StraightNext, Store, Reorg
  <2>3. Adopted' = Adopted
    BY <2>1, <2>2
  <2> QED
    BY <2>2, <2>3, RefinesStutter
<1>3. CASE UNCHANGED vars
  <2>1. Adopted' = Adopted /\ tip' = tip
    BY <1>3 DEF vars, blockVars, callVars, argVars, Adopted, InFlight, Has
  <2> QED
    BY <2>1, RefinesStutter
<1> QED
  BY <1>1, <1>2, <1>3

(* ImplementsChainIndex: storeTipBlock, in its twenty operations, adopts a *)
(* block whose parent was adopted, and does nothing else that a reader of  *)
(* the chain and of the confirmations could tell.                          *)
THEOREM StoreTipBlockImplementsChainIndex ==
  ASSUME NEW c, Callers = {c}, FALSE \notin AllowModes
  PROVE  StraightSpec => ImplementsChainIndex
<1>1. Init => Chain!Init
  BY RefinesInit
<1>2. SerialInv(c) => SeenAsPromised
  BY Views
<1>3. /\ SerialInv(c) /\ SerialInv(c)' /\ SeenAsPromised /\ SeenAsPromised'
      /\ [StraightNext]_vars
      => [Chain!Next]_(Chain!chainVars)
  BY RefinesNext
<1> QED
  BY <1>1, <1>2, <1>3, StraightInvariant, PTL DEF StraightSpec, ImplementsChainIndex, Chain!Spec
=============================================================================
