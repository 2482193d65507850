----------------------------- MODULE SyncProofs -----------------------------
(***************************************************************************)
(* Theorems about Sync, for every tree of blocks, every set of transactions*)
(* and of concurrent calls, and every combination of faults.               *)
(***************************************************************************)
EXTENDS SyncProps, TLAPS

(* The transactions of a block are transactions.                           *)
LEMMA WantedTxs == \A b \in Blocks : Wanted(b) \in SUBSET Txs
BY TxsAssumption DEF Wanted

(* What the scan of tx- keys returns is a set of transactions of the block.*)
LEMMA ScannedTxs ==
  \A h : /\ TxsFromBlock(h) \in SUBSET Txs
         /\ \A t \in TxsFromBlock(h) : <<h, t>> \in fromBlk
BY DEF TxsFromBlock

-----------------------------------------------------------------------------
(* Type correctness                                                        *)

(* handleBlockChange rewrites only keys it found: without this, writing the*)
(* flags of Zero or Null, which a walk may visit, would leave the type.    *)
ScanFound ==
  \A c \in Callers : pc[c] \in {"connTxs", "orphTxs"} =>
    \A t \in todo[c] : <<it[c], t>> \in fromBlk

TypeInv == TypeOK /\ ScanFound

LEMMA InitTypeInv == Init => TypeInv
<1> SUFFICES ASSUME Init PROVE TypeInv
  OBVIOUS
<1>1. BlockDbTypeOK
  BY DEF Init, BlockDbInit, BlockDbTypeOK, Hashes, MainFlags
<1>2. ConfirmDbTypeOK
  BY DEF Init, ConfirmDbInit, ConfirmDbTypeOK
<1> QED
  BY <1>1, <1>2 DEF Init, TypeInv, TypeOK, ScanFound, Hashes

(* A call that returns, and one that starts on the transactions of its     *)
(* block, keep every type.                                                 *)
LEMMA ReturnTypeInv ==
  ASSUME TypeInv, NEW c \in Callers, Return(c), SameDb, SameBackground
  PROVE  TypeInv'
<1> USE DEF TypeInv, TypeOK, BlockDbTypeOK, ConfirmDbTypeOK, SameDb, SameBackground,
            blockVars, txVars
<1>1. ScanFound'
  BY DEF Return, Goto, ScanFound
<1> QED
  BY <1>1 DEF Return, Goto, Hashes

LEMMA BeginTxsTypeInv ==
  ASSUME TypeInv, NEW c \in Callers, blk[c] \in Blocks, BeginTxs(c),
         SameDb, SameBackground
  PROVE  TypeInv'
<1> USE DEF TypeInv, TypeOK, BlockDbTypeOK, ConfirmDbTypeOK, SameDb, SameBackground,
            BeginTxs, Goto, blockVars, txVars, argVars, tipVars, walkVars
<1>1. Wanted(blk[c]) \in SUBSET Txs
  BY WantedTxs
<1>2. todo' \in [Callers -> SUBSET Txs]
  BY <1>1
<1>3. ScanFound'
  BY DEF ScanFound
<1> QED
  BY <1>2, <1>3 DEF Ops, StoreOps

LEMMA NextTypeInv == TypeInv /\ [Next]_vars => TypeInv'
<1> SUFFICES ASSUME TypeInv, [Next]_vars PROVE TypeInv'
  OBVIOUS
<1> USE BlocksAssumption, TreeAssumption
    DEF TypeInv, TypeOK, BlockDbTypeOK, ConfirmDbTypeOK, ScanFound,
        Hashes, MainFlags, Ops, StoreOps, ReorgOps, LinkOps,
        Goto, Return, SameDb, SameBackground,
        blockVars, txVars, callVars, argVars, tipVars, walkVars
<1>1. ASSUME NEW c \in Callers, NEW b \in Blocks, NEW allow \in AllowModes,
              Call(c, b, allow)
      PROVE  TypeInv'
  BY <1>1, SyncAssumption DEF Call
<1>2. ASSUME NEW c \in Callers, HasBlock(c)
      PROVE  TypeInv'
  <2>1. blk[c] \in Blocks /\ SameDb /\ SameBackground
    BY <1>2 DEF HasBlock
  <2>2. CASE Return(c)
    BY <2>1, <2>2, ReturnTypeInv
  <2>3. CASE BeginTxs(c)
    BY <2>1, <2>3, BeginTxsTypeInv
  <2>4. CASE Goto(c, "hasPrev") /\ UNCHANGED callVars
    BY <2>1, <2>4
  <2> QED
    BY <1>2, <2>2, <2>3, <2>4 DEF HasBlock
<1>3. ASSUME NEW c \in Callers, HasPrev(c)
      PROVE  TypeInv'
  <2>1. blk[c] \in Blocks /\ SameDb /\ SameBackground
    BY <1>3 DEF HasPrev
  <2>2. CASE Return(c)
    BY <2>1, <2>2, ReturnTypeInv
  <2>3. CASE BeginTxs(c)
    BY <2>1, <2>3, BeginTxsTypeInv
  <2> QED
    BY <1>3, <2>2, <2>3 DEF HasPrev
<1>4. ASSUME NEW c \in Callers, TxsStored(c)
      PROVE  TypeInv'
  BY <1>4 DEF TxsStored
<1>5. ASSUME NEW c \in Callers, GetTip(c)
      PROVE  TypeInv'
  BY <1>5 DEF GetTip, NewPrev
<1>6. ASSUME NEW c \in Callers, GetNext(c)
      PROVE  TypeInv'
  BY <1>6 DEF GetNext, NewPrev
<1>7. ASSUME NEW c \in Callers, Add(c)
      PROVE  TypeInv'
  BY <1>7 DEF Add, AddBlock
<1>8. ASSUME NEW c \in Callers, SetTipStep(c)
      PROVE  TypeInv'
  BY <1>8 DEF SetTipStep, SetTip
<1>9. ASSUME NEW c \in Callers, SetNextStep(c)
      PROVE  TypeInv'
  BY <1>9 DEF SetNextStep, SetNext, NewPrev
<1>10. ASSUME NEW c \in Callers, ReorgIsMain(c)
      PROVE  TypeInv'
  BY <1>10 DEF ReorgIsMain, BeginOrphan, BeginConnect, NewPrev
<1>11. ASSUME NEW c \in Callers, ConnMain(c)
      PROVE  TypeInv'
  BY <1>11 DEF ConnMain, FlagBlock, SetMain
<1>12. ASSUME NEW c \in Callers, ConnScan(c)
      PROVE  TypeInv'
  <2>1. /\ TxsFromBlock(it[c]) \in SUBSET Txs
        /\ \A t \in TxsFromBlock(it[c]) : <<it[c], t>> \in fromBlk
    BY ScannedTxs
  <2>2. todo' \in [Callers -> SUBSET Txs]
    BY <1>12, <2>1 DEF ConnScan, ScanTxs
  <2>3. ScanFound'
    BY <1>12, <2>1 DEF ConnScan, ScanTxs
  <2> QED
    BY <1>12, <2>2, <2>3 DEF ConnScan, ScanTxs
<1>13. ASSUME NEW c \in Callers, ConnTxs(c)
      PROVE  TypeInv'
  <2>1. inBlk' \in SUBSET (Txs \X Blocks)
    <3>1. ASSUME NEW t \in todo[c] PROVE t \in Txs /\ it[c] \in Blocks
      <4>1. <<it[c], t>> \in Blocks \X Txs
        BY <1>13 DEF ConnTxs
      <4> QED
        BY <4>1
    <3> QED
      BY <1>13, <3>1 DEF ConnTxs, WriteTxs, WriteConfirmations
  <2> QED
    BY <1>13, <2>1 DEF ConnTxs, WriteTxs, WriteConfirmations
<1>14. ASSUME NEW c \in Callers, ConnPrev(c)
      PROVE  TypeInv'
  BY <1>14 DEF ConnPrev
<1>15. ASSUME NEW c \in Callers, ConnIsMain(c)
      PROVE  TypeInv'
  BY <1>15 DEF ConnIsMain
<1>16. ASSUME NEW c \in Callers, ForkNext(c)
      PROVE  TypeInv'
  BY <1>16 DEF ForkNext
<1>17. ASSUME NEW c \in Callers, ForkLink(c)
      PROVE  TypeInv'
  BY <1>17 DEF ForkLink, BeginOrphan, SetNext
<1>18. ASSUME NEW c \in Callers, OrphMain(c)
      PROVE  TypeInv'
  BY <1>18 DEF OrphMain, FlagBlock, SetMain
<1>19. ASSUME NEW c \in Callers, OrphScan(c)
      PROVE  TypeInv'
  <2>1. /\ TxsFromBlock(it[c]) \in SUBSET Txs
        /\ \A t \in TxsFromBlock(it[c]) : <<it[c], t>> \in fromBlk
    BY ScannedTxs
  <2>2. todo' \in [Callers -> SUBSET Txs]
    BY <1>19, <2>1 DEF OrphScan, ScanTxs
  <2>3. ScanFound'
    BY <1>19, <2>1 DEF OrphScan, ScanTxs
  <2> QED
    BY <1>19, <2>2, <2>3 DEF OrphScan, ScanTxs
<1>20. ASSUME NEW c \in Callers, OrphTxs(c)
      PROVE  TypeInv'
  BY <1>20 DEF OrphTxs, WriteTxs, WriteConfirmations
<1>21. ASSUME NEW c \in Callers, OrphNext(c)
      PROVE  TypeInv'
  BY <1>21 DEF OrphNext, BeginOrphan
<1>22. ASSUME NEW c \in Callers, DbError(c)
      PROVE  TypeInv'
  BY <1>22 DEF DbError
<1>23. ASSUME NEW c \in Callers, DbErrorIgnored(c)
      PROVE  TypeInv'
  BY <1>23 DEF DbErrorIgnored, BeginConnect, NewPrev
<1>24. ASSUME NEW c \in Callers, NEW t \in Txs, StoreTx(c, t)
      PROVE  TypeInv'
  BY <1>24 DEF StoreTx, SetConfirmation
<1>25. ASSUME NEW c \in Callers, NEW t \in Txs, MissTx(c, t)
      PROVE  TypeInv'
  BY <1>25 DEF MissTx
<1>26. ASSUME NEW c \in Callers, NEW t \in Txs, FailTx(c, t)
      PROVE  TypeInv'
  BY <1>26 DEF FailTx
<1>27. ASSUME NEW t \in Txs, NEW b \in Blocks, StrayTx(t, b)
      PROVE  TypeInv'
  BY <1>27 DEF StrayTx, SetConfirmation
<1>28. ASSUME Crash
      PROVE  TypeInv'
  BY <1>28 DEF Crash, Restart, Halt
<1>29. CASE UNCHANGED vars
  BY <1>29 DEF vars
<1> QED
  BY <1>1, <1>2, <1>3, <1>4, <1>5, <1>6, <1>7, <1>8, <1>9, <1>10, <1>11,
     <1>12, <1>13, <1>14, <1>15, <1>16, <1>17, <1>18, <1>19, <1>20, <1>21,
     <1>22, <1>23, <1>24, <1>25, <1>26, <1>27, <1>28, <1>29
     DEF Next, Progress, Fail, Store, Reorg

(* Every variable keeps its type: in particular the walks of processReorg  *)
(* never leave the hashes of the network, and nothing is confirmed that is *)
(* not a transaction in a block.                                           *)
THEOREM TypeCorrect == Spec => []TypeOK
<1>1. Spec => []TypeInv
  BY InitTypeInv, NextTypeInv, PTL DEF Spec
<1>2. TypeInv => TypeOK
  BY DEF TypeInv
<1> QED
  BY <1>1, <1>2, PTL

-----------------------------------------------------------------------------
(* A stored block has its transactions                                     *)

Known(b, t) == <<b, t>> \in fromBlk \cup missed

(* While a call is between createTxs and add, the transactions that are not*)
(* pending are recorded; that is what add then relies on.                  *)
TxsProgress ==
  \A c \in Callers :
    /\ pc[c] = "createTxs" => \A t \in Wanted(blk[c]) \ todo[c] : Known(blk[c], t)
    /\ pc[c] \in {"getTip", "getNext", "add"} =>
         \A t \in Wanted(blk[c]) : Known(blk[c], t)

StoreInv == TypeInv /\ StoredBlockTxs /\ TxsProgress

LEMMA InitStoreInv == Init => StoreInv
BY InitTypeInv DEF StoreInv, Init, BlockDbInit, StoredBlockTxs, TxsProgress, Has, Hashes

(* Records only grow, so that only a change of prev, of pc, or of the      *)
(* pending items of a call matters.                                        *)
LEMMA NextStoreInv == StoreInv /\ [Next]_vars => StoreInv'
<1> SUFFICES ASSUME StoreInv, [Next]_vars PROVE (StoredBlockTxs /\ TxsProgress)'
  BY NextTypeInv DEF StoreInv
<1> USE DEF StoreInv, TypeInv, TypeOK, BlockDbTypeOK, StoredBlockTxs, TxsProgress,
            Known, Wanted, Has, Hashes, Ops, StoreOps, ReorgOps, LinkOps,
            Goto, Return, SameDb, SameBackground,
            blockVars, txVars, callVars, argVars, tipVars, walkVars
<1>1. ASSUME NEW c \in Callers, NEW b \in Blocks, NEW allow \in AllowModes,
              Call(c, b, allow)
      PROVE  (StoredBlockTxs /\ TxsProgress)'
  BY <1>1 DEF Call
<1>2. ASSUME NEW c \in Callers, HasBlock(c)
      PROVE  (StoredBlockTxs /\ TxsProgress)'
  BY <1>2 DEF HasBlock, BeginTxs
<1>3. ASSUME NEW c \in Callers, HasPrev(c)
      PROVE  (StoredBlockTxs /\ TxsProgress)'
  BY <1>3 DEF HasPrev, BeginTxs, PrevMissing
<1>4. ASSUME NEW c \in Callers, TxsStored(c)
      PROVE  (StoredBlockTxs /\ TxsProgress)'
  BY <1>4 DEF TxsStored
<1>5. ASSUME NEW c \in Callers, GetTip(c)
      PROVE  (StoredBlockTxs /\ TxsProgress)'
  BY <1>5 DEF GetTip, NewPrev
<1>6. ASSUME NEW c \in Callers, GetNext(c)
      PROVE  (StoredBlockTxs /\ TxsProgress)'
  BY <1>6 DEF GetNext, NewPrev
<1>7. ASSUME NEW c \in Callers, Add(c)
      PROVE  (StoredBlockTxs /\ TxsProgress)'
  BY <1>7, BlocksAssumption, TreeAssumption DEF Add, AddBlock
<1>8. ASSUME NEW c \in Callers, SetTipStep(c)
      PROVE  (StoredBlockTxs /\ TxsProgress)'
  BY <1>8 DEF SetTipStep, SetTip
<1>9. ASSUME NEW c \in Callers, SetNextStep(c)
      PROVE  (StoredBlockTxs /\ TxsProgress)'
  BY <1>9 DEF SetNextStep, SetNext, NewPrev
<1>10. ASSUME NEW c \in Callers, ReorgIsMain(c)
      PROVE  (StoredBlockTxs /\ TxsProgress)'
  BY <1>10 DEF ReorgIsMain, BeginOrphan, BeginConnect, NewPrev
<1>11. ASSUME NEW c \in Callers, ConnMain(c)
      PROVE  (StoredBlockTxs /\ TxsProgress)'
  BY <1>11 DEF ConnMain, FlagBlock, SetMain
<1>12. ASSUME NEW c \in Callers, ConnScan(c)
      PROVE  (StoredBlockTxs /\ TxsProgress)'
  BY <1>12 DEF ConnScan, ScanTxs
<1>13. ASSUME NEW c \in Callers, ConnTxs(c)
      PROVE  (StoredBlockTxs /\ TxsProgress)'
  BY <1>13 DEF ConnTxs, WriteTxs, WriteConfirmations
<1>14. ASSUME NEW c \in Callers, ConnPrev(c)
      PROVE  (StoredBlockTxs /\ TxsProgress)'
  BY <1>14 DEF ConnPrev
<1>15. ASSUME NEW c \in Callers, ConnIsMain(c)
      PROVE  (StoredBlockTxs /\ TxsProgress)'
  BY <1>15 DEF ConnIsMain
<1>16. ASSUME NEW c \in Callers, ForkNext(c)
      PROVE  (StoredBlockTxs /\ TxsProgress)'
  BY <1>16 DEF ForkNext
<1>17. ASSUME NEW c \in Callers, ForkLink(c)
      PROVE  (StoredBlockTxs /\ TxsProgress)'
  BY <1>17 DEF ForkLink, BeginOrphan, SetNext
<1>18. ASSUME NEW c \in Callers, OrphMain(c)
      PROVE  (StoredBlockTxs /\ TxsProgress)'
  BY <1>18 DEF OrphMain, FlagBlock, SetMain
<1>19. ASSUME NEW c \in Callers, OrphScan(c)
      PROVE  (StoredBlockTxs /\ TxsProgress)'
  BY <1>19 DEF OrphScan, ScanTxs
<1>20. ASSUME NEW c \in Callers, OrphTxs(c)
      PROVE  (StoredBlockTxs /\ TxsProgress)'
  BY <1>20 DEF OrphTxs, WriteTxs, WriteConfirmations
<1>21. ASSUME NEW c \in Callers, OrphNext(c)
      PROVE  (StoredBlockTxs /\ TxsProgress)'
  BY <1>21 DEF OrphNext, BeginOrphan
<1>22. ASSUME NEW c \in Callers, DbError(c)
      PROVE  (StoredBlockTxs /\ TxsProgress)'
  BY <1>22 DEF DbError
<1>23. ASSUME NEW c \in Callers, DbErrorIgnored(c)
      PROVE  (StoredBlockTxs /\ TxsProgress)'
  BY <1>23 DEF DbErrorIgnored, BeginConnect, NewPrev
<1>24. ASSUME NEW c \in Callers, NEW t \in Txs, StoreTx(c, t)
      PROVE  (StoredBlockTxs /\ TxsProgress)'
  BY <1>24 DEF StoreTx, SetConfirmation
<1>25. ASSUME NEW c \in Callers, NEW t \in Txs, MissTx(c, t)
      PROVE  (StoredBlockTxs /\ TxsProgress)'
  BY <1>25 DEF MissTx
<1>26. ASSUME NEW c \in Callers, NEW t \in Txs, FailTx(c, t)
      PROVE  (StoredBlockTxs /\ TxsProgress)'
  BY <1>26 DEF FailTx
<1>27. ASSUME NEW t \in Txs, NEW b \in Blocks, StrayTx(t, b)
      PROVE  (StoredBlockTxs /\ TxsProgress)'
  BY <1>27 DEF StrayTx, SetConfirmation
<1>28. ASSUME Crash
      PROVE  (StoredBlockTxs /\ TxsProgress)'
  BY <1>28 DEF Crash, Restart, Halt
<1>29. CASE UNCHANGED vars
  BY <1>29 DEF vars
<1> QED
  BY <1>1, <1>2, <1>3, <1>4, <1>5, <1>6, <1>7, <1>8, <1>9, <1>10, <1>11,
     <1>12, <1>13, <1>14, <1>15, <1>16, <1>17, <1>18, <1>19, <1>20, <1>21,
     <1>22, <1>23, <1>24, <1>25, <1>26, <1>27, <1>28, <1>29
     DEF Next, Progress, Fail, Store, Reorg

(* StoredBlockTxs for every tree and number of callers: whatever calls of  *)
(* the same block overlap, fail or are cut off by a crash, a block is only *)
(* stored after its transactions.                                          *)
THEOREM StoredBlocksHaveTheirTxs == Spec => []StoredBlockTxs
<1>1. Spec => []StoreInv
  BY InitStoreInv, NextStoreInv, PTL DEF Spec
<1>2. StoreInv => StoredBlockTxs
  BY DEF StoreInv
<1> QED
  BY <1>1, <1>2, PTL

-----------------------------------------------------------------------------
(* A confirmation can be undone                                            *)

LEMMA InitUndo == Init => ConfirmedCanBeUndone
BY DEF Init, ConfirmDbInit, ConfirmedCanBeUndone

LEMMA NextUndo == TypeInv /\ ConfirmedCanBeUndone /\ [Next]_vars => ConfirmedCanBeUndone'
<1> SUFFICES ASSUME TypeInv, ConfirmedCanBeUndone, [Next]_vars
             PROVE  ConfirmedCanBeUndone'
  OBVIOUS
<1> USE DEF ConfirmedCanBeUndone, SameDb, txVars
<1>1. ASSUME NEW c \in Callers, NEW b \in Blocks, NEW allow \in AllowModes,
              Call(c, b, allow)
      PROVE  ConfirmedCanBeUndone'
  BY <1>1 DEF Call
<1>2. ASSUME NEW c \in Callers, HasBlock(c)
      PROVE  ConfirmedCanBeUndone'
  BY <1>2 DEF HasBlock, BeginTxs
<1>3. ASSUME NEW c \in Callers, HasPrev(c)
      PROVE  ConfirmedCanBeUndone'
  BY <1>3 DEF HasPrev, BeginTxs, PrevMissing
<1>4. ASSUME NEW c \in Callers, TxsStored(c)
      PROVE  ConfirmedCanBeUndone'
  BY <1>4 DEF TxsStored
<1>5. ASSUME NEW c \in Callers, GetTip(c)
      PROVE  ConfirmedCanBeUndone'
  BY <1>5 DEF GetTip, NewPrev
<1>6. ASSUME NEW c \in Callers, GetNext(c)
      PROVE  ConfirmedCanBeUndone'
  BY <1>6 DEF GetNext, NewPrev
<1>7. ASSUME NEW c \in Callers, Add(c)
      PROVE  ConfirmedCanBeUndone'
  BY <1>7 DEF Add, AddBlock
<1>8. ASSUME NEW c \in Callers, SetTipStep(c)
      PROVE  ConfirmedCanBeUndone'
  BY <1>8 DEF SetTipStep, SetTip
<1>9. ASSUME NEW c \in Callers, SetNextStep(c)
      PROVE  ConfirmedCanBeUndone'
  BY <1>9 DEF SetNextStep, SetNext, NewPrev
<1>10. ASSUME NEW c \in Callers, ReorgIsMain(c)
      PROVE  ConfirmedCanBeUndone'
  BY <1>10 DEF ReorgIsMain, BeginOrphan, BeginConnect, NewPrev
<1>11. ASSUME NEW c \in Callers, ConnMain(c)
      PROVE  ConfirmedCanBeUndone'
  BY <1>11 DEF ConnMain, FlagBlock, SetMain
<1>12. ASSUME NEW c \in Callers, ConnScan(c)
      PROVE  ConfirmedCanBeUndone'
  BY <1>12 DEF ConnScan, ScanTxs
<1>13. ASSUME NEW c \in Callers, ConnTxs(c)
      PROVE  ConfirmedCanBeUndone'
  BY <1>13 DEF ConnTxs, WriteTxs, WriteConfirmations, TypeInv, ScanFound
<1>14. ASSUME NEW c \in Callers, ConnPrev(c)
      PROVE  ConfirmedCanBeUndone'
  BY <1>14 DEF ConnPrev
<1>15. ASSUME NEW c \in Callers, ConnIsMain(c)
      PROVE  ConfirmedCanBeUndone'
  BY <1>15 DEF ConnIsMain
<1>16. ASSUME NEW c \in Callers, ForkNext(c)
      PROVE  ConfirmedCanBeUndone'
  BY <1>16 DEF ForkNext
<1>17. ASSUME NEW c \in Callers, ForkLink(c)
      PROVE  ConfirmedCanBeUndone'
  BY <1>17 DEF ForkLink, BeginOrphan, SetNext
<1>18. ASSUME NEW c \in Callers, OrphMain(c)
      PROVE  ConfirmedCanBeUndone'
  BY <1>18 DEF OrphMain, FlagBlock, SetMain
<1>19. ASSUME NEW c \in Callers, OrphScan(c)
      PROVE  ConfirmedCanBeUndone'
  BY <1>19 DEF OrphScan, ScanTxs
<1>20. ASSUME NEW c \in Callers, OrphTxs(c)
      PROVE  ConfirmedCanBeUndone'
  BY <1>20 DEF OrphTxs, WriteTxs, WriteConfirmations, TypeInv, ScanFound
<1>21. ASSUME NEW c \in Callers, OrphNext(c)
      PROVE  ConfirmedCanBeUndone'
  BY <1>21 DEF OrphNext, BeginOrphan
<1>22. ASSUME NEW c \in Callers, DbError(c)
      PROVE  ConfirmedCanBeUndone'
  BY <1>22 DEF DbError
<1>23. ASSUME NEW c \in Callers, DbErrorIgnored(c)
      PROVE  ConfirmedCanBeUndone'
  BY <1>23 DEF DbErrorIgnored, BeginConnect, NewPrev
<1>24. ASSUME NEW c \in Callers, NEW t \in Txs, StoreTx(c, t)
      PROVE  ConfirmedCanBeUndone'
  BY <1>24 DEF StoreTx, SetConfirmation
<1>25. ASSUME NEW c \in Callers, NEW t \in Txs, MissTx(c, t)
      PROVE  ConfirmedCanBeUndone'
  BY <1>25 DEF MissTx
<1>26. ASSUME NEW c \in Callers, NEW t \in Txs, FailTx(c, t)
      PROVE  ConfirmedCanBeUndone'
  BY <1>26 DEF FailTx
<1>27. ASSUME NEW t \in Txs, NEW b \in Blocks, StrayTx(t, b)
      PROVE  ConfirmedCanBeUndone'
  BY <1>27 DEF StrayTx, SetConfirmation
<1>28. ASSUME Crash
      PROVE  ConfirmedCanBeUndone'
  BY <1>28 DEF Crash, Restart, Halt
<1>29. CASE UNCHANGED vars
  BY <1>29 DEF vars
<1> QED
  BY <1>1, <1>2, <1>3, <1>4, <1>5, <1>6, <1>7, <1>8, <1>9, <1>10, <1>11,
     <1>12, <1>13, <1>14, <1>15, <1>16, <1>17, <1>18, <1>19, <1>20, <1>21,
     <1>22, <1>23, <1>24, <1>25, <1>26, <1>27, <1>28, <1>29
     DEF Next, Progress, Fail, Store, Reorg

(* ConfirmedCanBeUndone for every tree and number of callers.              *)
THEOREM ConfirmationsCanBeUndone == Spec => []ConfirmedCanBeUndone
<1>1. Spec => [](TypeInv /\ ConfirmedCanBeUndone)
  BY InitTypeInv, NextTypeInv, InitUndo, NextUndo, PTL DEF Spec
<1> QED
  BY <1>1, PTL

-----------------------------------------------------------------------------
(* Next pointers                                                           *)

PrevIsParent ==
  \A h \in Hashes : prev[h] # Null => h \in Blocks /\ prev[h] = Parent[h]

NextIsBlock ==
  \A k \in Hashes \ {Null} : next[k] # Null => next[k] \in Blocks /\ Parent[next[k]] = k

(* setBranchConnectedBackwards keeps lastHash one block above hashInterator*)
(* from the moment it steps down.                                          *)
WalkAdjacent ==
  \A c \in Callers : pc[c] \in {"connIsMain", "forkNext", "forkLink"} /\ it[c] # Null
                    => last[c] \in Blocks /\ Parent[last[c]] = it[c]

LinkInv == PrevIsParent /\ NextIsBlock /\ WalkAdjacent

LEMMA InitLinkInv == Init => LinkInv
BY DEF Init, BlockDbInit, LinkInv, PrevIsParent, NextIsBlock, WalkAdjacent, Hashes

LEMMA NextLinkInv == TypeInv /\ LinkInv /\ [Next]_vars => LinkInv'
<1> SUFFICES ASSUME TypeInv, LinkInv, [Next]_vars PROVE LinkInv'
  OBVIOUS
<1> USE BlocksAssumption, TreeAssumption
    DEF TypeInv, TypeOK, BlockDbTypeOK, LinkInv, PrevIsParent, NextIsBlock, WalkAdjacent,
        Hashes, Ops, StoreOps, ReorgOps, LinkOps,
        Goto, Return, SameDb, SameBackground,
        blockVars, txVars, callVars, argVars, tipVars, walkVars
<1>1. ASSUME NEW c \in Callers, NEW b \in Blocks, NEW allow \in AllowModes,
              Call(c, b, allow)
      PROVE  LinkInv'
  BY <1>1 DEF Call
<1>2. ASSUME NEW c \in Callers, HasBlock(c)
      PROVE  LinkInv'
  BY <1>2 DEF HasBlock, BeginTxs
<1>3. ASSUME NEW c \in Callers, HasPrev(c)
      PROVE  LinkInv'
  BY <1>3 DEF HasPrev, BeginTxs, PrevMissing
<1>4. ASSUME NEW c \in Callers, TxsStored(c)
      PROVE  LinkInv'
  BY <1>4 DEF TxsStored
<1>5. ASSUME NEW c \in Callers, GetTip(c)
      PROVE  LinkInv'
  BY <1>5 DEF GetTip, NewPrev
<1>6. ASSUME NEW c \in Callers, GetNext(c)
      PROVE  LinkInv'
  BY <1>6 DEF GetNext, NewPrev
<1>7. ASSUME NEW c \in Callers, Add(c)
      PROVE  LinkInv'
  BY <1>7 DEF Add, AddBlock
<1>8. ASSUME NEW c \in Callers, SetTipStep(c)
      PROVE  LinkInv'
  BY <1>8 DEF SetTipStep, SetTip
<1>9. ASSUME NEW c \in Callers, SetNextStep(c)
      PROVE  LinkInv'
  BY <1>9 DEF SetNextStep, SetNext, NewPrev
<1>10. ASSUME NEW c \in Callers, ReorgIsMain(c)
      PROVE  LinkInv'
  BY <1>10 DEF ReorgIsMain, BeginOrphan, BeginConnect, NewPrev
<1>11. ASSUME NEW c \in Callers, ConnMain(c)
      PROVE  LinkInv'
  BY <1>11 DEF ConnMain, FlagBlock, SetMain
<1>12. ASSUME NEW c \in Callers, ConnScan(c)
      PROVE  LinkInv'
  BY <1>12 DEF ConnScan, ScanTxs
<1>13. ASSUME NEW c \in Callers, ConnTxs(c)
      PROVE  LinkInv'
  BY <1>13 DEF ConnTxs, WriteTxs, WriteConfirmations
<1>14. ASSUME NEW c \in Callers, ConnPrev(c)
      PROVE  LinkInv'
  BY <1>14 DEF ConnPrev
<1>15. ASSUME NEW c \in Callers, ConnIsMain(c)
      PROVE  LinkInv'
  BY <1>15 DEF ConnIsMain
<1>16. ASSUME NEW c \in Callers, ForkNext(c)
      PROVE  LinkInv'
  BY <1>16 DEF ForkNext
<1>17. ASSUME NEW c \in Callers, ForkLink(c)
      PROVE  LinkInv'
  BY <1>17 DEF ForkLink, BeginOrphan, SetNext
<1>18. ASSUME NEW c \in Callers, OrphMain(c)
      PROVE  LinkInv'
  BY <1>18 DEF OrphMain, FlagBlock, SetMain
<1>19. ASSUME NEW c \in Callers, OrphScan(c)
      PROVE  LinkInv'
  BY <1>19 DEF OrphScan, ScanTxs
<1>20. ASSUME NEW c \in Callers, OrphTxs(c)
      PROVE  LinkInv'
  BY <1>20 DEF OrphTxs, WriteTxs, WriteConfirmations
<1>21. ASSUME NEW c \in Callers, OrphNext(c)
      PROVE  LinkInv'
  BY <1>21 DEF OrphNext, BeginOrphan
<1>22. ASSUME NEW c \in Callers, DbError(c)
      PROVE  LinkInv'
  BY <1>22 DEF DbError
<1>23. ASSUME NEW c \in Callers, DbErrorIgnored(c)
      PROVE  LinkInv'
  BY <1>23 DEF DbErrorIgnored, BeginConnect, NewPrev
<1>24. ASSUME NEW c \in Callers, NEW t \in Txs, StoreTx(c, t)
      PROVE  LinkInv'
  BY <1>24 DEF StoreTx, SetConfirmation
<1>25. ASSUME NEW c \in Callers, NEW t \in Txs, MissTx(c, t)
      PROVE  LinkInv'
  BY <1>25 DEF MissTx
<1>26. ASSUME NEW c \in Callers, NEW t \in Txs, FailTx(c, t)
      PROVE  LinkInv'
  BY <1>26 DEF FailTx
<1>27. ASSUME NEW t \in Txs, NEW b \in Blocks, StrayTx(t, b)
      PROVE  LinkInv'
  BY <1>27 DEF StrayTx, SetConfirmation
<1>28. ASSUME Crash
      PROVE  LinkInv'
  BY <1>28 DEF Crash, Restart, Halt
<1>29. CASE UNCHANGED vars
  BY <1>29 DEF vars
<1> QED
  BY <1>1, <1>2, <1>3, <1>4, <1>5, <1>6, <1>7, <1>8, <1>9, <1>10, <1>11,
     <1>12, <1>13, <1>14, <1>15, <1>16, <1>17, <1>18, <1>19, <1>20, <1>21,
     <1>22, <1>23, <1>24, <1>25, <1>26, <1>27, <1>28, <1>29
     DEF Next, Progress, Fail, Store, Reorg

(* NextIsChild for every tree and number of callers: no interleaving of    *)
(* calls, faults and crashes makes a next pointer lead anywhere but to a   *)
(* child, so that no walk over next pointers can be caught in a circle.    *)
THEOREM NextPointersLeadToChildren == Spec => []NextIsChild
<1>1. Spec => [](TypeInv /\ LinkInv)
  BY InitTypeInv, NextTypeInv, InitLinkInv, NextLinkInv, PTL DEF Spec
<1>2. LinkInv => NextIsChild
  BY DEF LinkInv, NextIsBlock, NextIsChild
<1> QED
  BY <1>1, <1>2, PTL

-----------------------------------------------------------------------------
(* Main blocks are stored, where every caller passes allowReorgs           *)

NoGap == \A b \in Blocks : Has(b) => Has(Parent[b]) \/ Parent[b] = Zero

(* A call that is past its prechecks builds on a stored block, and its walk*)
(* down the new branch stays on stored blocks until it leaves the tree.    *)
WalkStored ==
  \A c \in Callers :
    /\ pc[c] # "idle" => allowReorgs[c]
    /\ pc[c] \in Ops \ {"hasBlock", "hasPrev"} => Has(NewPrev(c)) \/ NewPrev(c) = Zero
    /\ pc[c] \in {"connMain", "connScan", "connTxs", "connPrev", "connIsMain"}
         /\ it[c] \in Blocks => Has(it[c])

StoredInv == NoPhantomMain /\ NoGap /\ WalkStored

LEMMA InitStoredInv == Init => StoredInv
BY DEF Init, BlockDbInit, StoredInv, NoPhantomMain, NoGap, WalkStored, Has, IsMain, Hashes,
       Ops, StoreOps, ReorgOps, LinkOps

LEMMA NextStoredInv ==
  ASSUME FALSE \notin AllowModes
  PROVE  TypeInv /\ LinkInv /\ StoredInv /\ [Next]_vars => StoredInv'
<1> SUFFICES ASSUME TypeInv, LinkInv, StoredInv, [Next]_vars PROVE StoredInv'
  OBVIOUS
<1> USE BlocksAssumption, TreeAssumption
    DEF TypeInv, TypeOK, BlockDbTypeOK, LinkInv, PrevIsParent,
        StoredInv, NoPhantomMain, NoGap, WalkStored, Has, IsMain, NewPrev,
        Hashes, MainFlags, Ops, StoreOps, ReorgOps, LinkOps,
        Goto, Return, SameDb, SameBackground,
        blockVars, txVars, callVars, argVars, tipVars, walkVars
<1>1. ASSUME NEW c \in Callers, NEW b \in Blocks, NEW allow \in AllowModes,
              Call(c, b, allow)
      PROVE  StoredInv'
  <2>1. allow = TRUE
    BY SyncAssumption, FALSE \notin AllowModes
  <2> QED
    BY <1>1, <2>1 DEF Call
<1>2. ASSUME NEW c \in Callers, HasBlock(c)
      PROVE  StoredInv'
  BY <1>2 DEF HasBlock, BeginTxs
<1>3. ASSUME NEW c \in Callers, HasPrev(c)
      PROVE  StoredInv'
  BY <1>3 DEF HasPrev, BeginTxs, PrevMissing
<1>4. ASSUME NEW c \in Callers, TxsStored(c)
      PROVE  StoredInv'
  BY <1>4 DEF TxsStored
<1>5. ASSUME NEW c \in Callers, GetTip(c)
      PROVE  StoredInv'
  BY <1>5 DEF GetTip, NewPrev
<1>6. ASSUME NEW c \in Callers, GetNext(c)
      PROVE  StoredInv'
  BY <1>6 DEF GetNext, NewPrev
<1>7. ASSUME NEW c \in Callers, Add(c)
      PROVE  StoredInv'
  BY <1>7 DEF Add, AddBlock
<1>8. ASSUME NEW c \in Callers, SetTipStep(c)
      PROVE  StoredInv'
  BY <1>8 DEF SetTipStep, SetTip
<1>9. ASSUME NEW c \in Callers, SetNextStep(c)
      PROVE  StoredInv'
  BY <1>9 DEF SetNextStep, SetNext, NewPrev
<1>10. ASSUME NEW c \in Callers, ReorgIsMain(c)
      PROVE  StoredInv'
  BY <1>10 DEF ReorgIsMain, BeginOrphan, BeginConnect, NewPrev
<1>11. ASSUME NEW c \in Callers, ConnMain(c)
      PROVE  StoredInv'
  BY <1>11 DEF ConnMain, FlagBlock, SetMain
<1>12. ASSUME NEW c \in Callers, ConnScan(c)
      PROVE  StoredInv'
  BY <1>12 DEF ConnScan, ScanTxs
<1>13. ASSUME NEW c \in Callers, ConnTxs(c)
      PROVE  StoredInv'
  BY <1>13 DEF ConnTxs, WriteTxs, WriteConfirmations
<1>14. ASSUME NEW c \in Callers, ConnPrev(c)
      PROVE  StoredInv'
  BY <1>14 DEF ConnPrev
<1>15. ASSUME NEW c \in Callers, ConnIsMain(c)
      PROVE  StoredInv'
  BY <1>15 DEF ConnIsMain
<1>16. ASSUME NEW c \in Callers, ForkNext(c)
      PROVE  StoredInv'
  BY <1>16 DEF ForkNext
<1>17. ASSUME NEW c \in Callers, ForkLink(c)
      PROVE  StoredInv'
  BY <1>17 DEF ForkLink, BeginOrphan, SetNext
<1>18. ASSUME NEW c \in Callers, OrphMain(c)
      PROVE  StoredInv'
  BY <1>18 DEF OrphMain, FlagBlock, SetMain
<1>19. ASSUME NEW c \in Callers, OrphScan(c)
      PROVE  StoredInv'
  BY <1>19 DEF OrphScan, ScanTxs
<1>20. ASSUME NEW c \in Callers, OrphTxs(c)
      PROVE  StoredInv'
  BY <1>20 DEF OrphTxs, WriteTxs, WriteConfirmations
<1>21. ASSUME NEW c \in Callers, OrphNext(c)
      PROVE  StoredInv'
  BY <1>21 DEF OrphNext, BeginOrphan
<1>22. ASSUME NEW c \in Callers, DbError(c)
      PROVE  StoredInv'
  BY <1>22 DEF DbError
<1>23. ASSUME NEW c \in Callers, DbErrorIgnored(c)
      PROVE  StoredInv'
  BY <1>23 DEF DbErrorIgnored, BeginConnect, NewPrev
<1>24. ASSUME NEW c \in Callers, NEW t \in Txs, StoreTx(c, t)
      PROVE  StoredInv'
  BY <1>24 DEF StoreTx, SetConfirmation
<1>25. ASSUME NEW c \in Callers, NEW t \in Txs, MissTx(c, t)
      PROVE  StoredInv'
  BY <1>25 DEF MissTx
<1>26. ASSUME NEW c \in Callers, NEW t \in Txs, FailTx(c, t)
      PROVE  StoredInv'
  BY <1>26 DEF FailTx
<1>27. ASSUME NEW t \in Txs, NEW b \in Blocks, StrayTx(t, b)
      PROVE  StoredInv'
  BY <1>27 DEF StrayTx, SetConfirmation
<1>28. ASSUME Crash
      PROVE  StoredInv'
  BY <1>28 DEF Crash, Restart, Halt
<1>29. CASE UNCHANGED vars
  BY <1>29 DEF vars
<1> QED
  BY <1>1, <1>2, <1>3, <1>4, <1>5, <1>6, <1>7, <1>8, <1>9, <1>10, <1>11,
     <1>12, <1>13, <1>14, <1>15, <1>16, <1>17, <1>18, <1>19, <1>20, <1>21,
     <1>22, <1>23, <1>24, <1>25, <1>26, <1>27, <1>28, <1>29
     DEF Next, Progress, Fail, Store, Reorg

(* NoPhantomMain for every tree and number of callers: where no caller     *)
(* passes allowReorgs = false, only stored blocks are ever flagged main.   *)
THEOREM MainBlocksAreStored ==
  ASSUME FALSE \notin AllowModes
  PROVE  Spec => []NoPhantomMain
<1>1. Init => TypeInv /\ LinkInv /\ StoredInv
  BY InitTypeInv, InitLinkInv, InitStoredInv
<1>2. TypeInv /\ LinkInv /\ StoredInv /\ [Next]_vars => (TypeInv /\ LinkInv /\ StoredInv)'
  BY NextTypeInv, NextLinkInv, NextStoredInv
<1>3. StoredInv => NoPhantomMain
  BY DEF StoredInv
<1> QED
  BY <1>1, <1>2, <1>3, PTL DEF Spec
=============================================================================
