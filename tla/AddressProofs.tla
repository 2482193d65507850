---------------------------- MODULE AddressProofs ----------------------------
(***************************************************************************)
(* Theorems about AddressDb, for every set of transactions and outputs, any*)
(* number of calls of add, updateAddress and handleBlockChange, and every  *)
(* set of faults.                                                          *)
(***************************************************************************)
EXTENDS AddressProps, TreeProofs, FiniteSetTheorems

-----------------------------------------------------------------------------
(* Flags and ranking                                                       *)

(* All that matters of balance is that it is a function: another address's *)
(* entry is then what it was.                                              *)
RankInv == balance = [a \in Addrs |-> balance[a]] /\ RankHasBalance

LEMMA InitRankInv == AddressInit => RankInv
BY DEF AddressInit, RankInv, RankHasBalance

LEMMA NextRankInv == RankInv /\ [AddressNext]_addressVars => RankInv'
<1> SUFFICES ASSUME RankInv, [AddressNext]_addressVars PROVE RankInv'
  OBVIOUS
<1> USE DEF addrDbVars
<1>1. ASSUME UNCHANGED <<balance, ranking>> PROVE RankInv'
  BY <1>1 DEF RankInv, RankHasBalance
<1>2. ASSUME NEW u \in Updaters, WriteBalance(u) PROVE RankInv'
  <2> DEFINE sat == BalanceSat(u)
  <2>1. /\ balance' = [balance EXCEPT ![addr[u]] = sat]
        /\ ranking' = (ranking \ {<<oldValue[u], addr[u]>>}) \cup {<<sat, addr[u]>>}
    BY <1>2 DEF WriteBalance, RankAfter
  <2> HIDE DEF sat
  <2>2. balance' = [a \in Addrs |-> balance'[a]]
    BY <2>1 DEF RankInv
  <2>3. ASSUME NEW a \in Addrs, balance'[a] # Null PROVE <<balance'[a], a>> \in ranking'
    <3>1. CASE a = addr[u]
      BY <2>1, <3>1 DEF RankInv
    <3>2. CASE a # addr[u]
      BY <2>1, <2>3, <3>2 DEF RankInv, RankHasBalance
    <3> QED
      BY <3>1, <3>2
  <2> QED
    BY <2>2, <2>3 DEF RankInv, RankHasBalance
<1>3. CASE UNCHANGED addressVars
  BY <1>1, <1>3 DEF addressVars
<1>4. CASE AddressNext
  <2>1. ASSUME NEW d \in Adders, NEW t \in Txs, NEW b \in Blocks \cup {Null}, AddTx(d, t, b)
        PROVE  RankInv'
    BY <1>1, <2>1 DEF AddTx
  <2>2. ASSUME NEW d \in Adders, AddStep(d) PROVE RankInv'
    BY <1>1, <2>2 DEF AddStep, WriteSpent, PutSpent, VinDone, GetOutput, WriteOutput,
                      PutOutput, VoutDone, AfterVout, Confirm, AddFails
  <2>3. ASSUME NEW t, NEW o, FlagSpender(t, o) \/ StrayItem(t, o) PROVE RankInv'
    BY <1>1, <2>3 DEF FlagSpender, StrayItem, PutSpent, PutOutput
  <2>4. ASSUME NEW b \in Blocks, NEW isMain \in BOOLEAN, HandleBlockChange(b, isMain)
        PROVE  RankInv'
    BY <1>1, <2>4 DEF HandleBlockChange
  <2>5. ASSUME NEW ch \in changes, WriteBlockChange(ch) \/ LoseBlockChange(ch)
        PROVE  RankInv'
    BY <1>1, <2>5 DEF WriteBlockChange, LoseBlockChange
  <2>6. ASSUME NEW u \in Updaters, NEW a \in Addrs, UpdateAddress(u, a) PROVE RankInv'
    BY <1>1, <2>6 DEF UpdateAddress
  <2>7. ASSUME NEW u \in Updaters, UpdateStep(u) PROVE RankInv'
    BY <1>1, <1>2, <2>7 DEF UpdateStep, ScanSpent, MissSpent, AskConfirmed, MissAnswer,
                      GetOldBalance, WriteFails
  <2>8. ASSUME NEW a \in Addrs, RefreshAddress(a) PROVE RankInv'
    BY <1>1, <2>8 DEF RefreshAddress
  <2>9. ASSUME AddressCrash PROVE RankInv'
    BY <1>1, <2>9 DEF AddressCrash
  <2> QED
    BY <1>4, <2>1, <2>2, <2>3, <2>4, <2>5, <2>6, <2>7, <2>8, <2>9 DEF AddressNext
<1> QED
  BY <1>3, <1>4

(* However many updates of an address overlap, the ranking has an entry    *)
(* with the balance that is stored (updateAddress, one batch).             *)
THEOREM BalancesAreRanked == AddressSpec => []RankHasBalance
<1>1. RankInv => RankHasBalance
  BY DEF RankInv
<1> QED
  BY InitRankInv, NextRankInv, <1>1, PTL DEF AddressSpec

LEMMA NextFlagged == AddressIsFlagged /\ [AddressNext]_addressVars => AddressIsFlagged'
<1> SUFFICES ASSUME AddressIsFlagged, [AddressNext]_addressVars PROVE AddressIsFlagged'
  OBVIOUS
<1> USE DEF addrDbVars
<1>1. ASSUME outs' = outs, toUpdate \cup updated \subseteq toUpdate' \cup updated'
      PROVE  AddressIsFlagged'
  BY <1>1 DEF AddressIsFlagged
<1>2. ASSUME NEW o, PutOutput(o) PROVE AddressIsFlagged'
  BY <1>2 DEF AddressIsFlagged, PutOutput
<1>3. CASE UNCHANGED addressVars
  BY <1>1, <1>3 DEF addressVars
<1>4. CASE AddressNext
  <2>1. ASSUME NEW d \in Adders, NEW t \in Txs, NEW b \in Blocks \cup {Null}, AddTx(d, t, b)
        PROVE  AddressIsFlagged'
    BY <1>1, <2>1 DEF AddTx
  <2>2. ASSUME NEW d \in Adders, AddStep(d) PROVE AddressIsFlagged'
    <3>1. ASSUME NEW o \in Outputs, WriteOutput(d, o) PROVE AddressIsFlagged'
      BY <1>2, <3>1 DEF WriteOutput
    <3>2. ASSUME NEW o \in Outputs, WriteSpent(d, o) \/ GetOutput(d, o)
          PROVE  AddressIsFlagged'
      BY <1>1, <3>2 DEF WriteSpent, PutSpent, GetOutput
    <3> QED
      BY <1>1, <2>2, <3>1, <3>2 DEF AddStep, VinDone, VoutDone, AfterVout, Confirm, AddFails
  <2>3. ASSUME NEW t, NEW o, FlagSpender(t, o) \/ StrayItem(t, o)
        PROVE  AddressIsFlagged'
    BY <1>1, <1>2, <2>3 DEF FlagSpender, StrayItem, PutSpent
  <2>4. ASSUME NEW b \in Blocks, NEW isMain \in BOOLEAN, HandleBlockChange(b, isMain)
        PROVE  AddressIsFlagged'
    BY <1>1, <2>4 DEF HandleBlockChange
  <2>5. ASSUME NEW ch \in changes, WriteBlockChange(ch) \/ LoseBlockChange(ch)
        PROVE  AddressIsFlagged'
    BY <1>1, <2>5 DEF WriteBlockChange, LoseBlockChange
  <2>6. ASSUME NEW u \in Updaters, NEW a \in Addrs, UpdateAddress(u, a)
        PROVE  AddressIsFlagged'
    BY <1>1, <2>6 DEF UpdateAddress
  <2>7. ASSUME NEW u \in Updaters, UpdateStep(u) PROVE AddressIsFlagged'
    BY <1>1, <2>7 DEF UpdateStep, ScanSpent, MissSpent, AskConfirmed, MissAnswer,
                      GetOldBalance, WriteFails, WriteBalance
  <2>8. ASSUME NEW a \in Addrs, RefreshAddress(a) PROVE AddressIsFlagged'
    BY <1>1, <2>8 DEF RefreshAddress
  <2>9. ASSUME AddressCrash PROVE AddressIsFlagged'
    BY <1>1, <2>9 DEF AddressCrash
  <2> QED
    BY <1>4, <2>1, <2>2, <2>3, <2>4, <2>5, <2>6, <2>7, <2>8, <2>9 DEF AddressNext
<1> QED
  BY <1>3, <1>4

(* An address with outputs is always found by updateAllAddresses or        *)
(* refreshAllAddresses (their txua- scans).                                *)
THEOREM AddressesAreFlagged == AddressSpec => []AddressIsFlagged
<1>1. AddressInit => AddressIsFlagged
  BY DEF AddressInit, AddressIsFlagged
<1> QED
  BY <1>1, NextFlagged, PTL DEF AddressSpec

-----------------------------------------------------------------------------
(* The order of the stages of add                                          *)

SpendsDone(t) == \A o \in Spends[t] : <<o, t>> \in spent

OutputDone(t, o) == o \in outs \/ <<t, o>> \in skipped

TxComplete(t) ==
  SpendsDone(t) /\ \A o \in OutputsOf(t) : OutputDone(t, o)

(* What is written by the time a call of add has reached its stage.        *)
CallProgress(d) ==
  /\ addPc[d] = "vin" => \A o \in Spends[tx[d]] : <<o, tx[d]>> \in spent \/ o \in items[d]
  /\ addPc[d] \in {"vout", "confirm"} => SpendsDone(tx[d])
  /\ addPc[d] = "vout" => \A o \in OutputsOf(tx[d]) : OutputDone(tx[d], o) \/ o \in items[d]
  /\ addPc[d] = "confirm" => TxComplete(tx[d])

AddProgress == \A d \in Adders : CallProgress(d)

(* Both keys of a confirmation, and what handleBlockChange found, are of   *)
(* complete transactions.                                                  *)
RecordsComplete ==
  /\ \A t \in Txs, b \in Blocks :
       <<t, b>> \in inBlk \/ <<b, t>> \in fromBlk => TxComplete(t)
  /\ \A ch \in changes : \A t \in ch[3] : TxComplete(t)

AddTypes ==
  /\ addPc \in [Adders -> {"idle", "vin", "vout", "confirm"}]
  /\ tx \in [Adders -> Txs \cup {Null}]
  /\ blockhash \in [Adders -> Blocks \cup {Null}]
  /\ items \in [Adders -> SUBSET Outputs]
  /\ changes \subseteq Blocks \X BOOLEAN \X SUBSET Txs

CompleteInv == AddTypes /\ AddProgress /\ RecordsComplete

LEMMA InitCompleteInv == AddressInit => CompleteInv
BY DEF AddressInit, ConfirmDbInit, CompleteInv, AddTypes, AddProgress, CallProgress,
       RecordsComplete

(* Outputs and spends are never taken back.                                *)
Grows == outs \subseteq outs' /\ spent \subseteq spent' /\ skipped \subseteq skipped'

LEMMA DoneStays ==
  ASSUME Grows, NEW t
  PROVE  /\ SpendsDone(t) => SpendsDone(t)'
         /\ \A o : OutputDone(t, o) => OutputDone(t, o)'
         /\ TxComplete(t) => TxComplete(t)'
BY DEF Grows, SpendsDone, OutputDone, TxComplete, OutputsOf

(* A step that moves no call of add and records no confirmation.           *)
LEMMA OtherStepKeeps ==
  ASSUME CompleteInv, Grows, UNCHANGED <<txVars, addVars>>,
         AddTypes', \A ch \in changes' \ changes : \A t \in ch[3] : TxComplete(t)'
  PROVE  CompleteInv'
<1>1. AddProgress'
  BY DoneStays DEF CompleteInv, AddProgress, CallProgress, addVars, Grows, OutputsOf
<1>2. RecordsComplete'
  BY DoneStays DEF CompleteInv, RecordsComplete, txVars
<1> QED
  BY <1>1, <1>2 DEF CompleteInv

(* A step of one call of add: the other calls stand still.                 *)
LEMMA AddStepTypes ==
  ASSUME AddTypes, NEW d \in Adders, AddStep(d)
  PROVE  AddTypes'
<1> USE DEF AddTypes, AddReturn
<1>1. ASSUME NEW o \in Outputs, WriteSpent(d, o) \/ GetOutput(d, o) \/ WriteOutput(d, o)
      PROVE  AddTypes'
  BY <1>1 DEF WriteSpent, GetOutput, WriteOutput
<1>2. ASSUME VinDone(d) PROVE AddTypes'
  BY <1>2 DEF VinDone, OutputsOf
<1>3. ASSUME VoutDone(d) PROVE AddTypes'
  BY <1>3 DEF VoutDone, AfterVout
<1>4. ASSUME Confirm(d) \/ AddFails(d) PROVE AddTypes'
  BY <1>4 DEF Confirm, AddFails
<1> QED
  BY <1>1, <1>2, <1>3, <1>4 DEF AddStep

LEMMA AddStepProgress ==
  ASSUME AddTypes, AddProgress, NEW d \in Adders, AddStep(d), Grows
  PROVE  AddProgress'
<1>1. ASSUME NEW e \in Adders, addPc'[e] = addPc[e], tx'[e] = tx[e], items'[e] = items[e]
      PROVE  CallProgress(e)'
  BY <1>1, DoneStays DEF AddProgress, CallProgress, Grows, OutputsOf
<1>2. ASSUME NEW e \in Adders, addPc'[e] = "idle" PROVE CallProgress(e)'
  BY <1>2 DEF CallProgress
<1>3. ASSUME NEW o \in Outputs, WriteSpent(d, o) PROVE AddProgress'
  <2>1. CallProgress(d)'
    BY <1>3 DEF WriteSpent, PutSpent, AddTypes, AddProgress, CallProgress
  <2> QED
    BY <1>1, <1>3, <2>1 DEF WriteSpent, AddTypes, AddProgress
<1>4. ASSUME VinDone(d) PROVE AddProgress'
  <2>1. CallProgress(d)'
    BY <1>4, DoneStays DEF VinDone, AddTypes, AddProgress, CallProgress, SpendsDone,
                           OutputsOf, addrDbVars
  <2> QED
    BY <1>1, <1>4, <2>1 DEF VinDone, AddTypes, AddProgress
<1>5. ASSUME NEW o \in Outputs, GetOutput(d, o) \/ WriteOutput(d, o) PROVE AddProgress'
  <2>1. CallProgress(d)'
    BY <1>5, DoneStays DEF GetOutput, WriteOutput, PutOutput, AddTypes, AddProgress, Grows,
                           CallProgress, OutputDone, OutputsOf
  <2> QED
    BY <1>1, <1>5, <2>1 DEF GetOutput, WriteOutput, AddTypes, AddProgress
<1>6. ASSUME VoutDone(d) PROVE AddProgress'
  <2>1. CallProgress(d)'
    BY <1>2, <1>6, DoneStays DEF VoutDone, AfterVout, AddReturn, AddTypes, AddProgress,
                                 CallProgress, TxComplete, OutputsOf
  <2> QED
    BY <1>1, <1>6, <2>1 DEF VoutDone, AfterVout, AddReturn, AddTypes, AddProgress
<1>7. ASSUME Confirm(d) \/ AddFails(d) PROVE AddProgress'
  BY <1>1, <1>2, <1>7 DEF Confirm, AddFails, AddReturn, AddTypes, AddProgress
<1> QED
  BY <1>3, <1>4, <1>5, <1>6, <1>7 DEF AddStep

LEMMA AddStepRecords ==
  ASSUME CompleteInv, NEW d \in Adders, AddStep(d), Grows
  PROVE  RecordsComplete'
<1>1. changes' = changes
  BY DEF AddStep, WriteSpent, VinDone, GetOutput, WriteOutput, VoutDone, AfterVout, Confirm,
         AddFails
<1>2. CASE UNCHANGED txVars
  BY <1>1, <1>2, DoneStays DEF CompleteInv, RecordsComplete, txVars
<1>3. CASE Confirm(d)
  <2>1. TxComplete(tx[d])
    BY <1>3 DEF Confirm, CompleteInv, AddProgress, CallProgress
  <2> QED
    BY <1>1, <1>3, <2>1, DoneStays DEF Confirm, SetConfirmation, CompleteInv, RecordsComplete
<1> QED
  BY <1>2, <1>3 DEF AddStep, WriteSpent, VinDone, GetOutput, WriteOutput, VoutDone, AfterVout,
                    AddFails

LEMMA NextCompleteInv == CompleteInv /\ [AddressNext]_addressVars => CompleteInv'
<1> SUFFICES ASSUME CompleteInv, [AddressNext]_addressVars PROVE CompleteInv'
  OBVIOUS
<1>1. CASE UNCHANGED addressVars
  <2>1. Grows /\ AddTypes'
    BY <1>1 DEF addressVars, addrDbVars, addVars, backVars, Grows, CompleteInv, AddTypes
  <2> QED
    BY <1>1, <2>1, OtherStepKeeps DEF addressVars
<1>2. CASE AddressNext
  <2>1. ASSUME NEW d \in Adders, NEW t \in Txs, NEW b \in Blocks \cup {Null}, AddTx(d, t, b)
        PROVE  CompleteInv'
    <3>1. Grows
      BY <2>1 DEF AddTx, Grows, addrDbVars
    <3>2. AddTypes'
      BY <2>1, OutputsAssumption DEF AddTx, CompleteInv, AddTypes
    <3>3. RecordsComplete'
      BY <2>1, <3>1, DoneStays DEF AddTx, CompleteInv, RecordsComplete, txVars
    <3>4. CallProgress(d)'
      BY <2>1 DEF AddTx, CompleteInv, AddTypes, CallProgress
    <3>5. ASSUME NEW e \in Adders, e # d PROVE CallProgress(e)'
      BY <2>1, <3>1, <3>5, DoneStays DEF AddTx, CompleteInv, AddTypes, AddProgress,
                                       CallProgress, Grows, OutputsOf
    <3> QED
      BY <3>2, <3>3, <3>4, <3>5 DEF CompleteInv, AddProgress
  <2>2. ASSUME NEW d \in Adders, AddStep(d) PROVE CompleteInv'
    <3>1. Grows
      BY <2>2 DEF AddStep, Grows, WriteSpent, PutSpent, VinDone, GetOutput, WriteOutput,
                  PutOutput, VoutDone, AfterVout, Confirm, AddFails, addrDbVars, backVars
    <3> QED
      BY <2>2, <3>1, AddStepTypes, AddStepProgress, AddStepRecords DEF CompleteInv
  <2>3. ASSUME NEW t, NEW o, FlagSpender(t, o) \/ StrayItem(t, o) PROVE CompleteInv'
    <3>1. Grows /\ AddTypes' /\ UNCHANGED <<txVars, addVars, changes>>
      BY <2>3 DEF FlagSpender, StrayItem, PutSpent, PutOutput, addrDbVars, addVars, Grows,
                  CompleteInv, AddTypes
    <3> QED
      BY <3>1, OtherStepKeeps
  <2>4. ASSUME NEW b \in Blocks, NEW isMain \in BOOLEAN, HandleBlockChange(b, isMain)
        PROVE  CompleteInv'
    <3>1. Grows /\ UNCHANGED <<txVars, addVars>>
      BY <2>4 DEF HandleBlockChange, addrDbVars, backVars, Grows
    <3>2. AddTypes'
      <4>1. <<b, isMain, TxsFromBlock(b)>> \in Blocks \X BOOLEAN \X SUBSET Txs
        BY DEF TxsFromBlock
      <4> QED
        BY <2>4, <4>1 DEF HandleBlockChange, addVars, CompleteInv, AddTypes
    <3>3. \A t \in TxsFromBlock(b) : TxComplete(t)'
      BY <3>1, DoneStays DEF TxsFromBlock, CompleteInv, RecordsComplete
    <3> QED
      BY <2>4, <3>1, <3>2, <3>3, OtherStepKeeps DEF HandleBlockChange
  <2>5. ASSUME NEW ch \in changes, WriteBlockChange(ch) \/ LoseBlockChange(ch)
        PROVE  CompleteInv'
    <3>1. Grows /\ UNCHANGED <<addVars, fromBlk>> /\ changes' \subseteq changes
      BY <2>5 DEF WriteBlockChange, LoseBlockChange, WriteConfirmations, txVars,
                  addrDbVars, backVars, Grows
    <3>2. AddTypes'
      BY <3>1 DEF addVars, CompleteInv, AddTypes
    <3>3. AddProgress'
      BY <3>1, DoneStays DEF CompleteInv, AddProgress, CallProgress, addVars, Grows, OutputsOf
    <3>4. ASSUME NEW t \in Txs, NEW b \in Blocks, <<t, b>> \in inBlk'
          PROVE  <<t, b>> \in inBlk \/ t \in ch[3]
      BY <2>5, <3>4 DEF WriteBlockChange, LoseBlockChange, WriteConfirmations, txVars
    <3>5. RecordsComplete'
      BY <3>1, <3>4, DoneStays DEF CompleteInv, RecordsComplete
    <3> QED
      BY <3>2, <3>3, <3>5 DEF CompleteInv
  <2>6. ASSUME NEW u \in Updaters, NEW a \in Addrs, UpdateAddress(u, a) PROVE CompleteInv'
    <3>1. Grows /\ AddTypes' /\ UNCHANGED <<txVars, addVars, changes>>
      BY <2>6 DEF UpdateAddress, SameForUpdate, addrDbVars, addVars, backVars, Grows,
                  CompleteInv, AddTypes
    <3> QED
      BY <3>1, OtherStepKeeps
  <2>7. ASSUME NEW u \in Updaters, UpdateStep(u) PROVE CompleteInv'
    <3>1. Grows /\ AddTypes' /\ UNCHANGED <<txVars, addVars, changes>>
      BY <2>7 DEF UpdateStep, ScanSpent, MissSpent, AskConfirmed, MissAnswer,
                      GetOldBalance, WriteFails, WriteBalance,
                  SameForUpdate, addrDbVars, addVars, backVars, Grows, CompleteInv, AddTypes
    <3> QED
      BY <3>1, OtherStepKeeps
  <2>8. ASSUME NEW a \in Addrs, RefreshAddress(a) PROVE CompleteInv'
    <3>1. Grows /\ AddTypes' /\ UNCHANGED <<txVars, addVars, changes>>
      BY <2>8 DEF RefreshAddress, SameForUpdate, addVars, backVars, Grows, CompleteInv, AddTypes
    <3> QED
      BY <3>1, OtherStepKeeps
  <2>9. ASSUME AddressCrash PROVE CompleteInv'
    <3>1. Grows /\ AddTypes'
      BY <2>9 DEF AddressCrash, addrDbVars, Grows, CompleteInv, AddTypes
    <3>2. AddProgress'
      BY <2>9 DEF AddressCrash, AddProgress, CallProgress
    <3>3. RecordsComplete'
      BY <2>9, <3>1, DoneStays DEF AddressCrash, txVars, CompleteInv, RecordsComplete
    <3> QED
      BY <3>1, <3>2, <3>3 DEF CompleteInv
  <2> QED
    BY <1>2, <2>1, <2>2, <2>3, <2>4, <2>5, <2>6, <2>7, <2>8, <2>9 DEF AddressNext
<1> QED
  BY <1>1, <1>2

(* However calls of add for a block and for an announcement overlap, fail  *)
(* or are cut off, a transaction that counts as confirmed has all its      *)
(* outputs and spends (the series of stages of add).                       *)
THEOREM ConfirmedTxsAreComplete == AddressSpec => []ConfirmedTxComplete
<1>1. CompleteInv => ConfirmedTxComplete
  BY DEF CompleteInv, RecordsComplete, TxComplete, SpendsDone, OutputDone, ConfirmedTxComplete
<1> QED
  BY InitCompleteInv, NextCompleteInv, <1>1, PTL DEF AddressSpec
-----------------------------------------------------------------------------
(* The balance that an update stores                                       *)

SpendItem(t, o) == t \in Txs /\ o \in Spends[t]

OutputItem(t, o) == t \in Txs /\ o \in OutputsOf(t)

(* A spend is recorded only for an input of the transaction: also when it  *)
(* is written by an item of a stage that failed before.                    *)
SpendsInv ==
  /\ outs \subseteq Outputs
  /\ spent \subseteq {p \in Uses : SpendItem(p[2], p[1])}
  /\ addPc \in [Adders -> {"idle", "vin", "vout", "confirm"}]
  /\ tx \in [Adders -> Txs \cup {Null}]
  /\ items \in [Adders -> SUBSET Outputs]
  /\ \A d \in Adders :
       /\ addPc[d] = "vin" => \A o \in items[d] : SpendItem(tx[d], o)
       /\ addPc[d] = "vout" => \A o \in items[d] : OutputItem(tx[d], o)
       /\ addPc[d] \in {"vin", "vout"} => tx[d] \in Txs
       /\ addPc[d] = "confirm" => items[d] = {}
  /\ \A p \in strays : SpendItem(p[1], p[2]) \/ OutputItem(p[1], p[2])

LEMMA InitSpendsInv == AddressInit => SpendsInv
BY DEF AddressInit, SpendsInv

LEMMA SameSpends ==
  ASSUME SpendsInv, UNCHANGED <<outs, spent, addPc, tx, items, strays>>
  PROVE  SpendsInv'
BY DEF SpendsInv, SpendItem, OutputItem, OutputsOf

LEMMA AddTxSpends ==
  ASSUME SpendsInv, NEW d \in Adders, NEW t \in Txs, NEW b, AddTx(d, t, b)
  PROVE  SpendsInv'
BY OutputsAssumption
   DEF AddTx, SpendsInv, SpendItem, OutputItem, OutputsOf, addrDbVars

LEMMA AddStepSpends ==
  ASSUME SpendsInv, NEW d \in Adders, AddStep(d)
  PROVE  SpendsInv'
<1> USE DEF addrDbVars, backVars
<1>1. ASSUME NEW o \in Outputs, WriteSpent(d, o) PROVE SpendsInv'
  <2>1. <<o, tx[d]>> \in {p \in Uses : SpendItem(p[2], p[1])}
    BY <1>1 DEF WriteSpent, SpendsInv, Uses, SpendItem
  <2> QED
    BY <1>1, <2>1 DEF WriteSpent, PutSpent, SpendsInv, SpendItem, OutputItem, OutputsOf
<1>2. ASSUME NEW o \in Outputs, GetOutput(d, o) \/ WriteOutput(d, o) PROVE SpendsInv'
  <2>1. /\ outs' \subseteq Outputs /\ UNCHANGED <<spent, addPc, tx, strays>>
        /\ items' = items \/ items' = [items EXCEPT ![d] = @ \ {o}]
    BY <1>2 DEF GetOutput, WriteOutput, PutOutput, SpendsInv
  <2> QED
    BY <2>1 DEF SpendsInv, SpendItem, OutputItem, OutputsOf
<1>3. ASSUME VinDone(d) PROVE SpendsInv'
  BY <1>3 DEF VinDone, SpendsInv, SpendItem, OutputItem, OutputsOf
<1>4. ASSUME VoutDone(d) PROVE SpendsInv'
  BY <1>4 DEF VoutDone, AfterVout, AddReturn, SpendsInv, SpendItem, OutputItem, OutputsOf
<1>5. ASSUME Confirm(d) PROVE SpendsInv'
  BY <1>5 DEF Confirm, AddReturn, SpendsInv, SpendItem, OutputItem, OutputsOf
<1>6. ASSUME AddFails(d) PROVE SpendsInv'
  <2>1. \A p \in strays' \ strays : SpendItem(p[1], p[2]) \/ OutputItem(p[1], p[2])
    BY <1>6 DEF AddFails, SpendsInv
  <2> QED
    BY <1>6, <2>1 DEF AddFails, AddReturn, SpendsInv, SpendItem, OutputItem, OutputsOf
<1> QED
  BY <1>1, <1>2, <1>3, <1>4, <1>5, <1>6 DEF AddStep

LEMMA NextSpendsInv == SpendsInv /\ [AddressNext]_addressVars => SpendsInv'
<1> SUFFICES ASSUME SpendsInv, [AddressNext]_addressVars PROVE SpendsInv'
  OBVIOUS
<1> USE DEF addrDbVars, addVars, backVars
<1>1. CASE UNCHANGED addressVars
  BY <1>1, SameSpends DEF addressVars
<1>2. CASE AddressNext
  <2>1. ASSUME NEW d \in Adders, NEW t \in Txs, NEW b \in Blocks \cup {Null}, AddTx(d, t, b)
        PROVE  SpendsInv'
    BY <2>1, AddTxSpends
  <2>2. ASSUME NEW d \in Adders, AddStep(d) PROVE SpendsInv'
    BY <2>2, AddStepSpends
  <2>3. ASSUME NEW t, NEW o, FlagSpender(t, o) PROVE SpendsInv'
    BY <2>3, SameSpends DEF FlagSpender
  <2>4. ASSUME NEW p \in strays, StrayItem(p[1], p[2]) PROVE SpendsInv'
    <3>1. UNCHANGED <<addPc, tx, items>> /\ strays' \subseteq strays
      BY <2>4 DEF StrayItem
    <3>2. spent' \subseteq {q \in Uses : SpendItem(q[2], q[1])}
      <4>1. CASE UNCHANGED spent
        BY <4>1 DEF SpendsInv
      <4>2. CASE TxOf[p[2]] # p[1] /\ PutSpent(p[1], p[2])
        <5>1. SpendItem(p[1], p[2])
          BY <4>2 DEF SpendsInv, OutputItem, OutputsOf
        <5>2. <<p[2], p[1]>> \in Uses
          BY <5>1, OutputsAssumption DEF SpendItem, Uses
        <5> QED
          BY <4>2, <5>1, <5>2 DEF PutSpent, SpendsInv
      <4> QED
        BY <2>4, <4>1, <4>2 DEF StrayItem, PutOutput
    <3>3. outs' \subseteq Outputs
      BY <2>4, OutputsAssumption
         DEF StrayItem, PutOutput, PutSpent, SpendsInv, SpendItem, OutputItem, OutputsOf
    <3> QED
      BY <3>1, <3>2, <3>3 DEF SpendsInv, SpendItem, OutputItem, OutputsOf
  <2>5. ASSUME NEW b \in Blocks, NEW isMain \in BOOLEAN, HandleBlockChange(b, isMain)
        PROVE  SpendsInv'
    BY <2>5, SameSpends DEF HandleBlockChange
  <2>6. ASSUME NEW ch \in changes, WriteBlockChange(ch) \/ LoseBlockChange(ch)
        PROVE  SpendsInv'
    BY <2>6, SameSpends DEF WriteBlockChange, LoseBlockChange
  <2>7. ASSUME NEW u \in Updaters, NEW a \in Addrs, UpdateAddress(u, a) PROVE SpendsInv'
    BY <2>7, SameSpends DEF UpdateAddress, SameForUpdate
  <2>8. ASSUME NEW u \in Updaters, UpdateStep(u) PROVE SpendsInv'
    BY <2>8, SameSpends DEF UpdateStep, ScanSpent, MissSpent, AskConfirmed, MissAnswer,
                            GetOldBalance, WriteFails, WriteBalance, SameForUpdate
  <2>9. ASSUME NEW a \in Addrs, RefreshAddress(a) PROVE SpendsInv'
    BY <2>9, SameSpends DEF RefreshAddress, SameForUpdate
  <2>10. ASSUME AddressCrash PROVE SpendsInv'
    BY <2>10 DEF AddressCrash, SpendsInv
  <2> QED
    BY <1>2, <2>1, <2>2, <2>3, <2>4, <2>5, <2>6, <2>7, <2>8, <2>9, <2>10 DEF AddressNext
<1> QED
  BY <1>1, <1>2

(* What a scan that still holds counts is what the ledger counts: the sums *)
(* are over one set.                                                       *)
LEMMA ScannedIsLedger ==
  ASSUME NoDoubleSpends, SpendsInv
  PROVE  BalanceExact
<1> SUFFICES ASSUME NEW u \in Updaters, ScanHolds(u)
             PROVE  BalanceSat(u) = LedgerBalance(addr[u])
  BY DEF BalanceExact
<1> DEFINE Unspent(o) == ~\E t \in Txs : <<o, t>> \in spent /\ IsConfirmed(t)
<1>1. \A o \in seen[u] : <<o, TxOf[o]>> \in Uses
  BY OutputsAssumption DEF SpendsInv, ScanHolds, Recorded, Uses
<1>2. ASSUME NEW o \in seen[u]
      PROVE  <<o, TxOf[o]>> \in yes[u] <=> IsConfirmed(TxOf[o])
  BY <1>1, <1>2 DEF ScanHolds, Questions
<1>3. ASSUME NEW p \in spent, NEW q \in spent, q[1] = p[1] PROVE q = p
  <2>1. p \in Uses /\ q \in Uses /\ p[1] \in Spends[p[2]] \cap Spends[q[2]]
    BY <1>3 DEF SpendsInv, SpendItem
  <2>2. p[2] = q[2]
    BY <2>1 DEF NoDoubleSpends, Uses
  <2> QED
    BY <1>3, <2>1, <2>2 DEF Uses
<1>4. ASSUME NEW o, o \in seen[u], NEW t \in Txs
      PROVE  <<o, t>> \in spentBy[u] \cap yes[u] <=> <<o, t>> \in spent /\ IsConfirmed(t)
  <2>1. ASSUME <<o, t>> \in spent PROVE <<o, t>> \in Questions(u)
    <3>1. <<o, t>> \in spentBy[u] /\ spentBy[u] \subseteq spent
      BY <1>4, <2>1 DEF ScanHolds
    <3>2. OnlySpend(<<o, t>>, spentBy[u])
      BY <1>3, <3>1 DEF OnlySpend
    <3>3. <<o, t>> \in Uses
      BY <2>1 DEF SpendsInv
    <3> QED
      BY <1>4, <3>2, <3>3 DEF Questions
  <2> QED
    BY <1>4, <2>1 DEF ScanHolds
<1>5. Counted(u) = {o \in Recorded(addr[u]) : IsConfirmed(TxOf[o]) /\ Unspent(o)}
  <2>1. seen[u] = Recorded(addr[u])
    BY DEF ScanHolds
  <2>2. ASSUME NEW o \in seen[u] PROVE o \in Counted(u) <=> IsConfirmed(TxOf[o]) /\ Unspent(o)
    BY <1>2, <1>4, <2>1 DEF Counted
  <2> QED
    BY <2>1, <2>2 DEF Counted
<1> QED
  BY <1>5 DEF BalanceSat, LedgerBalance

(* What updateAddress stores is the balance of the address as long as what *)
(* it read still holds, whatever calls of add, faults and crashes there    *)
(* were, when no two transactions spend one output.                        *)
THEOREM BalancesAreExact == NoDoubleSpends /\ AddressSpec => []BalanceExact
<1> SUFFICES ASSUME NoDoubleSpends PROVE AddressSpec => []BalanceExact
  OBVIOUS
<1>1. SpendsInv => BalanceExact
  BY ScannedIsLedger
<1> QED
  BY InitSpendsInv, NextSpendsInv, <1>1, PTL DEF AddressSpec
-----------------------------------------------------------------------------
(* Sums                                                                    *)

AnyOf(s) == CHOOSE y \in s : TRUE
SumStep(f, s) == IF s = {} THEN 0 ELSE ValueOf[AnyOf(s)] + f[s \ {AnyOf(s)}]

(* Total is a sum by recursion over its set.                               *)
LEMMA TotalUnfolds ==
  ASSUME NEW S
  PROVE  Total(S) = (CHOOSE f : f = [s \in SUBSET S |-> SumStep(f, s)])[S]
BY DEF Total, MapThenSumSet, MapThenFoldSet, SumStep, AnyOf

LEMMA OneFewer ==
  ASSUME NEW S, IsFiniteSet(S), NEW s \in SUBSET S, s # {}
  PROVE  /\ AnyOf(s) \in s /\ s \ {AnyOf(s)} \in SUBSET S
         /\ Cardinality(s) \in Nat
         /\ Cardinality(s \ {AnyOf(s)}) \in Nat
         /\ Cardinality(s) = Cardinality(s \ {AnyOf(s)}) + 1
<1>1. AnyOf(s) \in s
  BY DEF AnyOf
<1>2. IsFiniteSet(s)
  BY FS_Subset
<1>3. IsFiniteSet(s \ {AnyOf(s)}) /\ Cardinality(s \ {AnyOf(s)}) = Cardinality(s) - 1
  BY <1>1, <1>2, FS_RemoveElement
<1>4. Cardinality(s) \in Nat /\ Cardinality(s \ {AnyOf(s)}) \in Nat
  BY <1>2, <1>3, FS_CardinalityType
<1> QED
  BY <1>1, <1>3, <1>4

(* The recursion has a solution.                                           *)
LEMMA SumExists ==
  ASSUME NEW S \in SUBSET Outputs, IsFiniteSet(S)
  PROVE  \E f : f = [s \in SUBSET S |-> SumStep(f, s)]
<1> DEFINE Solves(f, n) == \A s \in SUBSET S : Cardinality(s) <= n => f[s] = SumStep(f, s)
           Solved(n) == \E f : f = [s \in SUBSET S |-> f[s]] /\ Solves(f, n)
           T == {n \in Nat : Solved(n)}
<1>7. \A s \in SUBSET S : Cardinality(s) \in Nat /\ (Cardinality(s) <= 0 => s = {})
  BY FS_Subset, FS_CardinalityType, FS_EmptySet
<1>1. 0 \in T
  <2> DEFINE f == [s \in SUBSET S |-> 0]
  <2>1. f = [s \in SUBSET S |-> f[s]]
    OBVIOUS
  <2>2. Solves(f, 0)
    BY <1>7 DEF SumStep
  <2> QED
    BY <2>1, <2>2
<1>2. ASSUME NEW n \in T PROVE n + 1 \in T
  <2>1. PICK f : f = [s \in SUBSET S |-> f[s]] /\ Solves(f, n)
    OBVIOUS
  <2> DEFINE g == [s \in SUBSET S |-> SumStep(f, s)]
  <2>2. \A s \in SUBSET S : Cardinality(s) <= n => g[s] = f[s]
    BY <2>1
  <2>3. ASSUME NEW s \in SUBSET S, Cardinality(s) <= n + 1 PROVE g[s] = SumStep(g, s)
    <3>1. CASE s = {}
      BY <3>1 DEF SumStep
    <3>2. CASE s # {}
      <4>1. s \ {AnyOf(s)} \in SUBSET S /\ Cardinality(s \ {AnyOf(s)}) <= n
        BY <3>2, <2>3, OneFewer
      <4>2. g[s \ {AnyOf(s)}] = f[s \ {AnyOf(s)}]
        BY <4>1, <2>2
      <4>3. g[s] = SumStep(f, s)
        OBVIOUS
      <4> HIDE DEF g
      <4> QED
        BY <4>2, <4>3 DEF SumStep
    <3> QED
      BY <3>1, <3>2
  <2>4. g = [s \in SUBSET S |-> g[s]]
    OBVIOUS
  <2>5. Solves(g, n + 1)
    <3> HIDE DEF g
    <3> QED
      BY <2>3
  <2>6. Solved(n + 1)
    <3> HIDE DEF g, Solves
    <3> QED
      BY <2>4, <2>5
  <2> HIDE DEF Solved
  <2> QED
    BY <2>6
<1>3. T = Nat
  <2> HIDE DEF T
  <2>1. T \in SUBSET Nat
    BY DEF T
  <2> QED
    BY <1>1, <1>2, <2>1, NatBySteps
<1>4. Cardinality(S) \in Nat
  BY FS_CardinalityType
<1>5. PICK f : f = [s \in SUBSET S |-> f[s]] /\ Solves(f, Cardinality(S))
  BY <1>3, <1>4
<1>6. \A s \in SUBSET S : f[s] = SumStep(f, s)
  BY <1>5, FS_Subset
<1> QED
  BY <1>5, <1>6

(* What is counted of a finite set of outputs is a number.                 *)
LEMMA TotalIsNat ==
  ASSUME NEW S \in SUBSET Outputs, IsFiniteSet(S)
  PROVE  Total(S) \in Nat
<1> DEFINE f == CHOOSE h : h = [s \in SUBSET S |-> SumStep(h, s)]
<1>1. f = [s \in SUBSET S |-> SumStep(f, s)]
  BY SumExists
<1>2. Total(S) = f[S]
  BY TotalUnfolds
<1> HIDE DEF f
<1> DEFINE T == {n \in Nat : \A s \in SUBSET S : Cardinality(s) <= n => f[s] \in Nat}
<1>3. \A s \in SUBSET S : Cardinality(s) \in Nat /\ (Cardinality(s) <= 0 => s = {})
  BY FS_Subset, FS_CardinalityType, FS_EmptySet
<1>4. 0 \in T
  BY <1>1, <1>3 DEF SumStep
<1>5. ASSUME NEW n \in T PROVE n + 1 \in T
  <2>1. ASSUME NEW s \in SUBSET S, Cardinality(s) <= n + 1 PROVE f[s] \in Nat
    <3>1. CASE s = {}
      BY <1>1, <3>1 DEF SumStep
    <3>2. CASE s # {}
      <4>1. AnyOf(s) \in s /\ s \ {AnyOf(s)} \in SUBSET S /\ Cardinality(s \ {AnyOf(s)}) <= n
        BY <3>2, <2>1, OneFewer
      <4>2. f[s \ {AnyOf(s)}] \in Nat
        BY <4>1
      <4>3. ValueOf[AnyOf(s)] \in Nat
        BY <4>1, OutputsAssumption
      <4>4. f[s] = ValueOf[AnyOf(s)] + f[s \ {AnyOf(s)}]
        BY <1>1, <3>2 DEF SumStep
      <4> QED
        BY <4>2, <4>3, <4>4
    <3> QED
      BY <3>1, <3>2
  <2> QED
    BY <2>1
<1>6. T = Nat
  <2> HIDE DEF T
  <2>1. T \in SUBSET Nat
    BY DEF T
  <2> QED
    BY <1>4, <1>5, <2>1, NatBySteps
<1>7. Cardinality(S) \in T
  BY <1>6, FS_CardinalityType
<1> QED
  BY <1>2, <1>7

-----------------------------------------------------------------------------
(* Types                                                                   *)

BackTypes ==
  /\ ConfirmDbTypeOK
  /\ toUpdate \subseteq Addrs /\ updated \subseteq Addrs
  /\ missing \in [Adders -> SUBSET Outputs]
  /\ lookups \subseteq Items /\ strays \subseteq Items /\ skipped \subseteq Items
  /\ \A d \in Adders : addPc[d] = "confirm" => tx[d] \in Txs /\ blockhash[d] \in Blocks

(* What is added up is finite: outputs are recorded one by one.            *)
UpdateTypes ==
  /\ balance \in [Addrs -> Nat \cup {Null}]
  /\ ranking \subseteq Nat \X Addrs
  /\ updPc \in [Updaters -> {"idle", "scan", "write"}]
  /\ addr \in [Updaters -> Addrs \cup {Null}]
  /\ \A u \in Updaters : updPc[u] # "idle" => addr[u] \in Addrs
  /\ seen \in [Updaters -> SUBSET Outputs] /\ unread \in [Updaters -> SUBSET Outputs]
  /\ spentBy \in [Updaters -> SUBSET Uses]
  /\ asked \in [Updaters -> SUBSET Uses] /\ yes \in [Updaters -> SUBSET Uses]
  /\ oldValue \in [Updaters -> Nat \cup {Null}]
  /\ IsFiniteSet(outs) /\ \A u \in Updaters : IsFiniteSet(seen[u])

AddressTypeInv == CompleteInv /\ SpendsInv /\ BackTypes /\ UpdateTypes

LEMMA InitAddressTypes == AddressInit => AddressTypeInv
<1> SUFFICES ASSUME AddressInit PROVE BackTypes /\ UpdateTypes
  BY InitCompleteInv, InitSpendsInv DEF AddressTypeInv
<1>1. BackTypes
  BY DEF AddressInit, ConfirmDbInit, ConfirmDbTypeOK, BackTypes
<1>2. UpdateTypes
  BY FS_EmptySet DEF AddressInit, UpdateTypes
<1> QED
  BY <1>1, <1>2

LEMMA SameBack ==
  ASSUME BackTypes, UNCHANGED <<txVars, missing, lookups, strays, skipped, addPc, tx, blockhash>>,
         toUpdate' \subseteq Addrs, updated' \subseteq Addrs
  PROVE  BackTypes'
BY DEF BackTypes, ConfirmDbTypeOK, txVars

LEMMA SameUpdates ==
  ASSUME UpdateTypes, UNCHANGED <<balance, ranking, updVars>>, IsFiniteSet(outs')
  PROVE  UpdateTypes'
BY DEF UpdateTypes, updVars, scanVars

LEMMA AddStepBack ==
  ASSUME AddressTypeInv, NEW d \in Adders, AddStep(d)
  PROVE  BackTypes'
<1> USE DEF AddressTypeInv, addrDbVars, backVars, addVars
<1>1. ASSUME NEW o \in Outputs, WriteSpent(d, o) PROVE BackTypes'
  BY <1>1, SameBack DEF WriteSpent, PutSpent, BackTypes
<1>2. ASSUME NEW o \in Outputs, GetOutput(d, o) PROVE BackTypes'
  <2>1. tx[d] \in Txs
    BY <1>2 DEF GetOutput, SpendsInv
  <2>2. skipped' \subseteq Items /\ missing' \in [Adders -> SUBSET Outputs]
    BY <1>2, <2>1 DEF GetOutput, BackTypes, Items
  <2> QED
    BY <1>2, <2>2 DEF GetOutput, BackTypes, ConfirmDbTypeOK, txVars
<1>3. ASSUME NEW o \in Outputs, WriteOutput(d, o) PROVE BackTypes'
  BY <1>3, OutputsAssumption DEF WriteOutput, PutOutput, BackTypes, ConfirmDbTypeOK, txVars
<1>4. ASSUME VinDone(d) PROVE BackTypes'
  BY <1>4 DEF VinDone, BackTypes, ConfirmDbTypeOK, txVars, CompleteInv, AddTypes
<1>5. ASSUME VoutDone(d) PROVE BackTypes'
  BY <1>5 DEF VoutDone, AfterVout, AddReturn, BackTypes, ConfirmDbTypeOK, txVars, SpendsInv,
              CompleteInv, AddTypes
<1>6. ASSUME Confirm(d) PROVE BackTypes'
  <2>1. ConfirmDbTypeOK'
    BY <1>6 DEF Confirm, SetConfirmation, BackTypes, ConfirmDbTypeOK
  <2> QED
    BY <1>6, <2>1 DEF Confirm, AddReturn, BackTypes, CompleteInv, AddTypes
<1>7. ASSUME AddFails(d) PROVE BackTypes'
  <2>1. strays' \subseteq Items
    <3>1. items[d] \subseteq Outputs /\ (items[d] # {} => tx[d] \in Txs)
      BY <1>7 DEF AddFails, SpendsInv
    <3> QED
      BY <1>7, <3>1 DEF AddFails, BackTypes, Items
  <2> QED
    BY <1>7, <2>1 DEF AddFails, AddReturn, BackTypes, ConfirmDbTypeOK, txVars, CompleteInv, AddTypes
<1> QED
  BY <1>1, <1>2, <1>3, <1>4, <1>5, <1>6, <1>7 DEF AddStep

LEMMA UpdateStepTypes ==
  ASSUME AddressTypeInv, NEW u \in Updaters, UpdateStep(u)
  PROVE  UpdateTypes' /\ toUpdate' \subseteq Addrs /\ updated' \subseteq Addrs
<1> USE DEF AddressTypeInv, addrDbVars, scanVars
<1>1. BackTypes => toUpdate \subseteq Addrs /\ updated \subseteq Addrs
  BY DEF BackTypes
<1>2. ASSUME NEW o \in unread[u], ScanSpent(u, o) \/ MissSpent(u, o) PROVE UpdateTypes'
  <2>1. {p \in spent : p[1] = o} \subseteq Uses
    BY DEF SpendsInv
  <2> QED
    BY <1>2, <2>1 DEF ScanSpent, MissSpent, UpdateTypes
<1>3. ASSUME NEW p \in Uses, AskConfirmed(u, p) PROVE UpdateTypes'
  BY <1>3 DEF AskConfirmed, UpdateTypes
<1>4. ASSUME MissAnswer(u) PROVE UpdateTypes'
  <2>1. Questions(u) \subseteq Uses
    BY DEF Questions
  <2> QED
    BY <1>4, <2>1 DEF MissAnswer, UpdateTypes
<1>5. ASSUME GetOldBalance(u) PROVE UpdateTypes'
  BY <1>5 DEF GetOldBalance, UpdGoto, UpdateTypes
<1>6. ASSUME WriteBalance(u) PROVE UpdateTypes' /\ toUpdate' \subseteq Addrs /\ updated' \subseteq Addrs
  <2>1. BalanceSat(u) \in Nat
    <3>1. Counted(u) \subseteq seen[u]
      BY DEF Counted
    <3>2. Counted(u) \in SUBSET Outputs /\ IsFiniteSet(Counted(u))
      BY <3>1, FS_Subset DEF UpdateTypes
    <3> QED
      BY <3>2, TotalIsNat DEF BalanceSat
  <2>2. addr[u] \in Addrs
    BY <1>6 DEF WriteBalance, UpdateTypes
  <2>3. /\ balance' \in [Addrs -> Nat \cup {Null}] /\ ranking' \subseteq Nat \X Addrs
        /\ toUpdate' \subseteq Addrs /\ updated' \subseteq Addrs
    BY <1>1, <1>6, <2>1, <2>2 DEF WriteBalance, RankAfter, UpdateTypes
  <2>4. UpdReturn(u) /\ outs' = outs
    BY <1>6 DEF WriteBalance
  <2> QED
    BY <2>3, <2>4, FS_EmptySet DEF UpdReturn, UpdGoto, UpdateTypes
<1>7. ASSUME WriteFails(u) PROVE UpdateTypes'
  BY <1>7, FS_EmptySet DEF WriteFails, UpdReturn, UpdGoto, UpdateTypes
<1>8. WriteBalance(u) \/ UNCHANGED <<toUpdate, updated>>
  BY DEF UpdateStep, ScanSpent, MissSpent, AskConfirmed, MissAnswer, GetOldBalance, WriteFails
<1> QED
  BY <1>1, <1>2, <1>3, <1>4, <1>5, <1>6, <1>7, <1>8 DEF UpdateStep

(* outs grows by one output at most.                                       *)
LEMMA OutsFinite ==
  ASSUME IsFiniteSet(outs), outs' = outs \/ \E o : outs' = outs \cup {o}
  PROVE  IsFiniteSet(outs')
BY FS_AddElement

LEMMA NextAddressTypes ==
  ASSUME AddressTypeInv, [AddressNext]_addressVars
  PROVE  AddressTypeInv'
<1> USE DEF addrDbVars, addVars, backVars
<1>1. CompleteInv' /\ SpendsInv'
  BY NextCompleteInv, NextSpendsInv DEF AddressTypeInv
<1> SUFFICES BackTypes' /\ UpdateTypes'
  BY <1>1 DEF AddressTypeInv
<1>2. BackTypes /\ UpdateTypes /\ toUpdate \subseteq Addrs /\ updated \subseteq Addrs /\ IsFiniteSet(outs)
  BY DEF AddressTypeInv, BackTypes, UpdateTypes
<1>3. CASE UNCHANGED addressVars
  BY <1>2, <1>3, SameBack, SameUpdates DEF addressVars
<1>4. CASE AddressNext
  <2>1. ASSUME NEW d \in Adders, NEW t \in Txs, NEW b \in Blocks \cup {Null}, AddTx(d, t, b)
        PROVE  BackTypes' /\ UpdateTypes'
    <3>1. lookups' \subseteq Items
      BY <1>2, <2>1, OutputsAssumption DEF AddTx, BackTypes, Items
    <3>2. BackTypes'
      BY <1>2, <2>1, <3>1 DEF AddTx, BackTypes, ConfirmDbTypeOK, txVars, AddressTypeInv,
                             CompleteInv, AddTypes
    <3> QED
      BY <1>2, <2>1, <3>2, SameUpdates DEF AddTx
  <2>2. ASSUME NEW d \in Adders, AddStep(d) PROVE BackTypes' /\ UpdateTypes'
    <3>1. UNCHANGED <<balance, ranking, updVars>> /\ (outs' = outs \/ \E o : outs' = outs \cup {o})
      BY <2>2 DEF AddStep, WriteSpent, PutSpent, VinDone, GetOutput, WriteOutput, PutOutput, VoutDone,
                  AfterVout, Confirm, AddFails
    <3> QED
      BY <1>2, <2>2, <3>1, AddStepBack, SameUpdates, OutsFinite
  <2>3. ASSUME NEW p \in lookups, FlagSpender(p[1], p[2]) PROVE BackTypes' /\ UpdateTypes'
    <3>1. toUpdate' \subseteq Addrs
      BY <1>2, <2>3, OutputsAssumption DEF FlagSpender, BackTypes, Items
    <3> QED
      BY <1>2, <2>3, <3>1, SameUpdates DEF FlagSpender, BackTypes, ConfirmDbTypeOK, txVars
  <2>4. ASSUME NEW p \in strays, StrayItem(p[1], p[2]) PROVE BackTypes' /\ UpdateTypes'
    <3>1. /\ toUpdate' \subseteq Addrs /\ updated' \subseteq Addrs /\ UNCHANGED <<balance, ranking>>
          /\ outs' = outs \/ \E o : outs' = outs \cup {o}
      BY <1>2, <2>4, OutputsAssumption DEF StrayItem, PutOutput, PutSpent, BackTypes, Items
    <3> QED
      BY <1>2, <2>4, <3>1, SameUpdates, OutsFinite DEF StrayItem, BackTypes, ConfirmDbTypeOK, txVars
  <2>5. ASSUME NEW b \in Blocks, NEW isMain \in BOOLEAN, HandleBlockChange(b, isMain)
        PROVE  BackTypes' /\ UpdateTypes'
    BY <1>2, <2>5, SameBack, SameUpdates DEF HandleBlockChange
  <2>6. ASSUME NEW ch \in changes, WriteBlockChange(ch) \/ LoseBlockChange(ch)
        PROVE  BackTypes' /\ UpdateTypes'
    <3>1. ch \in Blocks \X BOOLEAN \X SUBSET Txs
      BY DEF AddressTypeInv, CompleteInv, AddTypes
    <3>2. ConfirmDbTypeOK'
      BY <1>2, <2>6, <3>1 DEF WriteBlockChange, LoseBlockChange, WriteConfirmations, BackTypes,
                             ConfirmDbTypeOK, txVars
    <3> QED
      BY <1>2, <2>6, <3>2, SameUpdates DEF WriteBlockChange, LoseBlockChange, BackTypes
  <2>7. ASSUME NEW u \in Updaters, NEW a \in Addrs, UpdateAddress(u, a)
        PROVE  BackTypes' /\ UpdateTypes'
    <3>1. Recorded(a) \subseteq outs /\ outs \subseteq Outputs
      BY DEF Recorded, AddressTypeInv, SpendsInv
    <3>2. IsFiniteSet(Recorded(a))
      BY <1>2, <3>1, FS_Subset
    <3>3. UpdateTypes'
      BY <1>2, <2>7, <3>1, <3>2 DEF UpdateAddress, UpdGoto, UpdateTypes
    <3> QED
      BY <1>2, <2>7, <3>3, SameBack DEF UpdateAddress, SameForUpdate
  <2>8. ASSUME NEW u \in Updaters, UpdateStep(u) PROVE BackTypes' /\ UpdateTypes'
    <3>1. SameForUpdate
      BY <2>8 DEF UpdateStep, ScanSpent, MissSpent, AskConfirmed, MissAnswer, GetOldBalance,
                  WriteFails, WriteBalance
    <3> QED
      BY <1>2, <2>8, <3>1, UpdateStepTypes, SameBack DEF SameForUpdate
  <2>9. ASSUME NEW a \in Addrs, RefreshAddress(a) PROVE BackTypes' /\ UpdateTypes'
    BY <1>2, <2>9, SameBack, SameUpdates DEF RefreshAddress, SameForUpdate
  <2>10. ASSUME AddressCrash PROVE BackTypes' /\ UpdateTypes'
    <3>1. BackTypes'
      BY <1>2, <2>10 DEF AddressCrash, BackTypes, ConfirmDbTypeOK, txVars
    <3>2. UpdateTypes'
      BY <1>2, <2>10, FS_EmptySet DEF AddressCrash, UpdateTypes
    <3> QED
      BY <3>1, <3>2
  <2> QED
    BY <1>4, <2>1, <2>2, <2>3, <2>4, <2>5, <2>6, <2>7, <2>8, <2>9, <2>10 DEF AddressNext
<1> QED
  BY <1>3, <1>4

(* The address records keep their types; a stored balance is a number,     *)
(* whatever the scans of its update have missed (updateAddress).           *)
THEOREM AddressTypeCorrect == AddressSpec => []AddressTypeOK
<1>1. AddressTypeInv => AddressTypeOK
  BY DEF AddressTypeInv, CompleteInv, AddTypes, SpendsInv, BackTypes, UpdateTypes, AddressTypeOK
<1> QED
  BY InitAddressTypes, NextAddressTypes, <1>1, PTL DEF AddressSpec
=============================================================================
