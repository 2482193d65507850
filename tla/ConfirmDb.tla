------------------------------ MODULE ConfirmDb ------------------------------
(***************************************************************************)
(* The confirmation part of the transaction database                       *)
(* (lib/TransactionDb.js): txb-<txid>-<block> says whether the block that  *)
(* contains the transaction is connected, tx-<block>-<txid> finds the      *)
(* transactions of a block again when its main flag changes.               *)
(***************************************************************************)
EXTENDS BlockTree

CONSTANTS
  Txs,       \* transaction ids
  TxsOf,     \* b.tx, the transactions of each block
  GenesisTx  \* genesisTXID: never asked for, never recorded

ASSUME TxsAssumption == TxsOf \in [Blocks -> SUBSET Txs]

VARIABLES
  inBlk,    \* <<txid, block>> whose txb- key is 1 (a key that is 0 or absent
            \* reads alike in isConfirmed)
  fromBlk   \* <<block, txid>> whose tx- key exists

txVars == <<inBlk, fromBlk>>

ConfirmDbTypeOK ==
  /\ inBlk \in SUBSET (Txs \X Blocks)
  /\ fromBlk \in SUBSET (Blocks \X Txs)

ConfirmDbInit == inBlk = {} /\ fromBlk = {}

-----------------------------------------------------------------------------
(* What createFromArray asks for.                                          *)
Wanted(b) == TxsOf[b] \ {GenesisTx}

(* Mutants: the two parts of the tx- key swapped; the tx- key not written. *)
SetConfirmationSwapped(t, b) ==
  /\ inBlk' = inBlk \cup {<<t, b>>}
  /\ fromBlk' = fromBlk \cup {<<t, b>>}

SetConfirmationHalf(t, b) ==
  /\ inBlk' = inBlk \cup {<<t, b>>}
  /\ UNCHANGED fromBlk

(* setConfirmation(txId, blockHash, true): one batch, both keys.           *)
SetConfirmation(t, b) ==
  /\ inBlk' = inBlk \cup {<<t, b>>}
  /\ fromBlk' = fromBlk \cup {<<b, t>>}

(* isConfirmed(): some block that contains t is connected.                 *)
IsConfirmed(t) == \E b \in Blocks : <<t, b>> \in inBlk

(* handleBlockChange() reads the transactions of the block ...             *)
TxsFromBlock(h) == {t \in Txs : <<h, t>> \in fromBlk}

(* ... and later writes their flags in one batch.                          *)
WriteConfirmations(h, txids, isMain) ==
  /\ inBlk' = IF isMain THEN inBlk \cup (txids \X {h})
                        ELSE inBlk \ (txids \X {h})
  /\ UNCHANGED fromBlk
=============================================================================
