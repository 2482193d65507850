------------------------------ MODULE TimeIndex ------------------------------
(***************************************************************************)
(* The time indexes behind the lists of the API: bts-<second> (lib/BlockDb.*)
(* js) has one block of each second, tts-<second> (lib/TransactionDb.js)   *)
(* one transaction that was announced on its own.  A second block or       *)
(* transaction of the same second takes the place of the first.            *)
(***************************************************************************)
EXTENDS BlockDb, SequencesExt

CONSTANTS
  Txs,        \* transaction ids
  BlockTime,  \* time of each block, as the node gives it
  MaxTime,    \* bound: the last second
  Limits      \* how many rows the latest lists may ask for (limit)

Times == 0..MaxTime

ASSUME TimeAssumption ==
  /\ BlockTime \in [Blocks -> Times]
  /\ Limits \subseteq Nat \ {0}
  /\ MaxTime \in Nat

VARIABLES
  now,
  blockAt,  \* bts-<second>
  txAt,     \* tts-<second>
  addedAt,  \* history: the second each block was stored with
  replaced  \* history: blocks of whose second another was stored later

historyVars == <<addedAt, replaced>>
timeVars == <<now, blockAt, txAt, historyVars>>

TimeIndexTypeOK ==
  /\ now \in Times
  /\ blockAt \in [Times -> Blocks \cup {Null}]
  /\ txAt \in [Times -> Txs \cup {Null}]
  /\ addedAt \in [Blocks -> Times \cup {Null}]
  /\ replaced \subseteq Blocks

TimeIndexInit ==
  /\ now = 0
  /\ blockAt = [t \in Times |-> Null]
  /\ txAt = [t \in Times |-> Null]
  /\ addedAt = [b \in Blocks |-> Null]
  /\ replaced = {}

-----------------------------------------------------------------------------
Tick ==
  /\ now < MaxTime
  /\ now' = now + 1
  /\ UNCHANGED <<blockVars, blockAt, txAt, historyVars>>

(* Mutant: the first block of a second keeps the row.                      *)
PutBlockFirst(t, b) == blockAt' = [blockAt EXCEPT ![t] = IF @ = Null THEN b ELSE @]

PutBlock(t, b) == blockAt' = [blockAt EXCEPT ![t] = b]

(* add(), with its time row.  Blocks from RPC have a time, those of peers  *)
(* get the time of the clock.                                              *)
AddBlockAt(b, hasTime) ==
  LET at == IF hasTime THEN BlockTime[b] ELSE now
  IN /\ ~Has(b)
     /\ AddBlock(b)
     /\ PutBlock(at, b)
     /\ addedAt' = [addedAt EXCEPT ![b] = at]
     /\ replaced' = replaced \cup {c \in Blocks : addedAt[c] = at}
     /\ UNCHANGED <<now, txAt>>

(* Later in storeTipBlock.                                                 *)
TipTo(b) ==
  /\ Has(b) /\ tip # b
  /\ SetTip(b)
  /\ UNCHANGED timeVars

(* handleTx of PeerSync: storeTxs ends with the row of the transaction.    *)
HandleTx(t) ==
  /\ txAt' = [txAt EXCEPT ![now] = t]
  /\ UNCHANGED <<blockVars, now, blockAt, historyVars>>

-----------------------------------------------------------------------------
(* The i-th latest second of a set has i - 1 later ones.                   *)
Rank(t, seconds) == Cardinality({u \in seconds : u > t}) + 1

LatestFirst(seconds) ==
  [i \in 1..Cardinality(seconds) |-> CHOOSE t \in seconds : Rank(t, seconds) = i]

(* A scan of the rows in reverse order.                                    *)
RowsIn(row, seconds) ==
  LET latestFirst == LatestFirst({t \in seconds : row[t] # Null})
  IN [i \in DOMAIN latestFirst |-> row[latestFirst[i]]]

AtMost(n, s) == SubSeq(s, 1, IF Len(s) < n THEN Len(s) ELSE n)

(* getLatestBlocks reads backwards from now with a limit only: past the    *)
(* first bts- row it goes on with bti-, whose value is the tip, and then   *)
(* the bpr- rows, whose values are previous hashes.  (A limit of at most   *)
(* one row more than there are blocks reaches none of the keys below.)     *)
LatestBlocks(limit) ==
  LET tipRow == IF tip = Null THEN <<>> ELSE <<tip>>
      stored == SetToSeq({b \in Blocks : Has(b)})
      prevRows == [i \in DOMAIN stored |-> prev[stored[i]]]
  IN AtMost(limit, RowsIn(blockAt, 0..now) \o tipRow \o prevRows)

(* getLatestTransactions; tts- are the lowest keys of that database.       *)
LatestTransactions(limit) == AtMost(limit, RowsIn(txAt, 0..now))
=============================================================================
