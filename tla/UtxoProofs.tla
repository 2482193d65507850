----------------------------- MODULE UtxoProofs -----------------------------
(***************************************************************************)
(* Theorems about AddressUtxo: the requests for the unspent outputs of an  *)
(* address, any number of them and of updates and additions at once, for   *)
(* every set of transactions and outputs, also when two spend one output.  *)
(***************************************************************************)
EXTENDS AddressUtxo, AddressProofs

UtxoTypes ==
  /\ blockhash \in [Adders -> Blocks \cup {Null}]
  /\ updPc \in [Updaters -> {"idle", "scan", "write"}]
  /\ seen \in [Updaters -> SUBSET Outputs] /\ unread \in [Updaters -> SUBSET Outputs]
  /\ spentBy \in [Updaters -> SUBSET Uses]
  /\ asked \in [Updaters -> SUBSET Uses] /\ yes \in [Updaters -> SUBSET Uses]
  /\ known \subseteq Txs
  /\ kind \in [Updaters -> {"update", "utxo", "items"}]
  /\ left \in [Updaters -> SUBSET Outputs] /\ answer \in [Updaters -> SUBSET Outputs]
  /\ before \in [Updaters -> SUBSET Uses]

(* Where a request is: while it is not an update it sits in the scan.      *)
RequestStage(u) ==
  /\ kind[u] # "update" => updPc[u] = "scan"
  /\ kind[u] = "items" => unread[u] = {} /\ Questions(u) \subseteq asked[u]
  /\ kind[u] # "items" => left[u] = {} /\ answer[u] = {}
  /\ left[u] \cup answer[u] \subseteq seen[u]

(* What the scans have read holds every spend that was there at the start. *)
ScansComplete(u) ==
  /\ kind[u] = "update" => before[u] = {}
  /\ before[u] \cup spentBy[u] \subseteq spent
  /\ \A p \in before[u] : p[1] \in seen[u] \ unread[u] => p \in spentBy[u]

(* What was answered so far is right.                                      *)
AnswerRight(u) ==
  /\ \A o \in answer[u] : Spendable(u, o)
  /\ kind[u] = "items" =>
       \A o \in seen[u] \ left[u] :
         <<o, TxOf[o]>> \in yes[u] /\ ~(\E p \in spent : p[1] = o) => o \in answer[u]

RequestRight(u) == RequestStage(u) /\ ScansComplete(u) /\ AnswerRight(u)

(* The node has every transaction that is confirmed, or about to be.       *)
NodeHasConfirmed ==
  /\ \A t \in Txs : IsConfirmed(t) => t \in known
  /\ \A d \in Adders : blockhash[d] # Null => tx[d] \in known
  /\ \A u \in Updaters : \A p \in yes[u] : IsConfirmed(p[2])

UtxoInv ==
  /\ SpendsInv /\ UtxoTypes
  /\ \A u \in Updaters : RequestRight(u)
  /\ NodeHasConfirmed
LEMMA InitUtxoInv == UtxoInit => UtxoInv
<1> SUFFICES ASSUME UtxoInit PROVE UtxoInv
  OBVIOUS
<1>1. SpendsInv
  BY InitSpendsInv DEF UtxoInit
<1>2. UtxoTypes
  BY DEF UtxoInit, AddressInit, UtxoTypes
<1>3. \A u \in Updaters : RequestRight(u)
  BY DEF UtxoInit, AddressInit, RequestRight, RequestStage, ScansComplete, AnswerRight
<1>4. NodeHasConfirmed
  BY DEF UtxoInit, AddressInit, ConfirmDbInit, NodeHasConfirmed, IsConfirmed
<1> QED
  BY <1>1, <1>2, <1>3, <1>4 DEF UtxoInv

-----------------------------------------------------------------------------
(* Steps of others                                                         *)

(* A request stands still while others record spends.                      *)
LEMMA SameQuestions ==
  ASSUME NEW u, seen'[u] = seen[u], spentBy'[u] = spentBy[u]
  PROVE  Questions(u)' = Questions(u)
BY DEF Questions, OnlySpend

LEMMA OtherRequestKeeps ==
  ASSUME NEW u \in Updaters, RequestRight(u), spent \subseteq spent',
         updPc'[u] = updPc[u], seen'[u] = seen[u], unread'[u] = unread[u],
         spentBy'[u] = spentBy[u], asked'[u] = asked[u], yes'[u] = yes[u],
         kind'[u] = kind[u], left'[u] = left[u], answer'[u] = answer[u], before'[u] = before[u]
  PROVE  RequestRight(u)'
<1>1. RequestStage(u)'
  BY SameQuestions DEF RequestRight, RequestStage
<1>2. ScansComplete(u)'
  BY DEF RequestRight, ScansComplete
<1>3. \A o : Spendable(u, o) <=> Spendable(u, o)'
  BY DEF Spendable, SpendsOf
<1>4. AnswerRight(u)'
  BY <1>3 DEF RequestRight, AnswerRight
<1> QED
  BY <1>1, <1>2, <1>4 DEF RequestRight

(* The steps of add, and of the lookups it leaves behind.                  *)
LEMMA AddingStepKeeps ==
  ASSUME UtxoInv, SpendsInv', UNCHANGED <<updVars, known, utxoVars>>,
         spent \subseteq spent', blockhash' \in [Adders -> Blocks \cup {Null}],
         NodeHasConfirmed'
  PROVE  UtxoInv'
<1>1. UtxoTypes'
  BY DEF UtxoInv, UtxoTypes, updVars, scanVars, utxoVars
<1>2. \A u \in Updaters : RequestRight(u)'
  BY OtherRequestKeeps DEF UtxoInv, updVars, scanVars, utxoVars
<1> QED
  BY <1>1, <1>2 DEF UtxoInv

LEMMA AddingNextInv ==
  ASSUME UtxoInv, UNCHANGED <<known, utxoVars>>,
         \/ \E d \in Adders, t \in known, b \in Blocks \cup {Null} : AddTx(d, t, b)
         \/ \E d \in Adders : AddStep(d)
         \/ \E p \in lookups : FlagSpender(p[1], p[2])
  PROVE  UtxoInv'
<1> USE DEF addrDbVars, txVars, addVars, backVars
<1>1. ASSUME NEW d \in Adders, NEW t \in known, NEW b \in Blocks \cup {Null}, AddTx(d, t, b)
      PROVE  UtxoInv'
  <2>1. t \in Txs
    BY DEF UtxoInv, UtxoTypes
  <2>2. SpendsInv'
    BY <1>1, <2>1, AddTxSpends DEF UtxoInv
  <2>3. UNCHANGED <<updVars, spent, inBlk>>
    BY <1>1 DEF AddTx
  <2>4. blockhash' \in [Adders -> Blocks \cup {Null}]
    BY <1>1 DEF AddTx, UtxoInv, UtxoTypes
  <2>5. NodeHasConfirmed'
    BY <1>1, <2>3 DEF AddTx, UtxoInv, UtxoTypes, SpendsInv, NodeHasConfirmed, IsConfirmed,
                      updVars, scanVars
  <2> QED
    BY <2>2, <2>3, <2>4, <2>5, AddingStepKeeps
<1>2. ASSUME NEW d \in Adders, AddStep(d) PROVE UtxoInv'
  <2> USE DEF AddStep, WriteSpent, PutSpent, VinDone, GetOutput, WriteOutput, PutOutput,
              VoutDone, AfterVout, Confirm, AddFails
  <2>1. SpendsInv'
    BY <1>2, AddStepSpends DEF UtxoInv
  <2>2. UNCHANGED updVars /\ spent \subseteq spent'
    BY <1>2
  <2>3. \/ UNCHANGED <<tx, blockhash>>
        \/ AddReturn(d)
    BY <1>2
  <2>4. blockhash' \in [Adders -> Blocks \cup {Null}]
    BY <2>3 DEF AddReturn, UtxoInv, UtxoTypes
  <2>5. \A e \in Adders : blockhash'[e] # Null => tx'[e] \in known
    BY <2>3 DEF AddReturn, UtxoInv, UtxoTypes, SpendsInv, NodeHasConfirmed
  <2>6. \/ UNCHANGED inBlk
        \/ inBlk' = inBlk \cup {<<tx[d], blockhash[d]>>}
    BY <1>2 DEF SetConfirmation
  <2>7. \A t \in Txs : IsConfirmed(t)' => IsConfirmed(t) \/ (blockhash[d] # Null /\ t = tx[d])
    BY <2>6, BlocksAssumption DEF IsConfirmed
  <2>8. \A t : IsConfirmed(t) => IsConfirmed(t)'
    BY <2>6 DEF IsConfirmed
  <2>9. NodeHasConfirmed'
    BY <2>2, <2>5, <2>7, <2>8 DEF UtxoInv, NodeHasConfirmed, updVars, scanVars
  <2> QED
    BY <2>1, <2>2, <2>4, <2>9, AddingStepKeeps
<1>3. ASSUME NEW p \in lookups, FlagSpender(p[1], p[2]) PROVE UtxoInv'
  <2>1. UNCHANGED <<updVars, outs, spent, addVars, strays, inBlk>>
    BY <1>3 DEF FlagSpender
  <2>2. SpendsInv'
    BY <2>1, SameSpends DEF UtxoInv
  <2>3. NodeHasConfirmed'
    BY <2>1 DEF UtxoInv, NodeHasConfirmed, IsConfirmed, updVars, scanVars
  <2> QED
    BY <2>1, <2>2, <2>3, AddingStepKeeps DEF UtxoInv, UtxoTypes
<1> QED
  BY <1>1, <1>2, <1>3

-----------------------------------------------------------------------------
(* Steps of one update or request u                                        *)

(* Only u moves, and nothing is written that add reads.                    *)
OnlyMoves(u) ==
  /\ UNCHANGED <<txVars, outs, spent, addVars, backVars, known>>
  /\ \A w \in Updaters \ {u} :
       /\ updPc'[w] = updPc[w] /\ seen'[w] = seen[w] /\ unread'[w] = unread[w]
       /\ spentBy'[w] = spentBy[w] /\ asked'[w] = asked[w] /\ yes'[w] = yes[w]
       /\ kind'[w] = kind[w] /\ left'[w] = left[w] /\ answer'[w] = answer[w] /\ before'[w] = before[w]

LEMMA OwnStep ==
  ASSUME UtxoInv, NEW u \in Updaters, OnlyMoves(u), UtxoTypes', RequestRight(u)',
         \A p \in yes'[u] \ yes[u] : IsConfirmed(p[2])
  PROVE  UtxoInv'
<1> USE DEF OnlyMoves
<1>1. SpendsInv'
  BY SameSpends DEF UtxoInv, addVars, backVars
<1>2. \A w \in Updaters : RequestRight(w)'
  BY OtherRequestKeeps DEF UtxoInv
<1>3. NodeHasConfirmed'
  <2>1. \A t : IsConfirmed(t) <=> IsConfirmed(t)'
    BY DEF IsConfirmed, txVars
  <2> QED
    BY <2>1 DEF UtxoInv, NodeHasConfirmed, addVars
<1> QED
  BY <1>1, <1>2, <1>3 DEF UtxoInv

LEMMA StartInv ==
  ASSUME UtxoInv, NEW u \in Updaters, NEW a \in Addrs, Update(u, a) \/ GetUtxo(u, a)
  PROVE  UtxoInv'
<1> USE DEF Update, GetUtxo, UpdateAddress, UpdGoto, SameForUpdate, addrDbVars, utxoVars
<1>1. Recorded(a) \in SUBSET Outputs /\ spent \in SUBSET Uses
  BY DEF UtxoInv, SpendsInv, Recorded
<1>2. OnlyMoves(u)
  BY DEF OnlyMoves, UtxoInv, UtxoTypes
<1>3. UtxoTypes'
  BY <1>1 DEF UtxoInv, UtxoTypes, addVars
<1>4. seen'[u] = unread'[u] /\ updPc'[u] = "scan" /\ kind[u] = "update" /\ spentBy' = spentBy
  BY DEF UtxoInv, UtxoTypes, RequestRight, RequestStage
<1>5. /\ left'[u] = {} /\ answer'[u] = {}
      /\ \/ kind'[u] = "update" /\ before'[u] = {}
         \/ kind'[u] = "utxo" /\ before'[u] = spent
  BY <1>4 DEF UtxoInv, UtxoTypes, RequestRight, RequestStage, ScansComplete
<1>6. RequestRight(u)'
  <2>1. RequestStage(u)'
    BY <1>4, <1>5 DEF RequestStage
  <2>2. ScansComplete(u)'
    BY <1>4, <1>5 DEF ScansComplete, UtxoInv, RequestRight
  <2>3. AnswerRight(u)'
    BY <1>5 DEF AnswerRight
  <2> QED
    BY <2>1, <2>2, <2>3 DEF RequestRight
<1> QED
  BY <1>2, <1>3, <1>6, OwnStep

LEMMA UpdateGoesOnInv ==
  ASSUME UtxoInv, NEW u \in Updaters, UpdateGoesOn(u)
  PROVE  UtxoInv'
<1> USE DEF UpdateGoesOn, UpdGoto, SameForUpdate, addrDbVars, utxoVars
<1>1. CASE GetOldBalance(u)
  <2> USE <1>1 DEF GetOldBalance, scanVars
  <2>1. OnlyMoves(u) /\ UtxoTypes'
    BY DEF OnlyMoves, UtxoInv, UtxoTypes, addVars
  <2>2. RequestRight(u)'
    BY DEF UtxoInv, RequestRight, RequestStage, ScansComplete, AnswerRight
  <2> QED
    BY <2>1, <2>2, OwnStep
<1>2. CASE WriteBalance(u)
  <2> USE <1>2 DEF WriteBalance, UpdReturn
  <2>1. OnlyMoves(u) /\ UtxoTypes'
    BY DEF OnlyMoves, UtxoInv, UtxoTypes, addVars
  <2>2. seen'[u] = {} /\ spentBy'[u] = {} /\ yes'[u] = {}
    BY DEF UtxoInv, UtxoTypes
  <2>3. RequestRight(u)'
    BY <2>2 DEF UtxoInv, RequestRight, RequestStage, ScansComplete, AnswerRight
  <2> QED
    BY <2>1, <2>2, <2>3, OwnStep
<1> QED
  BY <1>1, <1>2

LEMMA FromAddrInv ==
  ASSUME UtxoInv, NEW u \in Updaters, FromAddr(u)
  PROVE  UtxoInv'
<1> USE DEF FromAddr, SameForUpdate, addrDbVars, utxoVars
<1>1. ASSUME NEW o \in unread[u], ScanSpent(u, o) PROVE UtxoInv'
  <2> USE <1>1 DEF ScanSpent
  <2> DEFINE found == {p \in spent : p[1] = o}
  <2>1. found \in SUBSET Uses
    BY DEF UtxoInv, SpendsInv
  <2>2. OnlyMoves(u) /\ UtxoTypes'
    BY <2>1 DEF OnlyMoves, UtxoInv, UtxoTypes, addVars
  <2>3. spentBy'[u] = spentBy[u] \cup found /\ unread'[u] = unread[u] \ {o}
    BY DEF UtxoInv, UtxoTypes
  <2>4. kind[u] # "items"
    BY DEF UtxoInv, RequestRight, RequestStage
  <2>5. RequestStage(u)'
    BY <2>4 DEF UtxoInv, RequestRight, RequestStage
  <2>6. ScansComplete(u)'
    BY <2>3 DEF UtxoInv, RequestRight, ScansComplete
  <2>7. AnswerRight(u)'
    BY <2>4 DEF UtxoInv, RequestRight, RequestStage, AnswerRight
  <2> QED
    BY <2>2, <2>5, <2>6, <2>7, OwnStep DEF RequestRight
<1>2. ASSUME NEW q \in Uses, AskConfirmed(u, q) PROVE UtxoInv'
  <2> USE <1>2 DEF AskConfirmed
  <2>1. OnlyMoves(u) /\ UtxoTypes'
    BY DEF OnlyMoves, UtxoInv, UtxoTypes, addVars
  <2>2. yes[u] \subseteq yes'[u] /\ \A p \in yes'[u] \ yes[u] : IsConfirmed(p[2])
    BY DEF UtxoInv, UtxoTypes
  <2>3. kind[u] # "items"
    BY DEF UtxoInv, RequestRight, RequestStage
  <2>4. RequestRight(u)'
    BY <2>2, <2>3 DEF UtxoInv, RequestRight, RequestStage, ScansComplete, AnswerRight,
                      Spendable, SpendsOf
  <2> QED
    BY <2>1, <2>2, <2>4, OwnStep
<1> QED
  BY <1>1, <1>2

LEMMA CompleteInfoInv ==
  ASSUME UtxoInv, NEW u \in Updaters, CompleteInfo(u)
  PROVE  UtxoInv'
<1> USE DEF CompleteInfo, addressVars, addrDbVars, updVars, scanVars
<1>1. OnlyMoves(u) /\ UtxoTypes'
  BY DEF OnlyMoves, UtxoInv, UtxoTypes, addVars
<1>2. /\ kind'[u] = "items" /\ left'[u] = seen[u] /\ answer'[u] = {}
      /\ updPc[u] = "scan"
  BY DEF UtxoInv, UtxoTypes, RequestRight, RequestStage
<1>3. RequestRight(u)'
  BY <1>2, SameQuestions DEF UtxoInv, RequestRight, RequestStage, ScansComplete, AnswerRight
<1> QED
  BY <1>1, <1>3, OwnStep

LEMMA InfoInv ==
  ASSUME UtxoInv, NEW u \in Updaters, NEW o \in left[u], Info(u, o)
  PROVE  UtxoInv'
<1> USE DEF Info, addressVars, addrDbVars, updVars, scanVars
<1>1. o \in Outputs /\ left[u] \subseteq seen[u] /\ unread[u] = {}
  BY DEF UtxoInv, UtxoTypes, RequestRight, RequestStage
<1>2. OnlyMoves(u) /\ UtxoTypes'
  BY <1>1 DEF OnlyMoves, UtxoInv, UtxoTypes, addVars
<1>3. /\ left'[u] = left[u] \ {o}
      /\ answer'[u] = IF TxOf[o] \in known /\ Spendable(u, o) THEN answer[u] \cup {o}
                                                            ELSE answer[u]
  BY DEF UtxoInv, UtxoTypes
<1>4. RequestStage(u)'
  BY <1>1, <1>3, SameQuestions DEF UtxoInv, RequestRight, RequestStage
<1>5. ScansComplete(u)'
  BY DEF UtxoInv, RequestRight, ScansComplete
<1>6. \A x : Spendable(u, x) <=> Spendable(u, x)'
  BY DEF Spendable, SpendsOf
<1>7. ASSUME <<o, TxOf[o]>> \in yes[u], ~\E p \in spent : p[1] = o PROVE o \in answer'[u]
  <2>1. TxOf[o] \in known
    BY <1>1, <1>7, OutputsAssumption DEF UtxoInv, NodeHasConfirmed
  <2>2. Spendable(u, o)
    BY <1>7 DEF UtxoInv, RequestRight, ScansComplete, Spendable, SpendsOf
  <2> QED
    BY <1>3, <2>1, <2>2
<1>8. AnswerRight(u)'
  BY <1>3, <1>6, <1>7 DEF UtxoInv, RequestRight, AnswerRight
<1> QED
  BY <1>2, <1>4, <1>5, <1>8, OwnStep DEF RequestRight

LEMMA SendUtxoInv ==
  ASSUME UtxoInv, NEW u \in Updaters, SendUtxo(u)
  PROVE  UtxoInv'
<1> USE DEF SendUtxo, UpdReturn, UpdGoto, SameForUpdate, addrDbVars
<1>1. OnlyMoves(u) /\ UtxoTypes'
  BY DEF OnlyMoves, UtxoInv, UtxoTypes, addVars
<1>2. /\ seen'[u] = {} /\ spentBy'[u] = {} /\ yes'[u] = {} /\ kind'[u] = "update"
      /\ left'[u] = {} /\ answer'[u] = {} /\ before'[u] = {}
  BY DEF UtxoInv, UtxoTypes
<1>3. RequestRight(u)'
  BY <1>2 DEF RequestRight, RequestStage, ScansComplete, AnswerRight
<1> QED
  BY <1>1, <1>2, <1>3, OwnStep

LEMMA NodeInv ==
  ASSUME UtxoInv, NEW t \in Txs, NodeLearns(t) \/ NodeDrops(t)
  PROVE  UtxoInv'
<1> USE DEF NodeLearns, NodeDrops, addressVars, addrDbVars, txVars, addVars, backVars, updVars,
            scanVars, utxoVars
<1>1. SpendsInv'
  BY SameSpends DEF UtxoInv
<1>2. UtxoTypes'
  BY DEF UtxoInv, UtxoTypes
<1>3. \A u \in Updaters : RequestRight(u)'
  BY OtherRequestKeeps DEF UtxoInv
<1>4. NodeHasConfirmed'
  BY DEF UtxoInv, NodeHasConfirmed, IsConfirmed
<1> QED
  BY <1>1, <1>2, <1>3, <1>4 DEF UtxoInv

LEMMA NextUtxoInv == UtxoInv /\ [UtxoNext]_allVars => UtxoInv'
<1> SUFFICES ASSUME UtxoInv, [UtxoNext]_allVars PROVE UtxoInv'
  OBVIOUS
<1>1. CASE UNCHANGED allVars
  <2> USE <1>1 DEF allVars, addressVars, addrDbVars, txVars, addVars, backVars, updVars,
                   scanVars, utxoVars
  <2>1. SpendsInv'
    BY SameSpends DEF UtxoInv
  <2>2. NodeHasConfirmed'
    BY DEF UtxoInv, NodeHasConfirmed, IsConfirmed
  <2> QED
    BY <2>1, <2>2, AddingStepKeeps DEF UtxoInv, UtxoTypes
<1>2. CASE UtxoNext
  BY <1>2, AddingNextInv, StartInv, UpdateGoesOnInv, FromAddrInv, CompleteInfoInv, SendUtxoInv,
     InfoInv, NodeInv DEF UtxoNext
<1> QED
  BY <1>1, <1>2

-----------------------------------------------------------------------------
LEMMA UtxoInvariant == UtxoSpec => []UtxoInv
BY InitUtxoInv, NextUtxoInv, PTL DEF UtxoSpec

(* The state of every request keeps its type: no request is answered while *)
(* a scan of its spends is out.                                            *)
THEOREM UtxoTypeCorrect == UtxoSpec => []UtxoTypeOK
<1>1. UtxoInv => UtxoTypeOK
  BY DEF UtxoInv, UtxoTypes, RequestRight, RequestStage, UtxoTypeOK
<1> QED
  BY UtxoInvariant, <1>1, PTL

(* No request for the unspent outputs of an address offers one whose spend,*)
(* confirmed or not, was on record when it came (Address.getUtxo).         *)
THEOREM SpentIsNotOffered == UtxoSpec => []UtxoUnspent
<1>1. UtxoInv => UtxoUnspent
  <2> SUFFICES ASSUME UtxoInv, NEW u \in Updaters, NEW o \in answer[u],
                      NEW p \in before[u], p[1] = o
               PROVE  FALSE
    BY DEF UtxoUnspent
  <2>1. o \in seen[u] \ unread[u]
    BY DEF UtxoInv, RequestRight, RequestStage
  <2>2. p \in spentBy[u]
    BY <2>1 DEF UtxoInv, RequestRight, ScansComplete
  <2> QED
    BY <2>2 DEF UtxoInv, RequestRight, AnswerRight, Spendable, SpendsOf
<1> QED
  BY UtxoInvariant, <1>1, PTL

(* A complete answer has every output that the scans found confirmed and   *)
(* that is not spent, although the node may not know other transactions of *)
(* the address (Address.getUtxo, fromIdInfoSimple).                        *)
THEOREM UnspentIsOffered == UtxoSpec => []UtxoComplete
<1>1. UtxoInv => UtxoComplete
  BY DEF UtxoInv, RequestRight, AnswerRight, UtxoComplete
<1> QED
  BY UtxoInvariant, <1>1, PTL

(* What an update stores is exact also next to these requests.             *)
THEOREM BalancesAreExactWithUtxo == NoDoubleSpends /\ UtxoSpec => []BalanceExact
<1> SUFFICES ASSUME NoDoubleSpends PROVE UtxoSpec => []BalanceExact
  OBVIOUS
<1>1. UtxoInv => BalanceExact
  BY ScannedIsLedger DEF UtxoInv
<1> QED
  BY UtxoInvariant, <1>1, PTL
=============================================================================
