----------------------------- MODULE AddressUtxo -----------------------------
(***************************************************************************)
(* The requests for the unspent outputs of an address (Address.getUtxo of  *)
(* app/models/Address.js), next to the updates of its balance: both begin  *)
(* with TransactionDb.fromAddr, that is with the actions UpdateAddress (the*)
(* first scan), ScanSpent and AskConfirmed of AddressDb.  getUtxo then asks*)
(* the node for the transaction of each output, while transactions arrive. *)
(***************************************************************************)
EXTENDS AddressProps

VARIABLES
  known,   \* transactions the node knows
  kind,    \* what each call of fromAddr is for
  left,    \* outputs whose transaction was not answered yet
  answer,  \* ret: the outputs that will be sent
  before   \* history: spends that were on record when the request came

utxoVars == <<kind, left, answer, before>>
allVars == <<addressVars, known, utxoVars>>

UtxoTypeOK ==
  /\ known \subseteq Txs
  /\ kind \in [Updaters -> {"update", "utxo", "items"}]
  /\ left \in [Updaters -> SUBSET Outputs]
  /\ answer \in [Updaters -> SUBSET Outputs]
  /\ before \in [Updaters -> SUBSET Uses]
  /\ \A u \in Updaters : left[u] \cup answer[u] \subseteq seen[u]
  /\ \A u \in Updaters : kind[u] = "items" => unread[u] = {}

UtxoInit ==
  /\ AddressInit
  /\ known = {}
  /\ kind = [u \in Updaters |-> "update"]
  /\ left = [u \in Updaters |-> {}]
  /\ answer = [u \in Updaters |-> {}]
  /\ before = [u \in Updaters |-> {}]

-----------------------------------------------------------------------------
Update(u, a) ==
  /\ UpdateAddress(u, a)
  /\ UNCHANGED <<known, utxoVars>>

UpdateGoesOn(u) ==
  /\ kind[u] = "update"
  /\ GetOldBalance(u) \/ WriteBalance(u)
  /\ UNCHANGED <<known, utxoVars>>

GetUtxo(u, a) ==
  /\ UpdateAddress(u, a)
  /\ kind' = [kind EXCEPT ![u] = "utxo"]
  /\ before' = [before EXCEPT ![u] = spent]
  /\ UNCHANGED <<known, left, answer>>

FromAddr(u) ==
  /\ \/ \E o \in unread[u] : ScanSpent(u, o)
     \/ \E p \in Uses : AskConfirmed(u, p)
  /\ UNCHANGED <<known, utxoVars>>

(* Mutant: the scans of the spends are not waited for.                     *)
CompleteInfoEarly(u) ==
  /\ kind[u] = "utxo"
  /\ kind' = [kind EXCEPT ![u] = "items"]
  /\ left' = [left EXCEPT ![u] = seen[u]]
  /\ UNCHANGED <<addressVars, known, answer, before>>

(* fromAddr calls back; the transactions are asked for concurrently.       *)
CompleteInfo(u) ==
  /\ kind[u] = "utxo" /\ unread[u] = {} /\ Questions(u) \subseteq asked[u]
  /\ kind' = [kind EXCEPT ![u] = "items"]
  /\ left' = [left EXCEPT ![u] = seen[u]]
  /\ UNCHANGED <<addressVars, known, answer, before>>

SpendsOf(u, o) == {p \in spentBy[u] : p[1] = o}

(* Mutant: only confirmed spends count, "add || !txItem.spentIsConfirmed". *)
SpendableIfUnconfirmed(u, o) == SpendsOf(u, o) \cap yes[u] = {}

(* "we are filtering out even unconfirmed spents!"                         *)
Spendable(u, o) == SpendsOf(u, o) = {}

(* Mutant: an output that the node does not know ends the request.         *)
InfoEnds(u, o) ==
  /\ kind[u] = "items" /\ o \in left[u]
  /\ left' = [left EXCEPT ![u] = IF TxOf[o] \in known THEN @ \ {o} ELSE {}]
  /\ answer' = [answer EXCEPT
       ![u] = IF TxOf[o] \in known /\ Spendable(u, o) THEN @ \cup {o} ELSE @]
  /\ UNCHANGED <<addressVars, known, kind, before>>

(* fromIdInfoSimple: an output whose transaction the node does not know is *)
(* left out.                                                               *)
Info(u, o) ==
  /\ kind[u] = "items" /\ o \in left[u]
  /\ left' = [left EXCEPT ![u] = @ \ {o}]
  /\ answer' = [answer EXCEPT
       ![u] = IF TxOf[o] \in known /\ Spendable(u, o) THEN @ \cup {o} ELSE @]
  /\ UNCHANGED <<addressVars, known, kind, before>>

(* The answer is sent.                                                     *)
SendUtxo(u) ==
  /\ kind[u] = "items" /\ left[u] = {}
  /\ UpdReturn(u)
  /\ kind' = [kind EXCEPT ![u] = "update"]
  /\ answer' = [answer EXCEPT ![u] = {}]
  /\ before' = [before EXCEPT ![u] = {}]
  /\ UNCHANGED <<addrDbVars, known, left>> /\ SameForUpdate

(* A transaction reaches the node, and from it this program; the node drops*)
(* one only if it is in no block.                                          *)
NodeLearns(t) ==
  /\ known' = known \cup {t}
  /\ UNCHANGED <<addressVars, utxoVars>>

NodeDrops(t) ==
  /\ ~IsConfirmed(t) /\ ~\E d \in Adders : tx[d] = t /\ blockhash[d] # Null
  /\ known' = known \ {t}
  /\ UNCHANGED <<addressVars, utxoVars>>

UtxoNext ==
  \/ \E d \in Adders, t \in known, b \in Blocks \cup {Null} :
       AddTx(d, t, b) /\ UNCHANGED <<known, utxoVars>>
  \/ \E d \in Adders : AddStep(d) /\ UNCHANGED <<known, utxoVars>>
  \/ \E p \in lookups : FlagSpender(p[1], p[2]) /\ UNCHANGED <<known, utxoVars>>
  \/ \E u \in Updaters, a \in Addrs : Update(u, a) \/ GetUtxo(u, a)
  \/ \E u \in Updaters : UpdateGoesOn(u) \/ FromAddr(u) \/ CompleteInfo(u) \/ SendUtxo(u)
  \/ \E u \in Updaters : \E o \in left[u] : Info(u, o)
  \/ \E t \in Txs : NodeLearns(t) \/ NodeDrops(t)

UtxoSpec == UtxoInit /\ [][UtxoNext]_allVars

-----------------------------------------------------------------------------
(* No output is offered for spending whose spend, confirmed or not, was on *)
(* record when the request came.  (One that is recorded while the node is  *)
(* asked may be offered.)                                                  *)
UtxoUnspent ==
  \A u \in Updaters : \A o \in answer[u] : ~\E p \in before[u] : p[1] = o

(* When the answer is complete it offers every output of the address that  *)
(* fromAddr found confirmed and that is not spent now: outputs the node    *)
(* does not know are left out one by one, and end nothing.                 *)
UtxoComplete ==
  \A u \in Updaters : kind[u] = "items" /\ left[u] = {} =>
    \A o \in seen[u] :
      <<o, TxOf[o]>> \in yes[u] /\ ~(\E p \in spent : p[1] = o) => o \in answer[u]
=============================================================================
