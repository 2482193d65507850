------------------------------ MODULE AddressDb ------------------------------
(***************************************************************************)
(* The address part of the transaction database (lib/TransactionDb.js):    *)
(* add records the outputs and spends of a transaction, each in a batch of *)
(* its own, updateAddress adds up the balance of an address from several   *)
(* scans and then stores it with a ranking entry.  The two, and            *)
(* handleBlockChange, run interleaved on one database.                     *)
(***************************************************************************)
EXTENDS ConfirmDb, FiniteSets, FiniteSetsExt

CONSTANTS
  Outputs,     \* outpoints <txid>-<n> with one address and a value: the others
               \* are not recorded
  TxOf,        \* the transaction of each output
  AddrOf,      \* its address
  ValueOf,     \* its value_sat
  Spends,      \* tx.vin, the outpoints each transaction spends
  Addrs,
  Adders,      \* calls of add that may be in flight together
  Updaters,    \* calls of updateAddress that may be in flight together
  MaxChanges,  \* bound: calls of handleBlockChange in flight together
  AddFaults    \* a subset of {"dbError", "crash"}

ASSUME OutputsAssumption ==
  /\ TxOf \in [Outputs -> Txs]
  /\ AddrOf \in [Outputs -> Addrs]
  /\ ValueOf \in [Outputs -> Nat]
  /\ Spends \in [Txs -> SUBSET Outputs]
  /\ \A t \in Txs : \A o \in Spends[t] : TxOf[o] # t
  /\ Null \notin Txs \cup Addrs

VARIABLES
  (* The database.                                                         *)
  outs,      \* outputs whose txo- and txa- keys exist
  spent,     \* <<o, t>> whose txs- key exists
  toUpdate,  \* addresses whose txua-0- key exists
  updated,   \* addresses whose txua-1- key exists
  balance,   \* txab-<addr>
  ranking,   \* <<balance, addr>> whose txba- key exists
  (* Calls of add.                                                         *)
  addPc,     \* the stage of its series
  tx,
  blockhash,
  items,     \* items of the stage's forEachLimit that were not written yet
  missing,   \* of them, outputs that db.get did not find
  (* What goes on after its call has returned, or without a callback.      *)
  lookups,   \* <<t, o>>: fromTxIdN of a spent output, to flag its address
  strays,    \* <<t, o>>: items of a stage that failed
  skipped,   \* <<t, o>>: history, an output not written as db.get failed
  (* Calls of updateAddress.                                               *)
  updPc,
  addr,
  seen,      \* outputs of the address that fromAddr found
  unread,    \* of them, those whose spends were not read yet
  spentBy,   \* <<o, t>>: spends it found
  asked,     \* <<o, t>>: for o, isConfirmed(t) was answered
  yes,       \* of them, those answered true
  oldValue,  \* value: the balance that was stored
  changes    \* handleBlockChange calls in flight: <<block, isMain, txids>>

addrDbVars == <<outs, spent, toUpdate, updated, balance, ranking>>
addVars == <<addPc, tx, blockhash, items, missing>>
backVars == <<lookups, strays, skipped>>
scanVars == <<seen, unread, spentBy, asked, yes>>
updVars == <<updPc, addr, scanVars, oldValue>>
addressVars == <<txVars, addrDbVars, addVars, backVars, updVars, changes>>

OutputsOf(t) == {o \in Outputs : TxOf[o] = t}
Recorded(a) == {o \in outs : AddrOf[o] = a}

Items == Txs \X Outputs
Uses == Outputs \X Txs

AddressTypeOK ==
  /\ ConfirmDbTypeOK
  /\ outs \subseteq Outputs /\ spent \subseteq Uses
  /\ toUpdate \subseteq Addrs /\ updated \subseteq Addrs
  /\ balance \in [Addrs -> Nat \cup {Null}]
  /\ ranking \subseteq Nat \X Addrs
  /\ addPc \in [Adders -> {"idle", "vin", "vout", "confirm"}]
  /\ tx \in [Adders -> Txs \cup {Null}]
  /\ blockhash \in [Adders -> Blocks \cup {Null}]
  /\ items \in [Adders -> SUBSET Outputs] /\ missing \in [Adders -> SUBSET Outputs]
  /\ lookups \subseteq Items /\ strays \subseteq Items /\ skipped \subseteq Items
  /\ updPc \in [Updaters -> {"idle", "scan", "write"}]
  /\ addr \in [Updaters -> Addrs \cup {Null}]
  /\ seen \in [Updaters -> SUBSET Outputs] /\ unread \in [Updaters -> SUBSET Outputs]
  /\ spentBy \in [Updaters -> SUBSET Uses]
  /\ asked \in [Updaters -> SUBSET Uses] /\ yes \in [Updaters -> SUBSET Uses]
  /\ oldValue \in [Updaters -> Nat \cup {Null}]
  /\ changes \subseteq Blocks \X BOOLEAN \X SUBSET Txs

AddressInit ==
  /\ ConfirmDbInit
  /\ outs = {} /\ spent = {} /\ toUpdate = {} /\ updated = {}
  /\ balance = [a \in Addrs |-> Null] /\ ranking = {}
  /\ addPc = [d \in Adders |-> "idle"] /\ tx = [d \in Adders |-> Null]
  /\ blockhash = [d \in Adders |-> Null]
  /\ items = [d \in Adders |-> {}] /\ missing = [d \in Adders |-> {}]
  /\ lookups = {} /\ strays = {} /\ skipped = {}
  /\ updPc = [u \in Updaters |-> "idle"] /\ addr = [u \in Updaters |-> Null]
  /\ seen = [u \in Updaters |-> {}] /\ unread = [u \in Updaters |-> {}]
  /\ spentBy = [u \in Updaters |-> {}]
  /\ asked = [u \in Updaters |-> {}] /\ yes = [u \in Updaters |-> {}]
  /\ oldValue = [u \in Updaters |-> Null]
  /\ changes = {}

-----------------------------------------------------------------------------
(* add                                                                     *)

AddReturn(d) ==
  /\ addPc' = [addPc EXCEPT ![d] = "idle"] /\ tx' = [tx EXCEPT ![d] = Null]
  /\ blockhash' = [blockhash EXCEPT ![d] = Null]
  /\ items' = [items EXCEPT ![d] = {}] /\ missing' = [missing EXCEPT ![d] = {}]

(* A transaction of block b, or with b = Null one announced on its own.    *)
(* Its inputs are looked up and written concurrently.                      *)
AddTx(d, t, b) ==
  /\ addPc[d] = "idle"
  /\ IF b = Null THEN t # GenesisTx ELSE t \in Wanted(b)
  /\ addPc' = [addPc EXCEPT ![d] = "vin"] /\ tx' = [tx EXCEPT ![d] = t]
  /\ blockhash' = [blockhash EXCEPT ![d] = b]
  /\ items' = [items EXCEPT ![d] = Spends[t]]
  /\ lookups' = lookups \cup ({t} \X Spends[t])
  /\ UNCHANGED <<txVars, addrDbVars, missing, strays, skipped, updVars, changes>>

PutSpent(t, o) ==
  /\ spent' = spent \cup {<<o, t>>}
  /\ UNCHANGED <<outs, toUpdate, updated, balance, ranking>>

(* Mutant: a new output does not flag its address.                         *)
PutOutputUnflagged(o) ==
  /\ outs' = outs \cup {o}
  /\ UNCHANGED <<spent, toUpdate, updated, balance, ranking>>

(* One batch: txo-, txa- and the flag.                                     *)
PutOutput(o) ==
  /\ outs' = outs \cup {o}
  /\ toUpdate' = toUpdate \cup {AddrOf[o]}
  /\ UNCHANGED <<spent, updated, balance, ranking>>

(* The lookup of a spent output never calls back; an output that is not    *)
(* recorded is only logged.  Outputs are never removed, so reading one and *)
(* flagging its address is one step, which may fail.                       *)
FlagSpender(t, o) ==
  /\ <<t, o>> \in lookups
  /\ lookups' = lookups \ {<<t, o>>}
  /\ \/ toUpdate' = IF o \in outs THEN toUpdate \cup {AddrOf[o]} ELSE toUpdate
     \/ "dbError" \in AddFaults /\ UNCHANGED toUpdate
  /\ UNCHANGED <<txVars, outs, spent, updated, balance, ranking, addVars,
                 strays, skipped, updVars, changes>>

WriteSpent(d, o) ==
  /\ addPc[d] = "vin" /\ o \in items[d]
  /\ PutSpent(tx[d], o)
  /\ items' = [items EXCEPT ![d] = @ \ {o}]
  /\ UNCHANGED <<txVars, addPc, tx, blockhash, missing, backVars, updVars, changes>>

VinDone(d) ==
  /\ addPc[d] = "vin" /\ items[d] = {}
  /\ addPc' = [addPc EXCEPT ![d] = "vout"]
  /\ items' = [items EXCEPT ![d] = OutputsOf(tx[d])]
  /\ UNCHANGED <<txVars, addrDbVars, tx, blockhash, missing, backVars, updVars, changes>>

(* "existed?"  An output that is recorded is not written again, nor its    *)
(* address flagged; any error but notFound reads as recorded.              *)
GetOutput(d, o) ==
  /\ addPc[d] = "vout" /\ o \in items[d] \ missing[d]
  /\ \/ o \notin outs
        /\ missing' = [missing EXCEPT ![d] = @ \cup {o}]
        /\ UNCHANGED <<items, skipped>>
     \/ o \in outs
        /\ items' = [items EXCEPT ![d] = @ \ {o}]
        /\ UNCHANGED <<missing, skipped>>
     \/ "dbError" \in AddFaults
        /\ items' = [items EXCEPT ![d] = @ \ {o}]
        /\ skipped' = skipped \cup {<<tx[d], o>>}
        /\ UNCHANGED missing
  /\ UNCHANGED <<txVars, addrDbVars, addPc, tx, blockhash, lookups, strays, updVars, changes>>

WriteOutput(d, o) ==
  /\ addPc[d] = "vout" /\ o \in missing[d]
  /\ PutOutput(o)
  /\ items' = [items EXCEPT ![d] = @ \ {o}]
  /\ missing' = [missing EXCEPT ![d] = @ \ {o}]
  /\ UNCHANGED <<txVars, addPc, tx, blockhash, backVars, updVars, changes>>

(* The third stage, or the end of add.                                     *)
AfterVout(d) ==
  /\ IF blockhash[d] = Null
     THEN AddReturn(d)
     ELSE /\ addPc' = [addPc EXCEPT ![d] = "confirm"]
          /\ UNCHANGED <<tx, blockhash, items, missing>>
  /\ UNCHANGED <<txVars, addrDbVars, backVars, updVars, changes>>

(* Mutant: the batches of the outputs are not waited for.                  *)
VoutDoneEarly(d) == addPc[d] = "vout" /\ AfterVout(d)

VoutDone(d) == addPc[d] = "vout" /\ items[d] = {} /\ AfterVout(d)

Confirm(d) ==
  /\ addPc[d] = "confirm"
  /\ SetConfirmation(tx[d], blockhash[d])
  /\ AddReturn(d)
  /\ UNCHANGED <<addrDbVars, backVars, updVars, changes>>

(* A batch fails: add calls back, its other items go on.                   *)
AddFails(d) ==
  /\ "dbError" \in AddFaults /\ addPc[d] # "idle"
  /\ \/ \E failed \in items[d] : strays' = strays \cup ({tx[d]} \X (items[d] \ {failed}))
     \/ addPc[d] = "confirm" /\ UNCHANGED strays
  /\ AddReturn(d)
  /\ UNCHANGED <<txVars, addrDbVars, lookups, skipped, updVars, changes>>

StrayItem(t, o) ==
  /\ <<t, o>> \in strays
  /\ strays' = strays \ {<<t, o>>}
  /\ \/ UNCHANGED addrDbVars
     \/ TxOf[o] = t /\ PutOutput(o)
     \/ TxOf[o] # t /\ PutSpent(t, o)
  /\ UNCHANGED <<txVars, addVars, lookups, skipped, updVars, changes>>

-----------------------------------------------------------------------------
(* handleBlockChange: a scan of tx- keys, then one batch of txb- keys.     *)

HandleBlockChange(b, isMain) ==
  /\ Cardinality(changes) < MaxChanges
  /\ changes' = changes \cup {<<b, isMain, TxsFromBlock(b)>>}
  /\ UNCHANGED <<txVars, addrDbVars, addVars, backVars, updVars>>

WriteBlockChange(ch) ==
  /\ WriteConfirmations(ch[1], ch[3], ch[2])
  /\ changes' = changes \ {ch}
  /\ UNCHANGED <<addrDbVars, addVars, backVars, updVars>>

LoseBlockChange(ch) ==
  /\ "dbError" \in AddFaults
  /\ changes' = changes \ {ch}
  /\ UNCHANGED <<txVars, addrDbVars, addVars, backVars, updVars>>

-----------------------------------------------------------------------------
(* updateAddress                                                           *)

UpdGoto(u, stage) == updPc' = [updPc EXCEPT ![u] = stage]
SameForUpdate == UNCHANGED <<txVars, addVars, backVars, changes>>

UpdReturn(u) ==
  /\ UpdGoto(u, "idle") /\ addr' = [addr EXCEPT ![u] = Null]
  /\ seen' = [seen EXCEPT ![u] = {}] /\ spentBy' = [spentBy EXCEPT ![u] = {}]
  /\ asked' = [asked EXCEPT ![u] = {}] /\ yes' = [yes EXCEPT ![u] = {}]
  /\ oldValue' = [oldValue EXCEPT ![u] = Null]
  /\ UNCHANGED unread

(* The call and the first scan of fromAddr: the outputs of the address.    *)
UpdateAddress(u, a) ==
  /\ updPc[u] = "idle"
  /\ UpdGoto(u, "scan")
  /\ addr' = [addr EXCEPT ![u] = a]
  /\ seen' = [seen EXCEPT ![u] = Recorded(a)]
  /\ unread' = [unread EXCEPT ![u] = Recorded(a)]
  /\ UNCHANGED <<addrDbVars, spentBy, asked, yes, oldValue>> /\ SameForUpdate

(* Then, concurrently, the spends of each.                                 *)
ScanSpent(u, o) ==
  /\ updPc[u] = "scan" /\ o \in unread[u]
  /\ unread' = [unread EXCEPT ![u] = @ \ {o}]
  /\ spentBy' = [spentBy EXCEPT ![u] = @ \cup {p \in spent : p[1] = o}]
  /\ UNCHANGED <<addrDbVars, updPc, addr, seen, asked, yes, oldValue>> /\ SameForUpdate

(* The error of such a scan is dropped, with what the scan would have found*)
(* (and, as the first error ends the loop, what others still would find).  *)
MissSpent(u, o) ==
  /\ "dbError" \in AddFaults
  /\ updPc[u] = "scan" /\ o \in unread[u]
  /\ unread' = [unread EXCEPT ![u] = @ \ {o}]
  /\ UNCHANGED <<addrDbVars, updPc, addr, seen, spentBy, asked, yes, oldValue>> /\ SameForUpdate

(* fillConfirmations asks for the transaction of each output and for the   *)
(* one that spends it.  Of several that do (multipleSpentAttempts) it asks *)
(* for none: it reads spentTxId of entries that have only txid.            *)
OnlySpend(p, spends) == p \in spends /\ \A q \in spends : q[1] = p[1] => q = p

Questions(u) ==
  {p \in Uses : /\ p[1] \in seen[u]
                /\ p[2] = TxOf[p[1]] \/ OnlySpend(p, spentBy[u])}

AskConfirmed(u, p) ==
  /\ updPc[u] = "scan" /\ unread[u] = {}
  /\ p \in Questions(u) \ asked[u]
  /\ asked' = [asked EXCEPT ![u] = @ \cup {p}]
  /\ yes' = [yes EXCEPT ![u] = IF IsConfirmed(p[2]) THEN @ \cup {p} ELSE @]
  /\ UNCHANGED <<addrDbVars, updPc, addr, seen, unread, spentBy, oldValue>> /\ SameForUpdate

(* isConfirmed fails: updateAddress is called back at once, reports the    *)
(* error and goes on with the answers it has.                              *)
MissAnswer(u) ==
  /\ "dbError" \in AddFaults
  /\ updPc[u] = "scan" /\ unread[u] = {} /\ ~(Questions(u) \subseteq asked[u])
  /\ asked' = [asked EXCEPT ![u] = Questions(u)]
  /\ UNCHANGED <<addrDbVars, updPc, addr, seen, unread, spentBy, yes, oldValue>> /\ SameForUpdate

(* The db.get of the old balance, whose error reads as no balance.         *)
GetOldBalance(u) ==
  /\ updPc[u] = "scan" /\ unread[u] = {}
  /\ Questions(u) \subseteq asked[u]
  /\ UpdGoto(u, "write")
  /\ \/ oldValue' = [oldValue EXCEPT ![u] = balance[addr[u]]]
     \/ "dbError" \in AddFaults /\ oldValue' = [oldValue EXCEPT ![u] = Null]
  /\ UNCHANGED <<addrDbVars, addr, scanVars>> /\ SameForUpdate

Total(outputs) == MapThenSumSet(LAMBDA o : ValueOf[o], outputs)

(* Mutant: an unconfirmed spend counts.                                    *)
CountedHasty(u) ==
  {o \in seen[u] : <<o, TxOf[o]>> \in yes[u] /\ ~\E t \in Txs : <<o, t>> \in spentBy[u]}

(* balanceSat: confirmed outputs whose spend is not known to be confirmed. *)
Counted(u) ==
  {o \in seen[u] : /\ <<o, TxOf[o]>> \in yes[u]
                   /\ ~\E t \in Txs : <<o, t>> \in spentBy[u] \cap yes[u]}

BalanceSat(u) == Total(Counted(u))

(* Mutants: the entry is written before the old one is deleted; the entry  *)
(* is written with the balance that was read.                              *)
RankLate(u, sat) == (ranking \cup {<<sat, addr[u]>>}) \ {<<oldValue[u], addr[u]>>}
RankOld(u, sat) == ranking \cup {<<oldValue[u], addr[u]>>}

RankAfter(u, sat) == (ranking \ {<<oldValue[u], addr[u]>>}) \cup {<<sat, addr[u]>>}

(* One batch.  The flag goes, whatever set it since the scan.              *)
WriteBalance(u) ==
  /\ updPc[u] = "write"
  /\ ranking' = RankAfter(u, BalanceSat(u))
  /\ balance' = [balance EXCEPT ![addr[u]] = BalanceSat(u)]
  /\ toUpdate' = toUpdate \ {addr[u]}
  /\ updated' = updated \cup {addr[u]}
  /\ UpdReturn(u)
  /\ UNCHANGED <<outs, spent>> /\ SameForUpdate

WriteFails(u) ==
  /\ "dbError" \in AddFaults /\ updPc[u] = "write"
  /\ UpdReturn(u)
  /\ UNCHANGED addrDbVars /\ SameForUpdate

(* refreshAllAddresses, for one address it finds.                          *)
RefreshAddress(a) ==
  /\ a \in updated
  /\ updated' = updated \ {a} /\ toUpdate' = toUpdate \cup {a}
  /\ UNCHANGED <<outs, spent, balance, ranking, updVars>> /\ SameForUpdate

-----------------------------------------------------------------------------
(* The process stops and starts again.  (It also does after an error of the*)
(* first scan of an update, which goes on with undefined.)                 *)
AddressCrash ==
  /\ "crash" \in AddFaults
  /\ addPc' = [d \in Adders |-> "idle"] /\ tx' = [d \in Adders |-> Null]
  /\ blockhash' = [d \in Adders |-> Null]
  /\ items' = [d \in Adders |-> {}] /\ missing' = [d \in Adders |-> {}]
  /\ lookups' = {} /\ strays' = {} /\ changes' = {}
  /\ updPc' = [u \in Updaters |-> "idle"] /\ addr' = [u \in Updaters |-> Null]
  /\ seen' = [u \in Updaters |-> {}] /\ unread' = [u \in Updaters |-> {}]
  /\ spentBy' = [u \in Updaters |-> {}]
  /\ asked' = [u \in Updaters |-> {}] /\ yes' = [u \in Updaters |-> {}]
  /\ oldValue' = [u \in Updaters |-> Null]
  /\ UNCHANGED <<txVars, addrDbVars, skipped>>

AddStep(d) ==
  \/ \E o \in Outputs : WriteSpent(d, o) \/ GetOutput(d, o) \/ WriteOutput(d, o)
  \/ VinDone(d) \/ VoutDone(d) \/ Confirm(d) \/ AddFails(d)

UpdateStep(u) ==
  \/ \E o \in unread[u] : ScanSpent(u, o) \/ MissSpent(u, o)
  \/ \E p \in Uses : AskConfirmed(u, p)
  \/ MissAnswer(u) \/ GetOldBalance(u) \/ WriteBalance(u) \/ WriteFails(u)

AddressNext ==
  \/ \E d \in Adders, t \in Txs, b \in Blocks \cup {Null} : AddTx(d, t, b)
  \/ \E d \in Adders : AddStep(d)
  \/ \E p \in lookups : FlagSpender(p[1], p[2])
  \/ \E p \in strays : StrayItem(p[1], p[2])
  \/ \E b \in Blocks, isMain \in BOOLEAN : HandleBlockChange(b, isMain)
  \/ \E ch \in changes : WriteBlockChange(ch) \/ LoseBlockChange(ch)
  \/ \E u \in Updaters, a \in Addrs : UpdateAddress(u, a)
  \/ \E u \in Updaters : UpdateStep(u)
  \/ \E a \in Addrs : RefreshAddress(a)
  \/ AddressCrash

AddressSpec == AddressInit /\ [][AddressNext]_addressVars
=============================================================================
