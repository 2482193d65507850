-------------------------------- MODULE Sync --------------------------------
(***************************************************************************)
(* Sync.storeTipBlock (lib/Sync.js): the handler that stores a block, and  *)
(* on a reorganisation moves the main flags from the old branch to the new *)
(* one.  It is a chain of asynchronous database operations: every action   *)
(* below is the effect of one of them, together with the callback that     *)
(* picks the next one, and pc[c] names the operation in flight.  Nothing   *)
(* serialises two calls, so Callers may have several calls in flight.      *)
(***************************************************************************)
EXTENDS BlockDb, ConfirmDb

CONSTANTS
  Callers,     \* calls of storeTipBlock that may be in flight together
  AllowModes,  \* the values of allowReorgs that the callers pass
  Faults       \* what may go wrong: a subset of AllFaults

AllFaults == {"rpcMiss",   \* the node does not know a transaction
              "rpcError",  \* the node does not answer
              "dbError",   \* a database operation fails
              "crash",     \* the process stops; the database survives
              (* Used in Insight only.                                     *)
              "restart",     \* the process stops when nothing is in flight
              "disconnect"}  \* announced blocks are lost

ASSUME SyncAssumption ==
  /\ AllowModes \subseteq BOOLEAN
  /\ Faults \subseteq AllFaults

(* The operations of storeTipBlock, processReorg, setBranchConnected-      *)
(* Backwards and setBranchOrphan, in the order of the source.              *)
StoreOps == {"hasBlock", "hasPrev", "createTxs", "getTip", "getNext", "add"}
ReorgOps == {"reorgIsMain", "connMain", "connScan", "connTxs", "connPrev",
             "connIsMain", "forkNext", "forkLink",
             "orphMain", "orphScan", "orphTxs", "orphNext"}
LinkOps  == {"setTip", "setNext"}
Ops == StoreOps \cup ReorgOps \cup LinkOps

VARIABLES
  pc,           \* the operation in flight of each call, or "idle"
  (* The local variables of each call.                                     *)
  blk,          \* b
  allowReorgs,
  needReorg,
  oldNext,
  todo,         \* pending items of forEachLimit; toChange of handleBlockChange
  it,           \* hashInterator
  last,         \* lastHash
  from,         \* orphanizeFrom
  (* Not of one call.                                                      *)
  stray,        \* <<t, b>>: items of an aborted createFromArray still running
  missed        \* <<b, t>>: history, t was skipped as the node answered nothing

argVars  == <<blk, allowReorgs>>
tipVars  == <<needReorg, oldNext>>
walkVars == <<it, last, from>>
callVars == <<argVars, tipVars, todo, walkVars>>

vars == <<blockVars, txVars, pc, callVars, stray, missed>>

TypeOK ==
  /\ BlockDbTypeOK
  /\ ConfirmDbTypeOK
  /\ pc \in [Callers -> Ops \cup {"idle"}]
  /\ blk \in [Callers -> Blocks \cup {Null}]
  /\ allowReorgs \in [Callers -> BOOLEAN]
  /\ needReorg \in [Callers -> BOOLEAN]
  /\ oldNext \in [Callers -> Hashes]
  /\ todo \in [Callers -> SUBSET Txs]
  /\ it \in [Callers -> Hashes]
  /\ last \in [Callers -> Hashes]
  /\ from \in [Callers -> Hashes]
  /\ \A c \in Callers : pc[c] # "idle" => blk[c] \in Blocks
  /\ stray \in SUBSET (Txs \X Blocks)
  /\ missed \in SUBSET (Blocks \X Txs)

Init ==
  /\ BlockDbInit
  /\ ConfirmDbInit
  /\ pc = [c \in Callers |-> "idle"]
  /\ blk = [c \in Callers |-> Null]
  /\ allowReorgs = [c \in Callers |-> FALSE]
  /\ needReorg = [c \in Callers |-> FALSE]
  /\ oldNext = [c \in Callers |-> Null]
  /\ todo = [c \in Callers |-> {}]
  /\ it = [c \in Callers |-> Null]
  /\ last = [c \in Callers |-> Null]
  /\ from = [c \in Callers |-> Null]
  /\ stray = {}
  /\ missed = {}

-----------------------------------------------------------------------------
NewPrev(c) == Parent[blk[c]]

Goto(c, op) == pc' = [pc EXCEPT ![c] = op]

(* The final callback, with or without an error.                           *)
Return(c) ==
  /\ Goto(c, "idle")
  /\ blk' = [blk EXCEPT ![c] = Null]
  /\ allowReorgs' = [allowReorgs EXCEPT ![c] = FALSE]
  /\ needReorg' = [needReorg EXCEPT ![c] = FALSE]
  /\ oldNext' = [oldNext EXCEPT ![c] = Null]
  /\ todo' = [todo EXCEPT ![c] = {}]
  /\ it' = [it EXCEPT ![c] = Null]
  /\ last' = [last EXCEPT ![c] = Null]
  /\ from' = [from EXCEPT ![c] = Null]

SameDb == UNCHANGED <<blockVars, txVars>>
SameBackground == UNCHANGED <<stray, missed>>

-----------------------------------------------------------------------------
(* storeTipBlock                                                           *)

Call(c, b, allow) ==
  /\ pc[c] = "idle"
  /\ Goto(c, "hasBlock")
  /\ blk' = [blk EXCEPT ![c] = b]
  /\ allowReorgs' = [allowReorgs EXCEPT ![c] = allow]
  /\ UNCHANGED <<tipVars, todo, walkVars>>
  /\ SameDb /\ SameBackground

(* createFromArray starts, after its prechecks.                            *)
BeginTxs(c) ==
  /\ Goto(c, "createTxs")
  /\ todo' = [todo EXCEPT ![c] = Wanted(blk[c])]
  /\ UNCHANGED <<argVars, tipVars, walkVars>>

(* A block that exists is answered with a WARN error, which the final      *)
(* callback turns into success.  In HasPrev the answer is NEED_SYNC.       *)
HasBlock(c) ==
  /\ pc[c] = "hasBlock"
  /\ \/ Has(blk[c]) /\ Return(c)
     \/ ~Has(blk[c]) /\ allowReorgs[c] /\ Goto(c, "hasPrev") /\ UNCHANGED callVars
     \/ ~Has(blk[c]) /\ ~allowReorgs[c] /\ BeginTxs(c)
  /\ SameDb /\ SameBackground

PrevMissing(c) == ~Has(NewPrev(c)) /\ NewPrev(c) # Zero

(* Mutant: no NEED_SYNC.                                                   *)
HasPrevUnchecked(c) == pc[c] = "hasPrev" /\ BeginTxs(c) /\ SameDb /\ SameBackground

HasPrev(c) ==
  /\ pc[c] = "hasPrev"
  /\ \/ PrevMissing(c) /\ Return(c)
     \/ ~PrevMissing(c) /\ BeginTxs(c)
  /\ SameDb /\ SameBackground

(* The transactions of the block are fetched and added concurrently; an    *)
(* item that the node answers with nothing is skipped without an error.    *)
StoreTx(c, t) ==
  /\ pc[c] = "createTxs" /\ t \in todo[c]
  /\ SetConfirmation(t, blk[c])
  /\ todo' = [todo EXCEPT ![c] = @ \ {t}]
  /\ UNCHANGED <<argVars, tipVars, walkVars, blockVars, pc, stray, missed>>

MissTx(c, t) ==
  /\ pc[c] = "createTxs" /\ t \in todo[c]
  /\ "rpcMiss" \in Faults
  /\ missed' = missed \cup {<<blk[c], t>>}
  /\ todo' = [todo EXCEPT ![c] = @ \ {t}]
  /\ UNCHANGED <<argVars, tipVars, walkVars>>
  /\ SameDb /\ UNCHANGED <<pc, stray>>

(* The first error ends the call; the other items go on in the background. *)
FailTx(c, t) ==
  /\ pc[c] = "createTxs" /\ t \in todo[c]
  /\ Faults \cap {"rpcError", "dbError"} # {}
  /\ stray' = stray \cup ((todo[c] \ {t}) \X {blk[c]})
  /\ Return(c)
  /\ SameDb /\ UNCHANGED missed

(* Mutant: add does not wait for the transactions.                         *)
TxsStoredEarly(c) ==
  /\ pc[c] = "createTxs"
  /\ Goto(c, IF allowReorgs[c] THEN "getTip" ELSE "add")
  /\ SameDb /\ SameBackground /\ UNCHANGED callVars

TxsStored(c) ==
  /\ pc[c] = "createTxs" /\ todo[c] = {}
  /\ Goto(c, IF allowReorgs[c] THEN "getTip" ELSE "add")
  /\ SameDb /\ SameBackground /\ UNCHANGED callVars

StrayTx(t, b) ==
  /\ <<t, b>> \in stray
  /\ stray' = stray \ {<<t, b>>}
  /\ \/ SetConfirmation(t, b)
     \/ Faults \cap {"rpcError", "rpcMiss", "dbError"} # {} /\ UNCHANGED txVars
  /\ UNCHANGED <<blockVars, pc, callVars, missed>>

(* Mutant: every block on top of a tip is a reorg.                         *)
GetTipAlwaysReorg(c) ==
  /\ pc[c] = "getTip"
  /\ needReorg' = [needReorg EXCEPT ![c] = tip # Null]
  /\ UNCHANGED <<argVars, oldNext, todo, walkVars>>
  /\ Goto(c, IF tip # Null THEN "getNext" ELSE "add")
  /\ SameDb /\ SameBackground

GetTip(c) ==
  /\ pc[c] = "getTip"
  /\ LET reorg == tip # Null /\ NewPrev(c) # tip
     IN /\ needReorg' = [needReorg EXCEPT ![c] = reorg]
        /\ Goto(c, IF reorg THEN "getNext" ELSE "add")
  /\ UNCHANGED <<argVars, oldNext, todo, walkVars>>
  /\ SameDb /\ SameBackground

GetNext(c) ==
  /\ pc[c] = "getNext"
  /\ oldNext' = [oldNext EXCEPT ![c] = next[NewPrev(c)]]
  /\ UNCHANGED <<argVars, needReorg, todo, walkVars>>
  /\ Goto(c, "add")
  /\ SameDb /\ SameBackground

Add(c) ==
  /\ pc[c] = "add"
  /\ AddBlock(blk[c])
  /\ Goto(c, IF needReorg[c] THEN "reorgIsMain"
             ELSE IF allowReorgs[c] THEN "setTip" ELSE "setNext")
  /\ UNCHANGED <<txVars, callVars>> /\ SameBackground

SetTipStep(c) ==
  /\ pc[c] = "setTip"
  /\ SetTip(blk[c])
  /\ Goto(c, "setNext")
  /\ UNCHANGED <<txVars, callVars>> /\ SameBackground

(* Mutant: only a new tip is linked.                                       *)
SetNextTipOnly(c) ==
  /\ pc[c] = "setNext"
  /\ IF allowReorgs[c] THEN SetNext(NewPrev(c), blk[c]) ELSE UNCHANGED blockVars
  /\ Return(c)
  /\ UNCHANGED txVars /\ SameBackground

SetNextStep(c) ==
  /\ pc[c] = "setNext"
  /\ SetNext(NewPrev(c), blk[c])
  /\ Return(c)
  /\ UNCHANGED txVars /\ SameBackground

-----------------------------------------------------------------------------
(* processReorg                                                            *)

(* setBranchConnectedBackwards(newPrev), Case 2.                           *)
BeginConnect(c) ==
  /\ Goto(c, "connMain")
  /\ it' = [it EXCEPT ![c] = NewPrev(c)]
  /\ last' = [last EXCEPT ![c] = NewPrev(c)]
  /\ UNCHANGED <<argVars, tipVars, todo, from>>

(* setBranchOrphan(h), or straight to setTip when there is no h.           *)
BeginOrphan(c, h) ==
  /\ Goto(c, IF h = Null THEN "setTip" ELSE "orphMain")
  /\ it' = [it EXCEPT ![c] = h]
  /\ UNCHANGED <<argVars, tipVars, todo, last, from>>

(* Case 1 needs both: newPrev is main, and it had a next block.            *)
ReorgIsMain(c) ==
  /\ pc[c] = "reorgIsMain"
  /\ IF IsMain(NewPrev(c)) /\ oldNext[c] # Null
     THEN BeginOrphan(c, oldNext[c])
     ELSE BeginConnect(c)
  /\ SameDb /\ SameBackground

(* setBlockMain: the flag, then handleBlockChange, which reads the keys of *)
(* the block's transactions and rewrites them in a batch of its own.       *)
FlagBlock(c, isMain, op) ==
  /\ SetMain(it[c], isMain)
  /\ Goto(c, op)
  /\ UNCHANGED <<txVars, callVars>> /\ SameBackground

ScanTxs(c, op) ==
  /\ todo' = [todo EXCEPT ![c] = TxsFromBlock(it[c])]
  /\ UNCHANGED <<argVars, tipVars, walkVars>>
  /\ Goto(c, op)
  /\ SameDb /\ SameBackground

WriteTxs(c, isMain, op) ==
  /\ WriteConfirmations(it[c], todo[c], isMain)
  /\ todo' = [todo EXCEPT ![c] = {}]
  /\ UNCHANGED <<argVars, tipVars, walkVars>>
  /\ Goto(c, op)
  /\ UNCHANGED blockVars /\ SameBackground

ConnMain(c) == pc[c] = "connMain" /\ FlagBlock(c, TRUE, "connScan")
ConnScan(c) == pc[c] = "connScan" /\ ScanTxs(c, "connTxs")
ConnTxs(c)  == pc[c] = "connTxs"  /\ WriteTxs(c, TRUE, "connPrev")

(* Mutant: lastHash assigned after hashInterator.                          *)
ConnPrevLate(c) ==
  /\ pc[c] = "connPrev"
  /\ last' = [last EXCEPT ![c] = prev[it[c]]]
  /\ it' = [it EXCEPT ![c] = prev[it[c]]]
  /\ UNCHANGED <<argVars, tipVars, todo, from>>
  /\ Goto(c, "connIsMain")
  /\ SameDb /\ SameBackground

ConnPrev(c) ==
  /\ pc[c] = "connPrev"
  /\ last' = [last EXCEPT ![c] = it[c]]
  /\ it' = [it EXCEPT ![c] = prev[it[c]]]
  /\ UNCHANGED <<argVars, tipVars, todo, from>>
  /\ Goto(c, "connIsMain")
  /\ SameDb /\ SameBackground

ConnIsMain(c) ==
  /\ pc[c] = "connIsMain"
  /\ Goto(c, IF it[c] # Null /\ ~IsMain(it[c]) THEN "connMain" ELSE "forkNext")
  /\ SameDb /\ SameBackground /\ UNCHANGED callVars

(* Mutant: the fork is linked before its old next is read.                 *)
ForkNextLate(c) ==
  /\ pc[c] = "forkNext"
  /\ from' = [from EXCEPT ![c] = last[c]]
  /\ UNCHANGED <<argVars, tipVars, todo, it, last>>
  /\ Goto(c, "forkLink")
  /\ SameDb /\ SameBackground

ForkNext(c) ==
  /\ pc[c] = "forkNext"
  /\ from' = [from EXCEPT ![c] = next[it[c]]]
  /\ UNCHANGED <<argVars, tipVars, todo, it, last>>
  /\ Goto(c, "forkLink")
  /\ SameDb /\ SameBackground

(* Mutant: the fork is not linked to the new branch.                       *)
ForkLinkDropped(c) ==
  /\ pc[c] = "forkLink"
  /\ BeginOrphan(c, from[c])
  /\ SameDb /\ SameBackground

ForkLink(c) ==
  /\ pc[c] = "forkLink"
  /\ SetNext(it[c], last[c])
  /\ BeginOrphan(c, from[c])
  /\ UNCHANGED txVars /\ SameBackground

(* Mutant: the transactions of an orphan stay confirmed.                   *)
OrphTxsKept(c) == pc[c] = "orphTxs" /\ WriteTxs(c, TRUE, "orphNext")

OrphMain(c) == pc[c] = "orphMain" /\ FlagBlock(c, FALSE, "orphScan")
OrphScan(c) == pc[c] = "orphScan" /\ ScanTxs(c, "orphTxs")
OrphTxs(c)  == pc[c] = "orphTxs"  /\ WriteTxs(c, FALSE, "orphNext")

(* Mutants: only the first block is orphaned; the iterator stays.          *)
OrphNextOnce(c) ==
  /\ pc[c] = "orphNext"
  /\ BeginOrphan(c, Null)
  /\ SameDb /\ SameBackground

OrphNextStuck(c) ==
  /\ pc[c] = "orphNext"
  /\ BeginOrphan(c, it[c])
  /\ SameDb /\ SameBackground

OrphNext(c) ==
  /\ pc[c] = "orphNext"
  /\ BeginOrphan(c, next[it[c]])
  /\ SameDb /\ SameBackground

-----------------------------------------------------------------------------
(* Faults                                                                  *)

(* Most errors travel to the final callback.  createTxs has FailTx.        *)
DbError(c) ==
  /\ "dbError" \in Faults
  /\ pc[c] \in Ops \ {"createTxs", "getTip", "reorgIsMain", "connIsMain", "forkNext"}
  /\ Return(c)
  /\ SameDb /\ SameBackground

(* Four callbacks drop the error and go on with an undefined value: no tip,*)
(* not main, not main, no next.                                            *)
DbErrorIgnored(c) ==
  /\ "dbError" \in Faults
  /\ \/ pc[c] = "getTip" /\ Goto(c, "add") /\ UNCHANGED callVars
     \/ pc[c] = "reorgIsMain" /\ BeginConnect(c)
     \/ /\ pc[c] = "connIsMain" /\ UNCHANGED callVars
        /\ Goto(c, IF it[c] # Null THEN "connMain" ELSE "forkNext")
     \/ pc[c] = "forkNext" /\ Goto(c, "forkLink") /\ UNCHANGED callVars
  /\ SameDb /\ SameBackground

(* The process stops between two database operations and starts again: what*)
(* it did not write is lost.                                               *)
Halt ==
  /\ pc' = [c \in Callers |-> "idle"]
  /\ blk' = [c \in Callers |-> Null]
  /\ allowReorgs' = [c \in Callers |-> FALSE]
  /\ needReorg' = [c \in Callers |-> FALSE]
  /\ oldNext' = [c \in Callers |-> Null]
  /\ todo' = [c \in Callers |-> {}]
  /\ it' = [c \in Callers |-> Null]
  /\ last' = [c \in Callers |-> Null]
  /\ from' = [c \in Callers |-> Null]
  /\ stray' = {}

Restart == Halt /\ SameDb /\ UNCHANGED missed

Crash == "crash" \in Faults /\ Restart

-----------------------------------------------------------------------------
Store(c) ==
  \/ HasBlock(c) \/ HasPrev(c) \/ TxsStored(c) \/ GetTip(c) \/ GetNext(c)
  \/ Add(c) \/ SetTipStep(c) \/ SetNextStep(c)
  \/ \E t \in Txs : StoreTx(c, t) \/ MissTx(c, t)

Reorg(c) ==
  \/ ReorgIsMain(c)
  \/ ConnMain(c) \/ ConnScan(c) \/ ConnTxs(c) \/ ConnPrev(c) \/ ConnIsMain(c)
  \/ ForkNext(c) \/ ForkLink(c)
  \/ OrphMain(c) \/ OrphScan(c) \/ OrphTxs(c) \/ OrphNext(c)

Fail(c) == DbError(c) \/ DbErrorIgnored(c) \/ \E t \in Txs : FailTx(c, t)

(* Every step of a call in flight.                                         *)
Progress(c) == Store(c) \/ Reorg(c) \/ Fail(c)

Next ==
  \/ \E c \in Callers, b \in Blocks, allow \in AllowModes : Call(c, b, allow)
  \/ \E c \in Callers : Progress(c)
  \/ \E t \in Txs, b \in Blocks : StrayTx(t, b)
  \/ Crash

Spec == Init /\ [][Next]_vars

(* A database operation that was issued calls back.                        *)
FairSpec == Spec /\ \A c \in Callers : WF_vars(Progress(c))
=============================================================================
