# A formal model of blkchain-api

`blkchain-api` is a Blackcoin fork of insight-api: one Node.js process that
copies the block chain of a `blackcoind` node into LevelDB, follows the blocks
the node announces over p2p, and answers HTTP and socket.io queries from that
database. These modules model the part that can go wrong silently: how blocks are
stored, how a reorganisation moves the main chain, how the two sources of
blocks (RPC copy and p2p) share one database without any lock, how balances are
kept next to them, and whether requests are answered meanwhile.

Paths below are relative to the repository.

## 1. Inventory

| Component | State | Operations | Talks to |
|---|---|---|---|
| Block pointers, `lib/BlockDb.js` | keys `bpr-` (prev), `bne-` (next), `bma-` (main flag), `bti-` (tip), `bts-` (time index), `bcp-`, `bfi-` | `add`, `getTip/setTip`, `getPrev`, `getNext/setNext`, `isMain/setMain`, `has`, `countConnected`, date queries | LevelDB; emits `new_block` |
| Transactions, `lib/TransactionDb.js` | `txb-` (tx confirmed in block), `tx-` (block to tx), `txo-` outputs, `txs-` spends, `txa-` address outputs, `txba-`/`txab-` balance ranking and balance, update flags `0-`/`1-`, time index | `createFromArray`, `add`, `setConfirmation`, `isConfirmed`, `handleBlockChange`, `fromAddr`, `updateAddress`, `updateAllAddresses`, `removeFromTxId`, `top100` | LevelDB, Rpc |
| Block storage, `lib/Sync.js` | only local variables of each call | `storeTipBlock`, `processReorg`, `setBlockMain`, `setBranchOrphan`, `setBranchConnectedBackwards`, `storeTxs`, `storeCheckpoint` | both databases |
| Historic sync, `lib/HistoricSync.js` | `status`, `currentRpcHash`, `blockChainHeight`, `startBlock`, percentage | `start`, `prepareToSync`, `updateStartBlock`, `getBlockFromRPC` | Rpc, Sync |
| P2P sync, `lib/PeerSync.js` | `allowReorgs`, `connected` | `handleInv`, `handleTx`, `handleBlock`, `handleCheckpoint`, `run` | bitcore peer, Sync, HistoricSync |
| Wiring, `insight.js` | none | boot; sets `allowReorgs` when the first historic sync calls back | all |
| RPC client, `lib/Rpc.js` | none | `getTxInfo`, `getBlock`, `blockIndex`, `sendRawTransaction` | node |
| Block files, `lib/BlockExtractor.js` | file index, buffer, parser | `getNextBlock`, `nextFile` | only caller is commented out |
| API, `app/`, `config/routes.js` | `bitstampRate` and `timestamp` of the currency cache; else only the calls a request has left | blocks, transactions, addresses, unspent outputs, status, top100, currency; each a series of calls, lists one per item | both databases, Rpc, the exchange |
| `lib/PoolMatch.js`, `config/express.js`, `util/`, `dev-util/` | none | configuration, tools | |

Everything runs in one thread, but every database or RPC call is a point where
another handler may run. Nothing queues the calls of `storeTipBlock`: a p2p
block, the next p2p block and the historic sync may each be half way through it.
The database survives a restart; the local variables do not.

What makes each component correct:

- **Block storage**: after a call the blocks flagged main are the tip and its
  ancestors, next pointers lead along them, a transaction counts as confirmed
  exactly in main blocks; the walks end; nothing is declared main that is not
  stored; what a later reorganisation needs in order to undo a block is there.
- **Historic sync**: the tip never stands above a missing block; a restart takes
  back what the node gave up; a sync ends and hands over to p2p.
- **Both together**: neither undoes the links of the other.
- **Addresses**: a confirmed transaction has all its outputs and spends on
  record; an update stores the balance its scans found; concurrent updates keep the
  ranking entry of the stored balance and a flag of every address; a list of unspent
  outputs offers none that was spent, and leaves none out that is confirmed.
- **API**: every request is answered, once, whatever fails and whatever its calls still
  call back with; the latest list names the latest blocks; the exchange is asked once per `currencyRefresh`.

`PROJECT.json` lists each hazard at its line with the properties that cover it.

## 2. Modules

```
BlockTree <- BlockDb ----+- Sync <- SyncProps <- MCSync, MCSyncCalls
    ^  ^        ^        |   ^
    |  |        |        |   Insight <- InsightProps <- MCInsight
    |  |        TimeIndex <- Api <- ApiProps <- MCApi
    |  |- ConfirmDb -----+
    |        ^
    |        AddressDb <- AddressProps <- MCAddress, MCAddressCalls
    |                          ^- AddressUtxo <- MCAddressUtxo
    |- ChainIndex (abstract)

Theorems (TLAPS):
BlockTree    <- TreeProofs ---+------------+
SyncProps    <- SyncProofs ---+            |
                              +- SerialProofs
InsightProps <- InsightProofs (with SyncProofs, TreeProofs) <- SettledProofs
AddressProps <- AddressProofs <- UtxoProofs (with AddressUtxo)
ApiProps     <- ApiProofs
(AddressProofs also uses the induction over numbers of TreeProofs.)
```

- **BlockTree**: the blocks that exist in the network, as constants with
  assumptions: a tree of `previousblockhash` links with heights.
- **BlockDb**: four of the key families of `lib/BlockDb.js` and one operator per
  LevelDB operation. A key that does not exist reads as `Null`; the code calls
  `getNext` and `isMain` with `null` too, so the domain includes `Null` and `Zero`
  (the previous hash of the first block).
- **ConfirmDb**: the `txb-` and `tx-` keys and the operations on them.
- **Sync**: `storeTipBlock` and everything it calls. `pc[c]` names the database
  operation that call `c` waits for; an action is the effect of that operation
  and the callback up to the next one. `oldNext`, `it` (`hashInterator`), `last`,
  `from` (`orphanizeFrom`), `needReorg` are the local variables, one function
  over the calls each. `stray` holds the items of a failed `createFromArray` that
  still run; `missed` is a history of the transactions the node did not know.
- **ChainIndex**: what `storeTipBlock` promises in one atomic step, `Adopt(b)`.
- **Insight**: `HistoricSync` (one caller of Sync, `Historic`), `PeerSync` (the
  other callers), `insight.js` and an external node with a best block and a wire.
  `hpc` is the operation historic sync waits for; its calls of `storeTipBlock` are
  Sync's own actions. Where an `assert` of `updateStartBlock` fails the process ends
  (`Halt` of Sync) and boots again with what was written until then.
- **AddressDb**: `TransactionDb.add`, `updateAddress` with the `fromAddr` and
  `fillConfirmations` it calls, `refreshAllAddresses` and `handleBlockChange`, on one
  database. A call of `add` is at a stage of its `async.series` (`addPc`) and has
  `items` of that stage's `forEachLimit` left; `lookups` are the reads that `add`
  starts and does not wait for, `strays` the items of a failed stage that still run.
  A call of `updateAddress` scans (`seen`, `spentBy`, `yes`), reads the old balance and
  writes one batch; each of these operations, and the batch of `handleBlockChange`, may
  fail. Outputs are opaque, with a transaction, an address and a value.
  Calls start at any time: Sync and PeerSync decide when, and are not composed here.
- **AddressUtxo**: `Address.getUtxo` next to updates. Both begin with `fromAddr`, that is
  with AddressDb's own scan actions; `kind` says what a call is for. `getUtxo` then
  asks the node for the transaction of each output (`left`, `answer`) while more are added,
  and the node learns and drops transactions (`known`).
- **TimeIndex**: the `bts-` and `tts-` keys, one row per second, with the queries of
  the latest lists. `addedAt` is a history of the second `add` was given for each block. The scan for the latest blocks has no lower end; `LatestBlocks` returns the
  rows of other keys that it runs into, as the code does.
- **Api**: the request lifecycles. A handler is a sequence of calls to the node, the
  databases or the exchange; each call carries what the handler does when it finds what it
  asks for, finds nothing, or fails: `Go` on, `Skip` the item, expand the `List`, `Send` an
  answer and end, `Fail` (call back with an error, and end this item only), `Report` (call back
  with an error and go on all the same, as `updateAddress` does), `Hang`, `Die`. One operator
  per handler (`ShowTx`, `TxsOfBlock`, ...) writes that table down; `todo[r]` is what
  request `r` has left of each item and `sent[r]` what it was answered. An answer does not end
  the calls in flight: `getUtxo` works on `Concurrency` items at once, and what the others call
  back with later is answered too, unless the handler's last callback is one that `async.series` or
  `async.eachLimit` calls once only (`Callback`, `CalledOnce`). Contents of answers are left out, but for which items a list has. Requests run
  interleaved with each other and with what the rest of the program does to the indexes.
- **SyncProps**, **InsightProps**, **AddressProps**, **ApiProps**: the properties. **MCSync**,
  **MCSyncCalls**, **MCInsight**, **MCAddress**, **MCAddressCalls**, **MCAddressUtxo**,
  **MCApi**: the instances. The `...Proofs` modules: theorems, see section 4.

Conventions. A handler's synchronous code between two asynchronous operations is
one action. `db.batch().write` is atomic. Times and logging are left out. A property that cannot fail in one tree is given a tree where its mutant
fails: each property has a mutant, an operator next to the one it replaces that
contains a plausible mistake (a dropped check, a swapped order), under which TLC
refutes the property.

## 3. Runs

| Run | Instance | Shows |
|---|---|---|
| `SyncSerial` | 1 call at a time, 8 blocks (three branches at Genesis, one of which forks again), transactions shared between branches, node may not know one; `StraightSpec` | main flags = lineage of the tip, next pointers follow it, confirmations follow the flags, no ancestor is ever orphaned on the way; **`storeTipBlock` refines `ChainIndex`** |
| `SyncCalls` | 2 overlapping calls, in two parts. *faults*: 2 blocks, 3 transactions, failing operations, any number of crashes. *race*: 4 blocks with siblings. Fair | `StoredBlockTxs`, `ConfirmedCanBeUndone`, `NextIsChild`, `NoPhantomMain`, types; every call returns |
| `InsightRestarts` | historic sync alone, 9 blocks on three branches, one of which forks from another, restarts when nothing is in flight, RPC failures; `SettledSpec` | no hole below the tip; what has settled is one chain, of the tip and its ancestors (`SettledChain`), and the confirmations of the settled blocks agree with it (`SettledConfirmations`) |
| `InsightFollows` | historic sync + one p2p call, a chain of 4 blocks, lost announcements, fair | stored blocks stay linked in every interleaving; a sync ends and p2p takes over |
| `SyncNestedFork` | 1 call at a time, 7 blocks | violation, see 5.1 |
| `SyncTwice` | the same block twice | violation, 5.2 |
| `InsightHandover` | p2p block at the end of the first sync | violation, 5.3 |
| `AddressCalls` | 2 calls of each kind, in two parts. *pay*: 1 transaction with 1 output, 2 updates, 1 block change in flight, refreshes, failing operations, crashes. *spend*: a transaction with 2 outputs and one that spends the first, leftover items of failed calls | the stored balance stays ranked (`RankHasBalance`), the address flagged (`AddressIsFlagged`), `ConfirmedTxComplete`, types |
| `AddressUtxo` | 1 call of `add`, 1 update or request for unspent outputs, 2 transactions with 3 outputs, one a spend; the node learns and drops transactions | `BalanceExact`, `UtxoUnspent`, `UtxoComplete`, types |
| `AddressDoubleSpend` | 2 transactions spend 1 output | violation, 5.4 |
| `ApiRequests` | in two parts. *lists*: one connection that asks for anything but the rate, again and again; 2 blocks, 3 transactions, 2 addresses, of which one has an output with several spends. *rate*: two connections that ask for the rate. Every fault. Fair | each request is answered once (`AnsweredOnce`) and ends (`EveryRequestEnds`), the rate is fetched once per delay (`OneRefresh`), the latest list is of the latest blocks (`LatestListsBlocks`), types |
| `ApiHang` | two requests for the latest transactions, no fault, the node drops one | violation, 5.5 |

Bounds and why they are enough:

- *Blocks*. Three branches at a fork let every case of `storeTipBlock` (0, 1, 2)
  happen repeatedly and in both directions, including going back to a branch that
  was orphaned and the Case 2 walk over two blocks. All orders of arrival are
  covered; block order is not a bound.
- `SyncSerial` checks **`StraightSpec`**: a call does not put a block on a branch that was
  orphaned and, while it was, forked: its non-main blocks lead to it by their next pointers
  (`StraightBranch`). This is not an innocent bound: without it
  `MainIsLineage` is false (5.1). Where all branches start at one block it excludes nothing
  (`SerialStoreIsCorrect`).
- *Callers*. Two calls are enough for every race between a pair of steps; three
  would add races of triples and are out of reach of an exhaustive run.
- *MaxWire* bounds the blocks announced and not yet handled to 2. `NeedSync` needs one
  in flight and one lost.
- `InsightRestarts` leaves out crashes in the middle of a call and failing
  database operations: with them `SettledChain` is false, as a block between `add`
  and `setNext` is never linked later (`has` answers true, so it is skipped), and an
  interrupted orphan walk is never resumed. No comment or test of the repository
  promises otherwise, so this is described here and not listed as a finding.
- `InsightRestarts` checks **`SettledSpec`**, which restricts the node by `NewBranch`; without
  either half TLC finds `SettledChain` violated.
  - The node does not return to a branch that the index has given up. Its blocks would be
    stored but not main; historic sync hands them to `storeTipBlock`, which ignores
    what exists, and moves the tip above orphans.
  - With RPC errors, the node's new best block is higher than the last. `updateStartBlock`
    takes a tip of the node's height for a block of its chain (line 244)
    without asking for its confirmations; after a walk back that an error has cut short
    that tip may be an orphan. Without RPC errors equal heights do no harm: the index
    then stays on the other branch, as one chain, until the node moves on. On Blackcoin (proof of
    stake) branches of equal height can differ in trust.
- `CHECK_DEADLOCK FALSE` appears in the Insight runs only: the node may stop
  finding blocks. In Sync runs a caller can always store a block again.
- *Transactions.* One address is enough: keys of different addresses never meet. A
  spend, a re-announcement after or during the block's own `add`, and two items of
  one stage each occur. `MaxChanges` bounds the calls of `handleBlockChange` between scan
  and batch, to 1 in `AddressCalls` and 0 in `AddressUtxo`.
- `BalanceExact` is conditional on `ScanHolds`: what the update read is still what is
  stored. The scans of an update are not a snapshot, so no more can be
  promised. In `AddressUtxo` no output is spent twice; in general the property is
  false (5.4).
- *Two parts.* `SyncCalls`, `AddressCalls` and `ApiRequests` each start in one of two parts, which
  differ in what may happen and share no state: the product of all faults with
  the larger trees is out of reach, and each property is checked in both parts.
- `AddressCalls` uses symmetry over the calls (no liveness is checked there).
- *Api.* The clock runs to 1 in the part *lists* (`ListsEnd`) and to `MaxTime`, 3, in the part
  *rate*; `Limits` are 1 and 2, `PageLength`, `Delay` and the last page 1, `Concurrency` 2. With
  them two blocks share a second, a block is ahead of the clock, a list is cut and a page is the
  last, the latest list runs past the time rows, an item fails while another is in flight, and
  a rate becomes due twice while a fetch is slow. `Menu` gives each connection its
  questions. Requests share only the indexes, which they do not write, and the currency cache,
  which the lists do not read; so one connection for the lists and two for the rate meet every
  interference. All connections idle is no deadlock, as a request may always come; in
  `ApiHang` both hang, hence `CHECK_DEADLOCK FALSE`.
- `AddressUtxo` has failing operations in neither `add` nor the scans. A failing scan of spends is
  dropped by `fromAddr` (line 426), after which a spent output is offered and counted; after a failed
  `isConfirmed`, `updateAddress` reports the error (line 452) and still stores a balance, of the
  answers it has. No comment or test promises otherwise. `AddressCalls` has these failures, and
  what it checks survives them.

Fairness. `FairSpec`, `CallsSpec` of MCSyncCalls, `InsightFairSpec` and `ApiFairSpec` assume only that a LevelDB or RPC
operation that was issued calls back (weak fairness of each call's next step),
and that a delivered p2p message is handled: Node's event loop runs every ready
callback. Nothing obliges the node to find blocks, and `SyncEnds` holds although it may
keep adding them (bounded by the tree). `SyncEnds` is stated without
RPC and database errors: with them it is false for the reason of hazard
`lib/HistoricSync.js:377` (the error path of `prepareToSync` never calls `start`'s
callback, so `allowReorgs` stays false).

## 4. Proofs

Each theorem holds for every value of the constants: every block tree (finite or not), every
set of transactions, outputs, addresses and connections, any number of calls, and, where the
table states no hypothesis, every set of faults. The assumptions on the constants
(`BlocksAssumption`, `TreeAssumption`, `TxsAssumption`, `SyncAssumption`, `InsightAssumption`,
`OutputsAssumption`, ...) are evaluated by TLC in the runs. Each inductive invariant was checked by
TLC before it was proved.

**TreeProofs** (lemmas). `Lineage` is a recursive function, about which the provers know
nothing but its equation. The lemmas show that it is the least set that holds the
block and is closed under `Parent` (`LineageIsAncestors`, by the lowest block on which they
would differ), and derive from that what the other proofs use: lineages are linear,
transitive and antisymmetric, and have a child on the way to each ancestor.

**SyncProofs**: `Sync` with any number of overlapping calls.

| Theorem | States | Argument |
|---|---|---|
| `TypeCorrect` | `[]TypeOK` | inductive with `ScanFound`: what a scan found for a block has a `tx-` key, so that the later batch writes keys of real pairs |
| `StoredBlocksHaveTheirTxs` | `[]StoredBlockTxs` | `TxsProgress`: past `createTxs` every wanted transaction of the call's block is recorded or missed, and during it, those not in `todo`; records and `missed` only grow |
| `ConfirmationsCanBeUndone` | `[]ConfirmedCanBeUndone` | by `ScanFound`: what `WriteConfirmations` turns on was found by its `tx-` key, and those are never deleted |
| `NextPointersLeadToChildren` | `[]NextIsChild` | `LinkInv`: `prev` is `Parent` where defined, and in the walk `prev` of `last` is `it` when the fork is linked (`WalkAdjacent`) |
| `MainBlocksAreStored` | `[]NoPhantomMain` if no caller passes `allowReorgs = FALSE` | `StoredInv`: stored blocks have stored parents (`NoGap`), and each walk stands on stored blocks (`WalkStored`) |

The last hypothesis is needed: historic sync passes `FALSE`, which skips the predecessor check.

**SerialProofs**: `Sync` with one call at a time (`Callers = {c}`, `FALSE \notin AllowModes`, no
failing operations: `StraightSpec`). Each hypothesis is there because the property fails without it: with two calls in
`SyncTwice`, without the predecessor check in `InsightHandover`, on branches that are not straight
in `SyncNestedFork`.

| Theorem | States |
|---|---|
| `MainChainIsLineage` | `[]MainIsLineage` |
| `NextPointersFollowMain` | `[]NextFollowsMain` |
| `ConfirmationsFollowMain` | `[]ConfirmedIffMain` |
| `ReorgsSpareLineage` | `ReorgSparesLineage` (action property) |
| `StoreTipBlockImplementsChainIndex` | `ImplementsChainIndex`: the refinement of `ChainIndex`. The step that is its `Adopt` is `setTip` (`SetTipStep`); every other step, `add` included, stutters |
| `SerialStoreIsCorrect` | the first three for `SerialSpec`, with no hypothesis on the order of calls, on trees with one fork block (`OneFork`) |

The invariant, `SerialInv`, has four parts. `Shape`: which blocks have next pointers
and what a call's local variables remember. `ChainState`: at each operation, which blocks are main (`MainAt`: the
old chain; then the old chain and the part of the new one that is reconnected; then the new one and what is
left to orphan), where each walk stands (`WalkAt`), and along which stretches next pointers lead
(`LinksAt`). `TxsAt`: confirmations follow the flags but for the one block whose flag was
just written. `SharedInv`: what SyncProofs proves. `StraightBranch` is used once, when a branch has been
reconnected: its inner next pointers then lead along it.

**AddressProofs**: `AddressDb`, any number of calls of each kind, every fault.

| Theorem | States | Argument |
|---|---|---|
| `ConfirmedTxsAreComplete` | `[]ConfirmedTxComplete` | `CompleteInv`: what each stage of a call has written or still has to (`CallProgress`), and that confirmation records and pending block changes are of complete transactions (`RecordsComplete`); outputs and spends only grow (`Grows`, `DoneStays`) |
| `BalancesAreRanked` | `[]RankHasBalance` | inductive once `balance` is known to be a function |
| `AddressesAreFlagged` | `[]AddressIsFlagged` | inductive: each step keeps the union of the flags or adds the new output's |
| `BalancesAreExact` | `[]BalanceExact` if `NoDoubleSpends` | `SpendsInv`: spends are recorded for inputs only; then what the scan counts and the ledger are the same set (`ScannedIsLedger`), and so are their sums |
| `AddressTypeCorrect` | `[]AddressTypeOK` | `UpdateTypes`: what an update has seen is finite, as outputs are recorded one by one; the sum over it, a recursion over a finite set, then exists and is a number (`SumExists`, `TotalIsNat`, by induction on the size of the set) |

`NoDoubleSpends` (no two transactions of the chain spend one output) is needed: 5.4 is the case
without it.

**UtxoProofs**: `AddressUtxo`, any number of requests, updates and additions.

| Theorem | States | Argument |
|---|---|---|
| `UtxoTypeCorrect` | `[]UtxoTypeOK` | `UtxoTypes`, `RequestStage` |
| `SpentIsNotOffered` | `[]UtxoUnspent` | `ScansComplete`: the scans of spends have read each spend that was there at the start; `AnswerRight` |
| `UnspentIsOffered` | `[]UtxoComplete` | `AnswerRight`, with `NodeHasConfirmed`: the node serves every transaction that is confirmed |
| `BalancesAreExactWithUtxo` | `[]BalanceExact` if `NoDoubleSpends` | as in AddressProofs, by `SpendsInv` |

**ApiProofs**: `Api`, any number of connections, any menu, every fault.

| Theorem | States | Argument |
|---|---|---|
| `ApiTypeCorrect` | `[]ApiTypeOK` | `ApiInv`, the conjunction of the invariants below and of what is left |
| `RequestsAnsweredOnce` | `[]AnsweredOnce` | `RequestInv`: what a request has left are calls of its route's handler (`CallsOn`); calls are left after an answer only where the callback is called once (`CalledOnce`), and there `called` holds, so that what they report is dropped |
| `RateIsFetchedOnce` | `[]OneRefresh` | `RateInv`: fetches in flight began no later than `timestamp`, and any two of them a delay apart |
| `LatestListsAreLatest` | `[]LatestListsBlocks` | `IndexInv`: the row of a second has a block that `add` was given this second for, and each stored block that was not replaced has its row; `RowsInLists`: the scan returns the rows of the seconds up to now, the latest first |

**InsightProofs**: historic sync and p2p together.

| Theorem | States | Argument |
|---|---|---|
| `InsightTypeCorrect` | `[]InsightTypeOK`, any number of callers, every fault | `HistoricInv`: the blocks historic sync works on are blocks; it never steps back from Genesis, which is on the node's chain |
| `NoHoleBelowTip` | `[]TipLineageStored` if `Callers = {Historic}`, every fault, crashes at any step included | `CopyInv`: the cursor moves from a stored block to its child or back from the tip, so that what is below it is stored |
| `StoredBlocksAreLinked` | `[]StoredIsLinked` if `OneBranch` and `Lossless`, any number of p2p calls | `LinkedInv`: a stored block is linked or a call that has stored it has not linked it yet; `LinksOnly`: a next pointer changes only to a child |

With p2p calls `TipLineageStored` is false (section 5, *Gap*). `Lossless` (no failing operations and no
crashes; restarts at quiet moments are allowed) is needed as a block between `add` and
`setNext` is never linked later; with two branches a block has siblings, and next can lead to one of them only.

**SettledProofs**: `SettledOnOneChain`, `SettledSpec => []SettledChain` for historic sync alone without database
errors and crashes in the middle of a call (`Sound`), restarts and RPC errors included. `SettleInv`:
what is stored and not main has left the node's chain (`OrphansOff`); between calls the main
blocks are the lineage of a block at or below the tip, below it only after a walk back that an
error has cut short (`TipState`); nothing above `oldtip` is main (`WalkBack`); the block being copied
is the one where the walk ended or a new one on the tip (`CopyState`); and with RPC errors what the node has left is
lower than its best block (`HeightsPassed`), which is why a tip of its height is main.
The same module has `ConfirmationsSettle`, `SettledSpec => []SettledConfirmations` (`Sound`). Its
`ConfirmInv`: the flags of every stored block agree with its transactions' records, but for the
block whose batch comes next, in a call or in the walk of `updateStartBlock`; the block being added
has all its transactions on record; an item of a failed call that still runs is of a block that is
not stored; and what `updateStartBlock` finds to undo is all there (`ConfirmedCanBeUndone`).

Only model-checked: liveness (`CallReturns`, `SyncEnds`, `EveryRequestEnds`), which is out of reach of the
installed provers. Every safety property of a passing run has a theorem.

## 5. What the violation runs show

1. **Nested forks** (`SyncNestedFork`). Re-adopting a branch repairs only the next
   pointer of the fork block. A branch that had forked itself keeps a stale next
   pointer inside; a later Case 1 follows it and leaves blocks of the
   abandoned branch main, with their transactions confirmed.
2. **Storing a block twice at once** (`SyncTwice`). The existence check is not
   repeated after the RPC calls. The second call finds the block itself as tip,
   sees a "reorganisation", and orphans the tip.
3. **Handover** (`InsightHandover`). A p2p block stored with `allowReorgs` false
   after the last fetch is main but never tip; the next block runs Case 2 on it
   although it is main, one block too far, and orphans it.
4. **Double spends** (`AddressDoubleSpend`). `fillConfirmations` looks for the
   confirmed one of several spends in a field the entries do not have; an output
   spent by a confirmed transaction then counts as unspent.
5. **Lists that never answer** (`ApiHang`). `getTransaction` returns a value instead of calling
   back when the node does not know the transaction. One dropped transaction among the
   latest is enough; the list of the first block's transactions never answers at all, as
   the node does not serve its transaction.

What else was met while modelling, without a run of its own:

- *Gap.* The comment on Case 3 (`lib/Sync.js:65`) says a block without predecessor "is ignored
  (if allowReorgs is false)"; the code stores it unchecked exactly then. With one lost
  announcement during the first historic sync the tip stands above a block that is never
  fetched: `TipLineageStored` is false of historic sync and p2p together.
- An update deletes the pending flag of its address although outputs were added after
  its scan, so a stored balance may be old with no update pending; two first updates
  of an address that computed different balances leave two ranking entries.
- `/blocks/latest` with a limit above the number of time rows lists the tip once more, and
  previous hashes, as blocks (`LatestBlocks`).
- Of the blocks of one second only the last is on the latest list (`LatestListsBlocks` says
  exactly this much).
- `updateAddress` calls back on an error of `fromAddr` (`lib/TransactionDb.js:452`), goes on, and
  calls back again after its batch (line 523). Only `async.series` in `Address.update` keeps the
  second one from a client; a list of an address' transactions that was refused is not made.
- `/txs?address=` answers an error and then passes the request to the next route, which
  answers again (excepted by name in `AnsweredOnce`).
- A fetch of the rate that fails counts as a refresh, and the old rate is sent with 200. A
  body that does not parse, or a failing first scan of an update, ends the process.

## 6. Not modelled, and the plan

Done: block storage, reorganisation, confirmations, historic sync, p2p sync, process
restarts, outputs, spends and address balances, unspent outputs, the time indexes, the
request lifecycles of the API; proofs of every safety property of the passing runs. Next, in this order:

1. An abstract ledger that `AddressDb` implements for the confirmed part.
2. `fromTxIdN` and the sums of `_fillOutpoints` (fees, incomplete inputs).
3. What survives a crash at any step: which part of `SettledChain` still holds.

Not planned: `BlockExtractor` and the file sync, as the call of `prepareFileSync` is commented
out (`lib/HistoricSync.js:369`); `removeFromTxId`, `fromTxId` and `has` of TransactionDb, which only
tests call; checkpoints, one put that nothing reads; `blocks.list`, the list of a day, as its
route is commented out (`config/routes.js:14`).

Left out for good: the web server, sockets (no state), pool names,
configuration, scripts, New Relic. Byte formats of RPC and p2p belong to libraries.
