--------------------------------- MODULE Api ---------------------------------
(***************************************************************************)
(* The HTTP requests of app/controllers.  A handler is a list of calls to  *)
(* the node and to the databases, made one after the other: each may find  *)
(* what it asks for, find nothing, or fail, and the handler goes on or     *)
(* answers.  A list request then does the same for each of its items.  An  *)
(* answer does not end the calls that are still in flight: what they call  *)
(* back with later is answered too, unless an async function drops it.     *)
(*                                                                         *)
(* Requests are served interleaved, while blocks and transactions arrive,  *)
(* time passes and the node drops transactions.  What the calls write      *)
(* (updateAddress) is the subject of AddressDb; here, whether and with what*)
(* each request is answered.                                               *)
(***************************************************************************)
EXTENDS TimeIndex

CONSTANTS
  Requests,     \* bound on the handlers at work
  Addrs,
  TxSeqOf,      \* info.tx of each block
  TxSeqOfAddr,  \* the transactions of each address
  PaidBy,       \* of them, those of its outputs
  DoubleSpent,  \* addresses with an output that has several spends
  PageLength,   \* pageLength, 10
  Concurrency,  \* CONCURRENCY of getUtxo, 5
  Delay,        \* delay of the currency controller
  GenesisTx,    \* genesisTXID, which the node does not serve
  Announced,    \* transactions that peers announce and the node may drop
  Menu,         \* what each connection may ask for: a subset of Questions
  ApiFaults     \* a subset of {"rpcError", "dbError", "tickerError",
                \* "garbled"}

Pages == 0..1   \* bound on pageNum

-----------------------------------------------------------------------------
(* The routes, with their argument and page (of a latest list, its limit). *)
Question(route, of) == [route |-> route, of |-> of, page |-> Null]

Questions ==
  [route : {"block", "txsOfBlock"}, of : Blocks, page : {Null}]
  \cup [route : {"tx"}, of : Txs, page : {Null}]
  \cup [route : {"address", "utxo", "txsOfAddress"}, of : Addrs, page : {Null}]
  \cup [route : {"txsOfBlock"}, of : Blocks, page : Pages]
  \cup [route : {"txsOfAddress"}, of : Addrs, page : Pages]
  \cup [route : {"latestBlocks", "latestTxs"}, of : {Null}, page : Limits]
  \cup {Question(r, Null) : r \in {"blockIndex", "send", "statusInfo",
         "lastBlockHash", "top100", "currency", "plain"}}

Nothing == Question("plain", Null)

ASSUME ApiAssumption ==
  /\ TxSeqOf \in [Blocks -> Seq(Txs)]
  /\ TxSeqOfAddr \in [Addrs -> Seq(Txs)] /\ PaidBy \in [Addrs -> Seq(Txs)]
  /\ DoubleSpent \subseteq Addrs /\ Announced \subseteq Txs
  /\ PageLength \in Nat \ {0} /\ Concurrency \in Nat \ {0} /\ Delay \in Nat
  /\ Menu \in [Requests -> SUBSET Questions]

Codes == {"200", "400", "404", "500", "400/503"}

(* What a handler does with the outcome of a call.                         *)
Go == [do |-> "go", codes |-> <<>>]      \* the next call
Skip == [do |-> "skip", codes |-> <<>>]  \* the next item, this one is null
List == [do |-> "list", codes |-> <<>>]  \* the items of the list
Hang == [do |-> "hang", codes |-> <<>>]  \* no callback
(* The handler answers and ends.                                           *)
Send(codes) == [do |-> "send", codes |-> codes]
(* The error is called back with, for an answer, and that is all for this  *)
(* item; or the handler goes on after that.                                *)
Fail(codes) == [do |-> "fail", codes |-> codes]
Report(codes) == [do |-> "report", codes |-> codes]
Die == [do |-> "die", codes |-> <<>>]    \* an uncaught TypeError

(* common.handleErrors(err): 400 if the error has a code, or else 503.     *)
HandleErrors == Send(<<"400/503">>)

(* Where a call goes, what it asks for, and what is done if it finds it,   *)
(* finds nothing, or fails.                                                *)
Call(to, of, found, none, fail) ==
  [to |-> to, of |-> of, found |-> found, none |-> none, fail |-> fail]
Node(of, none, fail) == Call("node", of, Go, none, fail)
Db(fail) == Call("db", Null, Go, Go, fail)

VARIABLES
  served,    \* transactions the node knows
  asks,      \* what the request asks for
  state,
  todo,      \* per item, the calls that are left; none of one that failed
  sent,      \* the answers that were sent
  called,    \* whether the callback behind the answer was called
  rateKnown, \* bitstampRate # 0
  timestamp, \* of the currency controller
  began      \* history: [at, knew] of the ticker request in flight

requestVars == <<asks, state, todo, sent, called>>
currencyVars == <<rateKnown, timestamp, began>>
indexVars == <<blockVars, timeVars>>
apiVars == <<indexVars, served, requestVars, currencyVars>>

NoFetch == [at |-> 0, knew |-> FALSE]

ApiInit ==
  /\ BlockDbInit /\ TimeIndexInit
  /\ served = Txs \ {GenesisTx}
  /\ asks = [r \in Requests |-> Nothing]
  /\ state = [r \in Requests |-> "idle"]
  /\ todo = [r \in Requests |-> <<>>]
  /\ sent = [r \in Requests |-> <<>>]
  /\ called = [r \in Requests |-> FALSE]
  /\ rateKnown = FALSE /\ timestamp = now
  /\ began = [r \in Requests |-> NoFetch]

-----------------------------------------------------------------------------
(* The databases' and the client's part of the handlers.                   *)

(* BlockDb.fromHashWithInfo: Rpc.getBlock, isMain.                         *)
FromHashWithInfo(b, none, fail) == <<Node(b, none, fail), Db(fail)>>

(* _fillSpent and _fillOutpoints: errors of their reads are dropped.       *)
FillInfo == Db(Go)

(* TransactionDb.fromIdWithInfo, _getInfo.                                 *)
FromIdWithInfo(t, none, fail) == <<Node(t, none, fail), FillInfo>>

(* TransactionDb.fromAddr: the outputs, their spends, the confirmations.   *)
(* When an output has several spends and isConfirmed fails for one of them *)
(* there is no callback.                                                   *)
FromAddr(a, noOutputs, fail) ==
  <<Db(noOutputs), Db(Go)>> \o (IF a \in DoubleSpent THEN <<Db(Hang)>> ELSE <<>>) \o <<Db(fail)>>

(* updateAddress: fromAddr, the old balance, the batch.  It calls back on  *)
(* an error of fromAddr and goes on, to call back again after the batch;   *)
(* after a failed first scan, without an array to go on with.              *)
Update(a, codes) == FromAddr(a, Die, Report(codes)) \o <<Db(Go), Db(Fail(codes))>>

-----------------------------------------------------------------------------
(* The handlers.                                                           *)

ShowBlock(b) == FromHashWithInfo(b, Send(<<"404">>), HandleErrors)

(* An item of a list of blocks: null if the node does not know it; an error*)
(* ends the list, which is sent as it is.                                  *)
ListedBlock(b) == FromHashWithInfo(b, Skip, Send(<<"200">>))

BlocksScan == <<Call("db", Null, List, Go, Send(<<"500">>))>>

ShowTx(t) == FromIdWithInfo(t, Send(<<"404">>), HandleErrors)

(* getTransaction, an item of a list of transactions: without one, whether *)
(* the node does not know it or fails, it returns a value.                 *)
GetTransaction(t) == FromIdWithInfo(t, Hang, Hang)

TxsOfBlock(b) ==
  <<Node(b, Send(<<"404">>), Send(<<"500">>)), Call("db", Null, List, Go, Send(<<"500">>))>>

(* An error is answered, and then passed on to the next route, '*', which  *)
(* answers too.                                                            *)
TxsOfAddress(a) ==
  LET twice == <<"404", "200">>
      calls == Update(a, twice)
  IN [calls EXCEPT ![Len(calls)].found = List]

LatestTxs == <<Call("db", Null, List, Go, Send(<<"500">>))>>

SendTx == <<Node(Null, HandleErrors, HandleErrors)>>

BlockIndex == <<Node(Null, Send(<<"400">>), Send(<<"400">>))>>

ShowAddress(a) == Update(a, <<"400/503">>)

(* getUtxo: then each transaction, of those the node knows.                *)
Utxo(a) ==
  LET calls == FromAddr(a, HandleErrors, HandleErrors)
  IN [calls EXCEPT ![Len(calls)].found = List]

UtxoItem(t) == <<Node(t, Skip, Fail(<<"400/503">>))>>

GetInfo == <<Node(Null, HandleErrors, HandleErrors)>>

(* Mutant: no callback after an error of the node.                         *)
LastBlockHashLost == <<Db(Go), Node(Null, Go, Hang), Node(Null, Go, Hang)>>

(* getTip, getBlockCount, getBlockHash; no error is passed on.             *)
LastBlockHash == <<Db(Go), Node(Null, Go, Send(<<"200">>)), Node(Null, Go, Send(<<"200">>))>>

ShowStatus(q) == IF q.route = "lastBlockHash" THEN LastBlockHash ELSE GetInfo

Top100 == <<Db(HandleErrors)>>

CallsFor(q) ==
  CASE q.route = "block" -> ShowBlock(q.of)
    [] q.route = "latestBlocks" -> BlocksScan
    [] q.route = "tx" -> ShowTx(q.of)
    [] q.route = "txsOfBlock" -> TxsOfBlock(q.of)
    [] q.route = "txsOfAddress" -> TxsOfAddress(q.of)
    [] q.route = "latestTxs" -> LatestTxs
    [] q.route = "send" -> SendTx
    [] q.route = "blockIndex" -> BlockIndex
    [] q.route = "address" -> ShowAddress(q.of)
    [] q.route = "utxo" -> Utxo(q.of)
    [] q.route \in {"statusInfo", "lastBlockHash"} -> ShowStatus(q)
    [] q.route = "top100" -> Top100
    [] q.route = "plain" -> <<>>

(* splice(page * pageLength, pageLength)                                   *)
Page(txs, page) ==
  IF page = Null THEN txs ELSE AtMost(PageLength, SubSeq(txs, page * PageLength + 1, Len(txs)))

Each(item(_), s) == [i \in DOMAIN s |-> item(s[i])]

ItemsFor(q) ==
  CASE q.route = "latestBlocks" -> Each(ListedBlock, LatestBlocks(q.page))
    [] q.route = "txsOfBlock" -> Each(GetTransaction, Page(TxSeqOf[q.of], q.page))
    [] q.route = "txsOfAddress" -> Each(GetTransaction, Page(TxSeqOfAddr[q.of], q.page))
    [] q.route = "latestTxs" -> Each(GetTransaction, LatestTransactions(q.page))
    [] q.route = "utxo" -> Each(UtxoItem, PaidBy[q.of])

-----------------------------------------------------------------------------
SameIndex == UNCHANGED <<indexVars, served>>

(* getUtxo works on several items at once, everything else on one.         *)
AtATime(q) == IF q.route = "utxo" THEN Concurrency ELSE 1
Current(r) == {i \in DOMAIN todo[r] : i <= AtATime(asks[r]) /\ todo[r][i] # <<>>}

Answer(r, codes) ==
  /\ state' = [state EXCEPT ![r] = "done"]
  /\ sent' = [sent EXCEPT ![r] = @ \o codes]
  /\ called' = [called EXCEPT ![r] = TRUE]

SameAnswer == UNCHANGED <<state, sent, called>>

(* Mutant: updateAddress is given the callback of update itself.           *)
CallbackAgain(r, codes) == Answer(r, codes)

(* The last callback of the handler answers.  That of update and getUtxo   *)
(* is called by async.series and async.eachLimit, which do so once.        *)
CalledOnce == {"address", "txsOfAddress", "utxo"}

Dropped(r) == called[r] /\ asks[r].route \in CalledOnce

Callback(r, codes) == IF Dropped(r) THEN SameAnswer ELSE Answer(r, codes)

Left(r, items) == todo' = [todo EXCEPT ![r] = items] /\ UNCHANGED asks

(* Mutant: a list without items is not answered.                           *)
ContinueEmpty(r, items) == Left(r, items) /\ SameAnswer

(* With nothing left to call, 200.                                         *)
Continue(r, items) ==
  /\ Left(r, items)
  /\ IF items = <<>> THEN Callback(r, <<"200">>) ELSE SameAnswer

(* The process ends: all connections are closed.  It starts again with the *)
(* databases it had, and without a rate.                                   *)
StartAgain ==
  /\ state' = [r \in Requests |-> "idle"]
  /\ todo' = [r \in Requests |-> <<>>]
  /\ sent' = [r \in Requests |-> <<>>]
  /\ called' = [r \in Requests |-> FALSE]
  /\ rateKnown' = FALSE /\ timestamp' = now
  /\ began' = [r \in Requests |-> NoFetch]
  /\ asks' = [r \in Requests |-> Nothing]

ThisCall(r, i) == Head(todo[r][i])
Others(r, i) == RemoveAt(todo[r], i)
After(r, i) ==
  LET calls == Tail(todo[r][i])
  IN IF calls = <<>> THEN Others(r, i) ELSE ReplaceAt(todo[r], i, calls)

(* After an update that has called back no list is made.  An item that     *)
(* fails keeps its place among those that eachLimit works on.              *)
Does(r, i, outcome) ==
  \/ outcome.do = "go" /\ Continue(r, After(r, i))
  \/ outcome.do = "skip" /\ Continue(r, Others(r, i))
  \/ outcome.do = "list" /\ ~Dropped(r) /\ Continue(r, ItemsFor(asks[r]))
  \/ outcome.do = "list" /\ Dropped(r) /\ Left(r, <<>>) /\ SameAnswer
  \/ outcome.do = "send" /\ Left(r, <<>>) /\ Answer(r, outcome.codes)
  \/ outcome.do = "fail" /\ Left(r, ReplaceAt(todo[r], i, <<>>)) /\ Callback(r, outcome.codes)
  \/ outcome.do = "report" /\ Left(r, After(r, i)) /\ Callback(r, outcome.codes)
  \/ /\ outcome.do = "hang"
     /\ state' = [state EXCEPT ![r] = "hung"]
     /\ UNCHANGED <<asks, todo, sent, called>>

Act(r, i, outcome) ==
  \/ Does(r, i, outcome) /\ UNCHANGED currencyVars
  \/ outcome.do = "die" /\ StartAgain

Busy(r) == state[r] = "busy"
Waits(r, i, to) == state[r] # "hung" /\ i \in Current(r) /\ ThisCall(r, i).to = to
Over(r) == state[r] \in {"idle", "done"} /\ Current(r) = {}
Known(of) == of \in served \/ of \notin Txs \cup {Zero}

Begin(r, q, calls) ==
  /\ asks' = [asks EXCEPT ![r] = q]
  /\ todo' = [todo EXCEPT ![r] = calls]
  /\ called' = [called EXCEPT ![r] = FALSE]

Start(r, q, calls) ==
  /\ Begin(r, q, <<calls>>)
  /\ state' = [state EXCEPT ![r] = "busy"]
  /\ sent' = [sent EXCEPT ![r] = <<>>]

AtOnce(r, q) ==
  /\ Begin(r, q, <<>>)
  /\ state' = [state EXCEPT ![r] = "done"]
  /\ sent' = [sent EXCEPT ![r] = <<"200">>]

(* A request arrives.                                                      *)
Accept(r, q) ==
  /\ Over(r) /\ q.route # "currency"
  /\ IF CallsFor(q) = <<>> THEN AtOnce(r, q) ELSE Start(r, q, CallsFor(q))
  /\ UNCHANGED currencyVars /\ SameIndex

(* The calls back.  The node answers -5 for what it does not know.         *)
Found(r, i) ==
  /\ \E to \in {"node", "db"} : Waits(r, i, to)
  /\ Known(ThisCall(r, i).of)
  /\ Act(r, i, ThisCall(r, i).found) /\ SameIndex

NotFound(r, i) ==
  /\ Waits(r, i, "node") /\ ~Known(ThisCall(r, i).of)
  /\ Act(r, i, ThisCall(r, i).none) /\ SameIndex

Fails(r, i) ==
  /\ \/ "rpcError" \in ApiFaults /\ Waits(r, i, "node")
     \/ "dbError" \in ApiFaults /\ Waits(r, i, "db")
  /\ Act(r, i, ThisCall(r, i).fail) /\ SameIndex

-----------------------------------------------------------------------------
(* currency: the rate is fetched when there is none or the last fetch      *)
(* began delay ago.                                                        *)
RateIsDue == ~rateKnown \/ now >= timestamp + Delay

Ticker == Call("ticker", Null, Go, Go, Go)

(* Mutant: the time of the fetch is noted when it answers.                 *)
FetchRateLate(r) ==
  /\ began' = [began EXCEPT ![r] = [at |-> now, knew |-> rateKnown]]
  /\ UNCHANGED <<rateKnown, timestamp>>

FetchRate(r) ==
  /\ timestamp' = now
  /\ began' = [began EXCEPT ![r] = [at |-> now, knew |-> rateKnown]]
  /\ UNCHANGED rateKnown

Currency(r, q) ==
  /\ Over(r) /\ q.route = "currency"
  /\ \/ RateIsDue /\ FetchRate(r) /\ Start(r, q, <<Ticker>>)
     \/ ~RateIsDue /\ AtOnce(r, q) /\ UNCHANGED currencyVars
  /\ SameIndex

(* On an error the old rate is sent; a body that does not parse is an      *)
(* uncaught error.                                                         *)
TickerAnswers(r, i) ==
  /\ Waits(r, i, "ticker")
  /\ \/ /\ \/ rateKnown' = TRUE
           \/ "tickerError" \in ApiFaults /\ UNCHANGED rateKnown
        /\ Left(r, <<>>) /\ Answer(r, <<"200">>)
        /\ began' = [began EXCEPT ![r] = NoFetch]
        /\ UNCHANGED timestamp
     \/ "garbled" \in ApiFaults /\ StartAgain
  /\ SameIndex

-----------------------------------------------------------------------------
(* The rest of the program and of the world.                               *)

Forget(t) ==
  /\ served' = served \ {t}
  /\ UNCHANGED <<indexVars, requestVars, currencyVars>>

NotRequests == UNCHANGED <<served, requestVars, currencyVars>>

Answers(r) ==
  \E i \in Current(r) : Found(r, i) \/ NotFound(r, i) \/ Fails(r, i) \/ TickerAnswers(r, i)

ApiNext ==
  \/ \E r \in Requests : \E q \in Menu[r] : Accept(r, q) \/ Currency(r, q)
  \/ \E r \in Requests : Answers(r)
  \/ \E b \in Blocks, hasTime \in BOOLEAN : AddBlockAt(b, hasTime) /\ NotRequests
  \/ \E b \in Blocks : TipTo(b) /\ NotRequests
  \/ \E t \in served \cap Announced : HandleTx(t) /\ NotRequests
  \/ \E t \in served \cap Announced : Forget(t)
  \/ Tick /\ NotRequests

ApiSpec == ApiInit /\ [][ApiNext]_apiVars

(* A call that was made calls back.                                        *)
ApiFairSpec == ApiSpec /\ \A r \in Requests : WF_apiVars(Answers(r))
=============================================================================
