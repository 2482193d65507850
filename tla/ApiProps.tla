------------------------------ MODULE ApiProps ------------------------------
(***************************************************************************)
(* What the API promises its clients.                                      *)
(***************************************************************************)
EXTENDS Api

Deeds == {"go", "skip", "list", "hang", "send", "fail", "report", "die"}
Calls == [to : {"node", "db", "ticker"}, of : Blocks \cup Txs \cup {Null, Zero},
          found : {Go, List}, none : [do : Deeds, codes : Seq(Codes)],
          fail : [do : Deeds, codes : Seq(Codes)]]

ApiTypeOK ==
  /\ BlockDbTypeOK /\ TimeIndexTypeOK
  /\ served \subseteq Txs
  /\ asks \in [Requests -> Questions]
  /\ state \in [Requests -> {"idle", "busy", "done", "hung"}]
  /\ todo \in [Requests -> Seq(Seq(Calls))]
  /\ \A r \in Requests :
       /\ state[r] \in {"busy", "hung"} => Current(r) # {}
       /\ state[r] = "busy" => sent[r] = <<>>
  /\ sent \in [Requests -> Seq(Codes)] /\ called \in [Requests -> BOOLEAN]
  /\ rateKnown \in BOOLEAN /\ timestamp \in Times
  /\ began \in [Requests -> [at : Times, knew : BOOLEAN]]

(* A request is answered once, although updateAddress calls back on an     *)
(* error and again after its batch (lib/TransactionDb.js:452 and 523), and *)
(* the transactions that getUtxo asks for go on after one of them failed   *)
(* (app/models/Address.js:96).  The exception is a list of transactions of *)
(* an address, which passes the request on to the next route after an      *)
(* error: it is answered these two times and no third.                     *)
AnsweredOnce ==
  \A r \in Requests :
    Len(sent[r]) > 1 => asks[r].route = "txsOfAddress" /\ sent[r] = <<"404", "200">>

(* The calls after which a handler does not go on: getTransaction for a    *)
(* transaction of which the node sent nothing, and isConfirmed for one of  *)
(* several spends of an output.                                            *)
NoAnswerFor(r) ==
  LET call == ThisCall(r, 1)
  IN \/ call.of \in Txs /\ asks[r].route \in {"txsOfBlock", "txsOfAddress", "latestTxs"}
     \/ call.to = "db" /\ asks[r].of \in DoubleSpent

(* Every other request is answered, whatever else the program is doing, or *)
(* ends with the process.                                                  *)
EveryRequestEnds ==
  \A r \in Requests :
    Busy(r) ~> (state[r] \in {"done", "idle"} \/ (state[r] = "hung" /\ NoAnswerFor(r)))

(* Once there is a rate, requests do not fetch it more often than every    *)
(* delay, also while a fetch is slow or has failed: of the fetches in      *)
(* flight, two that began with a rate began at least delay apart.          *)
OneRefresh ==
  \A r, q \in Requests :
    /\ r # q /\ Waits(r, 1, "ticker") /\ Waits(q, 1, "ticker")
    /\ began[r].knew /\ began[q].knew
    => began[r].at >= began[q].at + Delay \/ began[q].at >= began[r].at + Delay

(* The list of the latest blocks begins with the blocks of the latest      *)
(* seconds up to now, latest first, by the second that add() was given     *)
(* (lib/BlockDb.js:50): as many as were asked for, if there are so many,   *)
(* and one of each second.  A block that is not among them is earlier than *)
(* all of them, or another was stored later for its second.                *)
LatestListsBlocks ==
  \A limit \in Limits :
    LET listed == LatestBlocks(limit)
        Past(b) == Has(b) /\ addedAt[b] <= now
        seconds == Cardinality({addedAt[b] : b \in {c \in Blocks : Past(c)}})
        top == IF seconds < limit THEN 1..seconds ELSE 1..limit
    IN /\ \A i \in top : listed[i] \in Blocks /\ Past(listed[i])
       /\ \A i, j \in top : i < j => addedAt[listed[j]] < addedAt[listed[i]]
       /\ \A b \in Blocks : Past(b) /\ b \notin replaced =>
            \/ \E i \in top : listed[i] = b
            \/ seconds > limit /\ \A i \in top : addedAt[b] < addedAt[listed[i]]

(* A list request is answered.  Not so when the node has dropped a listed  *)
(* transaction: see the run ApiHang.                                       *)
ListsAnswer ==
  \A r \in Requests : (asks[r].route = "latestTxs" /\ Busy(r)) ~> (state[r] = "done")
=============================================================================
