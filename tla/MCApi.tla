-------------------------------- MODULE MCApi --------------------------------
(* A small node and a menu for the runs of Api.                            *)
EXTENDS ApiProps

CONSTANTS g, a1, t0, t1, t2, x, y, r1, r2

MCBlocks == {g, a1}
MCParent == (g :> Zero) @@ (a1 :> g)
MCHeight == (g :> 0) @@ (a1 :> 1)
(* a1's time may be ahead of the clock.                                    *)
MCBlockTime == (g :> 0) @@ (a1 :> 1)
MCTxs == {t0, t1, t2}
MCTxSeqOf == (g :> <<t0>>) @@ (a1 :> <<t1, t2>>)
(* Another transaction than t2 spends an output of x too; none of y's.     *)
MCTxSeqOfAddr == (x :> <<t1, t2>>) @@ (y :> <<t2>>)
MCPaidBy == (x :> <<t1, t2, t1>>) @@ (y :> <<t2, t1>>)

(* Requests in two parts that share nothing.  "lists": one                 *)
(* request after the other, of everything but the rate: one block, one     *)
(* transaction, and of the list of a block's transactions one page.        *)
(* "rate": two requests for the rate at once.                              *)
RateMenu == [r \in {r1, r2} |-> {Question("currency", Null)}]
MCMenu ==
  (r1 :> {q \in Questions : /\ q.route # "currency"
                            /\ q.route = "block" => q.of = a1
                            /\ q.route = "tx" => q.of = t1
                            /\ q.route \in {"txsOfBlock", "txsOfAddress"} =>
                                 q.page = Null \/ (q.page = 1 /\ q.of \in {a1, x})})
  @@ (r2 :> {})
TxsMenu ==
  [r \in {r1, r2} |-> {[route |-> "latestTxs", of |-> Null, page |-> 2]}]

VARIABLE part  \* of the run: neither has state of the other

partVars == <<apiVars, part>>
ListsEnd == 1  \* bound on now in the first part
In(p) == part = p /\ UNCHANGED part

PartsInit == ApiInit /\ part \in {"lists", "rate"}

PartsNext ==
  \/ \E r \in Requests : \E q \in Menu[r] : In("lists") /\ Accept(r, q)
  \/ \E r \in Requests : \E q \in RateMenu[r] : In("rate") /\ Currency(r, q)
  \/ \E r \in Requests : \E i \in Current(r) : UNCHANGED part /\ Found(r, i)
  \/ \E r \in Requests : \E i \in Current(r) : UNCHANGED part /\ NotFound(r, i)
  \/ \E r \in Requests : \E i \in Current(r) : UNCHANGED part /\ Fails(r, i)
  \/ \E r \in Requests : UNCHANGED part /\ TickerAnswers(r, 1)
  \/ \E b \in Blocks, hasTime \in BOOLEAN :
       In("lists") /\ AddBlockAt(b, hasTime) /\ NotRequests
  \/ \E b \in Blocks : In("lists") /\ TipTo(b) /\ NotRequests
  \/ \E t \in served \cap Announced : In("lists") /\ HandleTx(t) /\ NotRequests
  \/ \E t \in served \cap Announced : In("lists") /\ Forget(t)
  \/ UNCHANGED part /\ (part = "lists" => now < ListsEnd) /\ Tick /\ NotRequests

PartsSpec ==
  /\ PartsInit /\ [][PartsNext]_partVars
  /\ \A r \in Requests : WF_partVars(Answers(r) /\ UNCHANGED part)
=============================================================================
