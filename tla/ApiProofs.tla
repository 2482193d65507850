------------------------------ MODULE ApiProofs ------------------------------
(***************************************************************************)
(* Theorems about Api, for every set of connections, every menu, every set *)
(* of faults and every number of blocks, transactions and addresses.       *)
(***************************************************************************)
EXTENDS ApiProps, FiniteSetTheorems, SequenceTheorems, TLAPS

-----------------------------------------------------------------------------
(* Refreshing the rate                                                     *)

(* Fetches in flight began at the time on record or before, and any two of *)
(* them that knew a rate a delay apart.                                    *)
RateInv ==
  /\ now \in Nat /\ timestamp \in Nat /\ timestamp <= now
  /\ rateKnown \in BOOLEAN
  /\ began \in [Requests -> [at : Nat, knew : BOOLEAN]]
  /\ \A r \in Requests : began[r].knew => rateKnown /\ began[r].at <= timestamp
  /\ \A r, q \in Requests :
       r # q /\ began[r].knew /\ began[q].knew =>
         began[r].at >= began[q].at + Delay \/ began[q].at >= began[r].at + Delay

LEMMA NoFetchFacts == NoFetch \in [at : Nat, knew : BOOLEAN] /\ ~NoFetch.knew
<1>1. NoFetch.knew = FALSE
  BY DEF NoFetch
<1> QED
  BY <1>1 DEF NoFetch

(* No fetch is in flight.                                                  *)
LEMMA NoFetchRateInv ==
  ASSUME now' \in Nat, timestamp' = now', rateKnown' = FALSE,
         began' = [r \in Requests |-> NoFetch]
  PROVE  RateInv'
<1>1. \A r \in Requests : began'[r] = NoFetch
  OBVIOUS
<1>2. (began \in [Requests -> [at : Nat, knew : BOOLEAN]])'
  BY NoFetchFacts
<1>3. \A r \in Requests : ~began'[r].knew
  BY <1>1, NoFetchFacts, Zenon
<1>4. timestamp' <= now'
  OBVIOUS
<1>5. rateKnown' \in BOOLEAN
  OBVIOUS
<1> QED
  BY <1>2, <1>3, <1>4, <1>5 DEF RateInv

LEMMA InitRateInv == ApiInit => RateInv
<1> SUFFICES ASSUME ApiInit PROVE RateInv
  OBVIOUS
<1>1. /\ now = 0 /\ timestamp = now /\ rateKnown = FALSE
      /\ began = [r \in Requests |-> NoFetch]
  BY DEF ApiInit, TimeIndexInit
<1>2. \A r \in Requests : began[r] = NoFetch
  BY <1>1
<1>3. began \in [Requests -> [at : Nat, knew : BOOLEAN]]
  BY <1>1, NoFetchFacts
<1>4. \A r \in Requests : ~began[r].knew
  BY <1>2, NoFetchFacts, Zenon
<1>5. rateKnown \in BOOLEAN
  BY <1>1
<1> QED
  BY <1>1, <1>3, <1>4, <1>5 DEF RateInv

(* A restart forgets every fetch.                                          *)
LEMMA StartAgainRateInv ==
  ASSUME RateInv, StartAgain, now' = now
  PROVE  RateInv'
BY NoFetchRateInv DEF RateInv, StartAgain

LEMMA ActRateInv ==
  ASSUME RateInv, SameIndex, NEW r, NEW i, NEW outcome, Act(r, i, outcome)
  PROVE  RateInv'
<1>0. now' = now
  BY DEF SameIndex, indexVars, timeVars
<1>1. CASE outcome.do = "die" /\ StartAgain
  BY <1>0, <1>1, StartAgainRateInv
<1>2. CASE UNCHANGED currencyVars
  BY <1>0, <1>2 DEF RateInv, currencyVars
<1> QED
  BY <1>1, <1>2 DEF Act

(* Every fetch of a request is due: a delay after the one before it.       *)
LEMMA CurrencyRateInv ==
  ASSUME RateInv, NEW r \in Requests, NEW q, Currency(r, q)
  PROVE  RateInv'
<1>0. now' = now
  BY DEF Currency, SameIndex, indexVars, timeVars
<1>1. CASE RateIsDue /\ FetchRate(r)
  BY <1>0, <1>1, ApiAssumption DEF RateInv, FetchRate, RateIsDue
<1>2. CASE UNCHANGED currencyVars
  BY <1>0, <1>2 DEF RateInv, currencyVars
<1> QED
  BY <1>1, <1>2 DEF Currency

LEMMA TickerRateInv ==
  ASSUME RateInv, NEW r \in Requests, NEW i, TickerAnswers(r, i)
  PROVE  RateInv'
<1>0. now' = now
  BY DEF TickerAnswers, SameIndex, indexVars, timeVars
<1>1. CASE StartAgain
  BY <1>0, <1>1, StartAgainRateInv
<1>2. CASE ~StartAgain
  <2>1. /\ began' = [began EXCEPT ![r] = NoFetch] /\ timestamp' = timestamp
        /\ rateKnown' \in BOOLEAN /\ (rateKnown => rateKnown')
    <3>1. rateKnown' = TRUE \/ rateKnown' = rateKnown
      BY <1>2 DEF TickerAnswers
    <3>2. rateKnown \in BOOLEAN
      BY DEF RateInv
    <3>3. rateKnown' \in BOOLEAN /\ (rateKnown => rateKnown')
      <4>1. CASE rateKnown' = TRUE
        BY <4>1, Zenon
      <4>2. CASE rateKnown' = rateKnown
        BY <3>2, <4>2, Zenon
      <4> QED
        BY <3>1, <4>1, <4>2, Zenon
    <3> QED
      BY <1>2, <3>3, Zenon DEF TickerAnswers
  <2>2. \A q \in Requests : began'[q] = IF q = r THEN NoFetch ELSE began[q]
    BY <2>1 DEF RateInv
  <2>3. (began \in [Requests -> [at : Nat, knew : BOOLEAN]])'
    BY <2>1, NoFetchFacts DEF RateInv
  <2>4. \A q \in Requests : began'[q].knew => q # r /\ began[q].knew
    BY <2>2, NoFetchFacts, Zenon
  <2>5. \A q \in Requests : q # r => began'[q].at = began[q].at
    BY <2>2
  <2>6. \A q \in Requests : began'[q].knew => rateKnown'
    BY <2>1, <2>4, Zenon DEF RateInv
  <2>7. \A q \in Requests : began'[q].knew => began'[q].at <= timestamp'
    BY <2>1, <2>4, <2>5 DEF RateInv
  <2>8. \A q, s \in Requests :
          q # s /\ began'[q].knew /\ began'[s].knew =>
            \/ began'[q].at >= began'[s].at + Delay
            \/ began'[s].at >= began'[q].at + Delay
    BY <2>4, <2>5 DEF RateInv
  <2> QED
    BY <1>0, <2>1, <2>3, <2>6, <2>7, <2>8 DEF RateInv
<1> QED
  BY <1>1, <1>2

LEMMA NextRateInv == RateInv /\ [ApiNext]_apiVars => RateInv'
<1> SUFFICES ASSUME RateInv, [ApiNext]_apiVars PROVE RateInv'
  OBVIOUS
<1>1. ASSUME NEW r \in Requests, NEW q, Accept(r, q) \/ Currency(r, q) PROVE RateInv'
  <2>1. CASE Accept(r, q)
    BY <2>1 DEF Accept, RateInv, currencyVars, SameIndex, indexVars, timeVars
  <2> QED
    BY <1>1, <2>1, CurrencyRateInv
<1>2. ASSUME NEW r \in Requests, Answers(r) PROVE RateInv'
  BY <1>2, ActRateInv, TickerRateInv DEF Answers, Found, NotFound, Fails
<1>3. CASE NotRequests /\ now' \in Nat /\ now' >= now
  BY <1>3 DEF NotRequests, RateInv, currencyVars
<1>4. ASSUME NEW b, NEW hasTime, AddBlockAt(b, hasTime), NotRequests PROVE RateInv'
  BY <1>3, <1>4 DEF RateInv, AddBlockAt
<1>5. ASSUME NEW b, TipTo(b), NotRequests PROVE RateInv'
  BY <1>3, <1>5 DEF RateInv, TipTo, timeVars
<1>6. ASSUME NEW t, HandleTx(t), NotRequests PROVE RateInv'
  BY <1>3, <1>6 DEF RateInv, HandleTx
<1>7. ASSUME NEW t, Forget(t) PROVE RateInv'
  BY <1>7 DEF Forget, RateInv, currencyVars, indexVars, timeVars
<1>8. CASE Tick /\ NotRequests
  BY <1>3, <1>8 DEF RateInv, Tick
<1>9. CASE UNCHANGED apiVars
  BY <1>9 DEF RateInv, apiVars, currencyVars, indexVars, timeVars
<1> QED
  BY <1>1, <1>2, <1>4, <1>5, <1>6, <1>7, <1>8, <1>9 DEF ApiNext

(* Once there is a rate, it is not fetched more often than every delay     *)
(* (app/controllers/currency.js:43), however many requests find it due.    *)
THEOREM RateIsFetchedOnce == ApiSpec => []OneRefresh
<1>1. RateInv => OneRefresh
  BY DEF RateInv, OneRefresh
<1> QED
  BY <1>1, InitRateInv, NextRateInv, PTL DEF ApiSpec

-----------------------------------------------------------------------------
(* Scans of the time index                                                 *)

(* Ranks number a finite set of seconds: they are injective, and by        *)
(* counting reach every number up to the size of the set.                  *)
LEMMA RankType ==
  ASSUME NEW S, S \subseteq Nat, IsFiniteSet(S), NEW t \in S
  PROVE  Rank(t, S) \in 1..Cardinality(S)
<1> DEFINE Later == {u \in S : u > t}
<1>1. /\ IsFiniteSet(S \ {t}) /\ Cardinality(S \ {t}) = Cardinality(S) - 1
      /\ Cardinality(S) \in Nat
  BY FS_RemoveElement, FS_CardinalityType
<1>2. Later \in SUBSET (S \ {t})
  OBVIOUS
<1> HIDE DEF Later
<1>3. IsFiniteSet(Later) /\ Cardinality(Later) <= Cardinality(S \ {t})
  BY <1>1, <1>2, FS_Subset
<1>4. Cardinality(Later) \in Nat
  BY <1>3, FS_CardinalityType
<1> QED
  BY <1>1, <1>3, <1>4 DEF Rank, Later

LEMMA RankInjective ==
  ASSUME NEW S, S \subseteq Nat, IsFiniteSet(S), NEW t \in S, NEW v \in S, t < v
  PROVE  Rank(v, S) < Rank(t, S)
<1> DEFINE Later(w) == {u \in S : u > w}
<1>0. t \in Nat /\ v \in Nat /\ \A u \in S : u \in Nat
  OBVIOUS
<1>1. /\ Later(t) \in SUBSET S /\ Later(v) \in SUBSET Later(t)
      /\ v \in Later(t) /\ v \notin Later(v)
  <2>1. Later(t) \in SUBSET S
    OBVIOUS
  <2>2. ASSUME NEW u \in S, u > v PROVE u > t
    BY <1>0, <2>2
  <2>3. v > t /\ ~(v > v)
    BY <1>0
  <2> QED
    BY <2>1, <2>2, <2>3
<1> HIDE DEF Later
<1>2. IsFiniteSet(Later(t))
  BY <1>1, FS_Subset
<1>3. /\ IsFiniteSet(Later(v)) /\ Cardinality(Later(v)) <= Cardinality(Later(t))
      /\ Cardinality(Later(v)) # Cardinality(Later(t))
  BY <1>1, <1>2, FS_Subset
<1>4. Cardinality(Later(t)) \in Nat /\ Cardinality(Later(v)) \in Nat
  BY <1>2, <1>3, FS_CardinalityType
<1> QED
  BY <1>3, <1>4 DEF Rank, Later

(* So LatestFirst lists every element once, the latest first.              *)
LEMMA LatestFirstLists ==
  ASSUME NEW S, S \subseteq Nat, IsFiniteSet(S)
  PROVE  /\ Cardinality(S) \in Nat
         /\ LatestFirst(S) \in [1..Cardinality(S) -> S]
         /\ \A t \in S : \E i \in 1..Cardinality(S) : LatestFirst(S)[i] = t
         /\ \A i, j \in 1..Cardinality(S) : i < j => LatestFirst(S)[j] < LatestFirst(S)[i]
<1> DEFINE n == Cardinality(S)
           rank == [t \in S |-> Rank(t, S)]
<1>1. n \in Nat
  BY FS_CardinalityType
<1>2. \A t, v \in S : Rank(t, S) = Rank(v, S) => t = v
  <2> SUFFICES ASSUME NEW t \in S, NEW v \in S, Rank(t, S) = Rank(v, S), t # v PROVE FALSE
    OBVIOUS
  <2>1. t < v \/ v < t
    <3>1. t \in Nat /\ v \in Nat
      OBVIOUS
    <3> QED
      BY <3>1
  <2>2. Rank(t, S) \in 1..Cardinality(S)
    BY RankType
  <2>3. Rank(t, S) < Rank(v, S) \/ Rank(v, S) < Rank(t, S)
    BY <2>1, RankInjective
  <2>4. Rank(t, S) \in Int
    BY <1>1, <2>2
  <2> HIDE DEF rank
  <2> QED
    BY <2>3, <2>4
<1>3. rank \in Injection(S, 1..n)
  BY <1>2, RankType DEF Injection, IsInjective
<1>4. IsFiniteSet(1..n) /\ Cardinality(1..n) = n
  BY <1>1, FS_Interval
<1>5. rank \in Surjection(S, 1..n)
  <2> HIDE DEF n, rank
  <2> QED
    BY <1>3, <1>4, FS_Injection DEF n
<1>6. \A i \in 1..n : \E t \in S : Rank(t, S) = i
  BY <1>5 DEF Surjection
<1>7. LatestFirst(S) \in [1..n -> S]
  BY <1>6 DEF LatestFirst
<1>8. ASSUME NEW t \in S PROVE \E i \in 1..n : LatestFirst(S)[i] = t
  <2>1. Rank(t, S) \in 1..n
    BY RankType
  <2>2. LatestFirst(S)[Rank(t, S)] = CHOOSE v \in S : Rank(v, S) = Rank(t, S)
    BY <2>1 DEF LatestFirst
  <2>3. LatestFirst(S)[Rank(t, S)] = t
    BY <1>2, <2>2
  <2> QED
    BY <2>1, <2>3
<1>9. ASSUME NEW i \in 1..n, NEW j \in 1..n, i < j
      PROVE  LatestFirst(S)[j] < LatestFirst(S)[i]
  <2> DEFINE t == LatestFirst(S)[i]
             v == LatestFirst(S)[j]
  <2>1. \A k \in 1..n : Rank(LatestFirst(S)[k], S) = k
    <3> SUFFICES ASSUME NEW k \in 1..n PROVE Rank(LatestFirst(S)[k], S) = k
      OBVIOUS
    <3>1. LatestFirst(S)[k] = CHOOSE u \in S : Rank(u, S) = k
      BY DEF LatestFirst
    <3> HIDE DEF n
    <3>2. \E u \in S : Rank(u, S) = k
      BY <1>6
    <3> QED
      BY <3>1, <3>2
  <2>2. t \in S /\ v \in S /\ Rank(t, S) = i /\ Rank(v, S) = j
    BY <1>7, <2>1
  <2> HIDE DEF t, v, n, rank
  <2>3. t \in Nat /\ v \in Nat /\ i \in Int /\ j \in Int
    BY <1>1, <2>2
  <2>4. t # v
    BY <1>9, <2>2, <2>3
  <2>5. ~(t < v)
    <3> SUFFICES ASSUME t < v PROVE FALSE
      OBVIOUS
    <3>1. Rank(v, S) < Rank(t, S)
      BY <2>2, RankInjective
    <3> QED
      BY <1>9, <2>2, <2>3, <3>1
  <2>6. v < t
    BY <2>3, <2>4, <2>5
  <2> QED
    BY <2>6 DEF t, v
<1> QED
  BY <1>1, <1>7, <1>8, <1>9

Filled(row, seconds) == {t \in seconds : row[t] # Null}

(* A scan returns the rows of its range, the latest first.                 *)
LEMMA RowsInLists ==
  ASSUME NEW row, NEW seconds \in SUBSET Times
  PROVE  /\ Filled(row, seconds) \subseteq Nat /\ IsFiniteSet(Filled(row, seconds))
         /\ Len(RowsIn(row, seconds)) = Cardinality(Filled(row, seconds))
         /\ \A i \in 1..Cardinality(Filled(row, seconds)) :
              RowsIn(row, seconds)[i] = row[LatestFirst(Filled(row, seconds))[i]]
<1> DEFINE S == {t \in seconds : row[t] # Null}
           R == {row[t] : t \in seconds} \ {Null}
           n == Cardinality(S)
           rows == RowsIn(row, seconds)
<1>1. S \subseteq Nat /\ Times \subseteq Nat /\ IsFiniteSet(S)
  <2>1. IsFiniteSet(Times)
    BY FS_Interval, TimeAssumption DEF Times
  <2> QED
    <3>1. Times \subseteq Nat
      BY TimeAssumption DEF Times
    <3>0. S \in SUBSET Times
      OBVIOUS
    <3>2. IsFiniteSet(S)
      <4> HIDE DEF S
      <4> QED
        BY <2>1, <3>0, FS_Subset
    <3> QED
      BY <3>0, <3>1, <3>2
<1>2. /\ n \in Nat /\ LatestFirst(S) \in [1..n -> S]
      /\ \A t \in S : \E i \in 1..n : LatestFirst(S)[i] = t
  <2> HIDE DEF S
  <2> QED
    BY <1>1, LatestFirstLists
<1>3. rows = [i \in 1..n |-> row[LatestFirst(S)[i]]]
  BY <1>2 DEF RowsIn
<1>4. rows \in [1..n -> R]
  <2>1. \A t \in S : row[t] \in R
    OBVIOUS
  <2> HIDE DEF S, R, rows, n
  <2> QED
    BY <1>2, <1>3, <2>1
<1>5. rows \in Seq(R) /\ Len(rows) = n
  <2> HIDE DEF R, rows, n
  <2> QED
    BY <1>2, <1>4, SeqDef, LenProperties
<1>6. \A i \in 1..n : rows[i] = row[LatestFirst(S)[i]]
  BY <1>3
<1> QED
  BY <1>1, <1>5, <1>6 DEF Filled

LEMMA RowsType ==
  ASSUME NEW row, NEW seconds \in SUBSET Times
  PROVE  RowsIn(row, seconds) \in Seq({row[t] : t \in seconds} \ {Null})
<1> DEFINE R == {row[t] : t \in seconds} \ {Null}
           S == Filled(row, seconds)
           rows == RowsIn(row, seconds)
<1>1. /\ S \subseteq Nat /\ IsFiniteSet(S) /\ Len(rows) = Cardinality(S)
      /\ \A i \in 1..Cardinality(S) : rows[i] = row[LatestFirst(S)[i]]
  BY RowsInLists
<1>2. LatestFirst(S) \in [1..Cardinality(S) -> S] /\ Cardinality(S) \in Nat
  <2> HIDE DEF S
  <2> QED
    BY <1>1, LatestFirstLists
<1>3. rows = [i \in 1..Cardinality(S) |-> row[LatestFirst(S)[i]]]
  BY <1>2 DEF RowsIn, Filled
<1>4. \A t \in S : row[t] \in R
  BY DEF Filled
<1>5. rows \in Seq(R)
  <2> HIDE DEF R, S, rows
  <2>1. rows \in [1..Cardinality(S) -> R]
    BY <1>2, <1>3, <1>4
  <2> QED
    BY <1>2, <2>1, SeqDef
<1> QED
  BY <1>5

-----------------------------------------------------------------------------
(* The lists of blocks                                                     *)

(* Every row holds a stored block of its second; every stored block's      *)
(* second has a row, which is the block's unless it was replaced.          *)
RowsInv ==
  /\ \A t \in Times : blockAt[t] # Null =>
       blockAt[t] \in Blocks /\ Has(blockAt[t]) /\ addedAt[blockAt[t]] = t
  /\ \A b \in Blocks : Has(b) =>
       /\ addedAt[b] \in Times /\ blockAt[addedAt[b]] # Null
       /\ b \notin replaced => blockAt[addedAt[b]] = b

IndexInv ==
  /\ BlockDbTypeOK /\ TimeIndexTypeOK
  /\ IsFiniteSet({b \in Blocks : Has(b)})
  /\ RowsInv

LEMMA InitIndexInv == ApiInit => IndexInv
<1> SUFFICES ASSUME ApiInit PROVE IndexInv
  OBVIOUS
<1>1. BlockDbTypeOK
  BY DEF ApiInit, BlockDbInit, BlockDbTypeOK, Hashes, MainFlags
<1>2. TimeIndexTypeOK
  BY TimeAssumption DEF ApiInit, TimeIndexInit, TimeIndexTypeOK, Times
<1>3. \A b \in Blocks : ~Has(b)
  BY DEF ApiInit, BlockDbInit, Has, Hashes
<1>4. IsFiniteSet({b \in Blocks : Has(b)})
  <2>1. {b \in Blocks : Has(b)} = {}
    BY <1>3
  <2> QED
    BY <2>1, FS_EmptySet
<1>5. RowsInv
  BY <1>3 DEF ApiInit, TimeIndexInit, RowsInv
<1> QED
  BY <1>1, <1>2, <1>4, <1>5 DEF IndexInv

LEMMA SameIndexInv == IndexInv /\ UNCHANGED indexVars => IndexInv'
BY DEF IndexInv, RowsInv, indexVars, blockVars, timeVars, historyVars, BlockDbTypeOK,
       TimeIndexTypeOK, Has

(* add() writes the block and its row; whose row it takes is replaced.     *)
LEMMA AddIndexInv ==
  ASSUME IndexInv, NEW b \in Blocks, NEW hasTime \in BOOLEAN, AddBlockAt(b, hasTime)
  PROVE  IndexInv'
<1> DEFINE at == IF hasTime THEN BlockTime[b] ELSE now
<1>1. at \in Times
  BY TimeAssumption DEF IndexInv, TimeIndexTypeOK
<1>2. /\ PutBlock(at, b) /\ AddBlock(b) /\ UNCHANGED <<now, txAt>> /\ ~Has(b)
      /\ addedAt' = [addedAt EXCEPT ![b] = at]
      /\ replaced' = replaced \cup {c \in Blocks : addedAt[c] = at}
  BY DEF AddBlockAt
<1> HIDE DEF at
<1>3. Parent[b] \in Hashes /\ Parent[b] # Null /\ b \in Hashes /\ b # Null
  BY TreeAssumption, BlocksAssumption DEF Hashes
<1>4. \A h \in Hashes : Has(h)' <=> Has(h) \/ h = b
  BY <1>2, <1>3 DEF AddBlock, Has, IndexInv, BlockDbTypeOK
<1>5. BlockDbTypeOK'
  BY <1>2, <1>3 DEF AddBlock, IndexInv, BlockDbTypeOK, MainFlags
<1>6. TimeIndexTypeOK'
  BY <1>1, <1>2 DEF PutBlock, IndexInv, TimeIndexTypeOK
<1>7. IsFiniteSet({h \in Blocks : Has(h)})'
  <2>1. {h \in Blocks : Has(h)}' = {h \in Blocks : Has(h)} \cup {b}
    BY <1>4 DEF Hashes
  <2> QED
    BY <2>1, FS_AddElement DEF IndexInv
<1>8. /\ \A t \in Times : blockAt'[t] = IF t = at THEN b ELSE blockAt[t]
      /\ \A h \in Blocks : addedAt'[h] = IF h = b THEN at ELSE addedAt[h]
  BY <1>1, <1>2 DEF PutBlock, IndexInv, TimeIndexTypeOK
<1>9. \A h \in Blocks : Has(h)' <=> Has(h) \/ h = b
  BY <1>4 DEF Hashes
<1>10. RowsInv'
  <2>1. ASSUME NEW t \in Times, blockAt'[t] # Null
        PROVE  \E c \in Blocks : blockAt'[t] = c /\ Has(c)' /\ addedAt'[c] = t
    <3>1. CASE t = at
      BY <1>8, <1>9, <3>1
    <3>2. CASE t # at
      <4>1. blockAt'[t] = blockAt[t]
        BY <1>8, <3>2
      <4>2. /\ blockAt[t] \in Blocks /\ Has(blockAt[t])
            /\ addedAt[blockAt[t]] = t /\ blockAt[t] # b
        BY <1>2, <2>1, <4>1 DEF IndexInv, RowsInv
      <4>3. \A c \in Blocks : Has(c) => Has(c)'
        BY <1>9
      <4> QED
        BY <1>8, <4>1, <4>2, <4>3
    <3> QED
      BY <3>1, <3>2
  <2>2. ASSUME NEW h \in Blocks, Has(h)'
        PROVE  /\ addedAt'[h] \in Times /\ blockAt'[addedAt'[h]] # Null
               /\ h \notin replaced' => blockAt'[addedAt'[h]] = h
    <3>1. CASE h = b
      BY <1>1, <1>3, <1>8, <3>1
    <3>2. CASE h # b
      <4>1. /\ addedAt'[h] = addedAt[h] /\ addedAt[h] \in Times
            /\ blockAt[addedAt[h]] # Null
            /\ h \notin replaced => blockAt[addedAt[h]] = h
        BY <1>8, <1>9, <2>2, <3>2 DEF IndexInv, RowsInv
      <4>2. h \notin replaced' => h \notin replaced /\ addedAt[h] # at
        BY <1>2
      <4> QED
        BY <1>3, <1>8, <4>1, <4>2
    <3> QED
      BY <3>1, <3>2
  <2> QED
    BY <2>1, <2>2 DEF RowsInv
<1> QED
  BY <1>5, <1>6, <1>7, <1>10 DEF IndexInv

LEMMA OtherIndexInv ==
  ASSUME IndexInv,
         \/ Tick
         \/ \E b \in Blocks : TipTo(b)
         \/ \E t \in Txs : HandleTx(t)
  PROVE  IndexInv'
<1>1. blockAt' = blockAt /\ addedAt' = addedAt /\ replaced' = replaced /\ prev' = prev
  BY DEF Tick, TipTo, HandleTx, SetTip, blockVars, timeVars, historyVars
<1>2. BlockDbTypeOK'
  BY DEF IndexInv, Tick, TipTo, HandleTx, SetTip, blockVars, BlockDbTypeOK, Hashes
<1>3. TimeIndexTypeOK'
  BY TimeAssumption
     DEF IndexInv, Tick, TipTo, HandleTx, timeVars, historyVars, blockVars, TimeIndexTypeOK,
         Times
<1>4. \A h : Has(h)' <=> Has(h)
  BY <1>1 DEF Has
<1>5. IsFiniteSet({b \in Blocks : Has(b)})' /\ RowsInv'
  BY <1>1, <1>4 DEF IndexInv, RowsInv
<1> QED
  BY <1>2, <1>3, <1>5 DEF IndexInv

LEMMA NextIndexInv == IndexInv /\ [ApiNext]_apiVars => IndexInv'
<1> SUFFICES ASSUME IndexInv, [ApiNext]_apiVars PROVE IndexInv'
  OBVIOUS
<1>1. ASSUME NEW r \in Requests, NEW q, Accept(r, q) \/ Currency(r, q) PROVE IndexInv'
  BY <1>1, SameIndexInv DEF Accept, Currency, SameIndex
<1>2. ASSUME NEW r \in Requests, Answers(r) PROVE IndexInv'
  BY <1>2, SameIndexInv DEF Answers, Found, NotFound, Fails, TickerAnswers, SameIndex
<1>3. ASSUME NEW b \in Blocks, NEW hasTime \in BOOLEAN, AddBlockAt(b, hasTime) PROVE IndexInv'
  BY <1>3, AddIndexInv
<1>4. ASSUME NEW b \in Blocks, TipTo(b) PROVE IndexInv'
  BY <1>4, OtherIndexInv
<1>5. ASSUME NEW t \in served \cap Announced, HandleTx(t) PROVE IndexInv'
  BY <1>5, OtherIndexInv, ApiAssumption
<1>6. ASSUME NEW t, Forget(t) PROVE IndexInv'
  BY <1>6, SameIndexInv DEF Forget
<1>7. CASE Tick
  BY <1>7, OtherIndexInv
<1>8. CASE UNCHANGED apiVars
  BY <1>8, SameIndexInv DEF apiVars
<1> QED
  BY <1>1, <1>2, <1>3, <1>4, <1>5, <1>6, <1>7, <1>8 DEF ApiNext

LEMMA MapType ==
  ASSUME NEW A, NEW B, NEW s \in Seq(A), NEW f, DOMAIN f = DOMAIN s,
         f = [i \in DOMAIN f |-> f[i]], \A i \in DOMAIN s : f[i] \in B
  PROVE  f \in Seq(B)
<1>1. DOMAIN s = 1..Len(s) /\ Len(s) \in Nat
  BY LenProperties
<1>2. f \in [1..Len(s) -> B]
  BY <1>1
<1> QED
  BY <1>1, <1>2, SeqDef

LEMMA RowsOfBlocks ==
  ASSUME IndexInv
  PROVE  RowsIn(blockAt, 0..now) \in Seq(Hashes)
<1> DEFINE rows == {blockAt[t] : t \in 0..now} \ {Null}
<1>1. 0..now \in SUBSET Times
  BY TimeAssumption DEF IndexInv, TimeIndexTypeOK, Times
<1>2. rows \subseteq Hashes
  BY <1>1 DEF IndexInv, TimeIndexTypeOK, Hashes
<1>3. RowsIn(blockAt, 0..now) \in Seq(rows)
  BY <1>1, RowsType, Zenon
<1> HIDE DEF rows
<1> QED
  BY <1>2, <1>3, SeqMonotonic

(* The rows below: one of each stored block, of which there are finitely   *)
(* many.                                                                   *)
LEMMA PrevRowsType ==
  ASSUME IndexInv
  PROVE  LET stored == SetToSeq({b \in Blocks : Has(b)})
         IN [i \in DOMAIN stored |-> prev[stored[i]]] \in Seq(Hashes)
<1> DEFINE S == {b \in Blocks : Has(b)}
           stored == SetToSeq(S)
           prevRows == [i \in DOMAIN stored |-> prev[stored[i]]]
<1>1. stored \in Seq(Blocks)
  <2>1. IsFiniteSet(S) /\ S \subseteq Blocks
    BY DEF IndexInv
  <2> HIDE DEF S
  <2>2. PICK f \in [1..Cardinality(S) -> S] : IsInjective(f)
    BY <2>1, FS_CardinalityType DEF ExistsBijection, Bijection, Injection
  <2>3. stored \in [1..Cardinality(S) -> S] /\ Cardinality(S) \in Nat
    BY <2>1, <2>2, FS_CardinalityType DEF SetToSeq
  <2>4. stored \in Seq(S)
    <3> HIDE DEF stored
    <3> QED
      BY <2>3, SeqDef
  <2> QED
    BY <2>1, <2>4, SeqMonotonic
<1>2. prevRows \in Seq(Hashes)
  <2> HIDE DEF stored
  <2>1. \A i \in DOMAIN stored : stored[i] \in Blocks
    BY <1>1
  <2>2. \A i \in DOMAIN stored : prev[stored[i]] \in Hashes
    BY <2>1 DEF IndexInv, BlockDbTypeOK, Hashes
  <2> QED
    BY <1>1, <2>2, MapType
<1> QED
  BY <1>2

(* The list begins with the rows.                                          *)
LEMMA LatestBlocksRows ==
  ASSUME IndexInv, NEW limit \in Nat, NEW i \in 1..limit,
         i <= Len(RowsIn(blockAt, 0..now))
  PROVE  LatestBlocks(limit)[i] = RowsIn(blockAt, 0..now)[i]
<1> DEFINE rows == RowsIn(blockAt, 0..now)
           S == {b \in Blocks : Has(b)}
           stored == SetToSeq(S)
           tipRow == IF tip = Null THEN <<>> ELSE <<tip>>
           prevRows == [k \in DOMAIN stored |-> prev[stored[k]]]
           all == rows \o tipRow \o prevRows
<1>1. rows \in Seq(Hashes)
  BY RowsOfBlocks
<1>2. tipRow \in Seq(Hashes)
  BY EmptySeq DEF IndexInv, BlockDbTypeOK
<1>3. prevRows \in Seq(Hashes)
  BY PrevRowsType
<1> HIDE DEF rows, tipRow, prevRows
<1>4. /\ all \in Seq(Hashes) /\ Len(all) = Len(rows) + Len(tipRow) + Len(prevRows)
      /\ i \in 1..Len(rows) => all[i] = rows[i]
  <2>1. /\ rows \o tipRow \in Seq(Hashes)
        /\ Len(rows \o tipRow) = Len(rows) + Len(tipRow)
        /\ i \in 1..Len(rows) => (rows \o tipRow)[i] = rows[i]
    BY <1>1, <1>2, ConcatProperties
  <2>2. Len(rows) \in Nat /\ Len(tipRow) \in Nat
    BY <1>1, <1>2, LenProperties
  <2> QED
    BY <1>3, <2>1, <2>2, ConcatProperties
<1> HIDE DEF all
<1>5. Len(rows) \in Nat /\ Len(tipRow) \in Nat /\ Len(prevRows) \in Nat
  BY <1>1, <1>2, <1>3, LenProperties
<1>6. i \in 1..Len(rows)
  BY <1>5 DEF rows
<1> DEFINE m == IF Len(all) < limit THEN Len(all) ELSE limit
<1>7. m \in Int /\ m <= Len(all) /\ i \in 1..m
  BY <1>4, <1>5, <1>6
<1> HIDE DEF m
<1>8. SubSeq(all, 1, m)[i] = all[i]
  <2>1. \A k \in 1..m : all[k] \in Hashes
    BY <1>4, <1>7, LenProperties
  <2> QED
    BY <1>4, <1>7, <2>1, SubSeqProperties
<1>9. LatestBlocks(limit) = AtMost(limit, all)
  BY DEF LatestBlocks, all, rows, tipRow, prevRows
<1>10. AtMost(limit, all) = SubSeq(all, 1, m)
  BY DEF AtMost, m
<1> QED
  BY <1>4, <1>6, <1>8, <1>9, <1>10 DEF rows

(* The list of the latest blocks has those of the latest seconds, latest   *)
(* first, by the second each was stored with, and misses none but those    *)
(* of whose second another was stored later (lib/BlockDb.js:50 and 231).   *)
THEOREM LatestListsAreLatest == ApiSpec => []LatestListsBlocks
<1>1. IndexInv => LatestListsBlocks
  <2> SUFFICES ASSUME IndexInv PROVE LatestListsBlocks
    OBVIOUS
  <2> DEFINE S == {t \in 0..now : blockAt[t] # Null}
             n == Cardinality(S)
             rows == RowsIn(blockAt, 0..now)
             Past(b) == Has(b) /\ addedAt[b] <= now
             stored == {c \in Blocks : Past(c)}
  <2>1. 0..now \in SUBSET Times /\ now \in Nat /\ Times \subseteq Nat
    BY TimeAssumption DEF IndexInv, TimeIndexTypeOK, Times
  <2>2. /\ S \subseteq Nat /\ IsFiniteSet(S) /\ Len(rows) = n
        /\ \A i \in 1..n : rows[i] = blockAt[LatestFirst(S)[i]]
    BY <2>1, RowsInLists DEF Filled
  <2>3. /\ n \in Nat /\ LatestFirst(S) \in [1..n -> S]
        /\ \A t \in S : \E i \in 1..n : LatestFirst(S)[i] = t
        /\ \A i, j \in 1..n : i < j => LatestFirst(S)[j] < LatestFirst(S)[i]
    <3> HIDE DEF S
    <3> QED
      BY <2>2, LatestFirstLists
  <2>4. S = {addedAt[b] : b \in stored}
    <3>1. ASSUME NEW t \in S PROVE t \in {addedAt[b] : b \in stored}
      <4>1. t \in Times /\ t <= now /\ blockAt[t] # Null
        BY <2>1
      <4>2. blockAt[t] \in Blocks /\ Has(blockAt[t]) /\ addedAt[blockAt[t]] = t
        BY <4>1 DEF IndexInv, RowsInv
      <4> QED
        BY <4>1, <4>2
    <3>2. ASSUME NEW b \in stored PROVE addedAt[b] \in S
      <4>1. addedAt[b] \in Times /\ blockAt[addedAt[b]] # Null /\ addedAt[b] <= now
        BY DEF IndexInv, RowsInv
      <4>2. addedAt[b] \in Nat
        BY <2>1, <4>1
      <4>3. addedAt[b] \in 0..now
        BY <2>1, <4>1, <4>2
      <4> QED
        BY <4>1, <4>3
    <3> QED
      BY <3>1, <3>2
  <2>5. ASSUME NEW i \in 1..n
        PROVE  /\ rows[i] \in Blocks /\ Past(rows[i])
               /\ addedAt[rows[i]] = LatestFirst(S)[i]
    <3>1. LatestFirst(S)[i] \in S /\ rows[i] = blockAt[LatestFirst(S)[i]]
      <4> HIDE DEF S, n, rows
      <4> QED
        BY <2>2, <2>3
    <3>2. /\ LatestFirst(S)[i] \in Times /\ LatestFirst(S)[i] <= now
          /\ blockAt[LatestFirst(S)[i]] # Null
      BY <2>1, <3>1
    <3> QED
      BY <3>1, <3>2 DEF IndexInv, RowsInv
  <2>6. ASSUME NEW b \in Blocks, Past(b), b \notin replaced
        PROVE  \E k \in 1..n : rows[k] = b /\ addedAt[b] = LatestFirst(S)[k]
    <3>1. addedAt[b] \in S
      BY <2>4, <2>6
    <3>2. PICK k \in 1..n : LatestFirst(S)[k] = addedAt[b]
      <4> HIDE DEF S, n
      <4> QED
        BY <2>3, <3>1
    <3>3. blockAt[addedAt[b]] = b
      BY <2>6 DEF IndexInv, RowsInv
    <3>4. rows[k] = blockAt[LatestFirst(S)[k]]
      BY <2>2
    <3> QED
      BY <3>2, <3>3, <3>4
  <2>7. ASSUME NEW limit \in Limits, NEW i \in 1..n, i <= limit
        PROVE  LatestBlocks(limit)[i] = rows[i]
    <3>1. limit \in Nat /\ i \in 1..limit
      BY <2>3, <2>7, TimeAssumption
    <3>2. i <= Len(rows)
      BY <2>2, <2>3
    <3> QED
      BY <3>1, <3>2, LatestBlocksRows
  <2> HIDE DEF S, rows, Past
  <2>8. ASSUME NEW limit \in Limits
        PROVE  LET listed == LatestBlocks(limit)
                   top == IF n < limit THEN 1..n ELSE 1..limit
               IN /\ \A i \in top : listed[i] \in Blocks /\ Past(listed[i])
                  /\ \A i, j \in top : i < j => addedAt[listed[j]] < addedAt[listed[i]]
                  /\ \A b \in Blocks : Past(b) /\ b \notin replaced =>
                       \/ \E i \in top : listed[i] = b
                       \/ n > limit /\ \A i \in top : addedAt[b] < addedAt[listed[i]]
    <3> DEFINE listed == LatestBlocks(limit)
               top == IF n < limit THEN 1..n ELSE 1..limit
    <3>1. limit \in Nat
      BY TimeAssumption
    <3> HIDE DEF n
    <3>2. \A i \in top : i \in 1..n /\ i <= limit
      BY <2>3, <3>1
    <3>3. \A i \in 1..n : i \in top \/ (n > limit /\ \A j \in top : j < i)
      BY <2>3, <3>1
    <3> HIDE DEF top, listed
    <3>4. \A i \in top : listed[i] = rows[i]
      BY <2>7, <3>2 DEF listed
    <3>5. \A i \in top : /\ listed[i] \in Blocks /\ Past(listed[i])
                          /\ addedAt[listed[i]] = LatestFirst(S)[i]
      BY <2>5, <3>2, <3>4
    <3>6. \A i, j \in top : i < j => addedAt[listed[j]] < addedAt[listed[i]]
      BY <2>3, <3>2, <3>5
    <3>7. ASSUME NEW b \in Blocks, Past(b), b \notin replaced
          PROVE  \/ \E i \in top : listed[i] = b
                 \/ n > limit /\ \A i \in top : addedAt[b] < addedAt[listed[i]]
      <4>1. PICK k \in 1..n : rows[k] = b /\ addedAt[b] = LatestFirst(S)[k]
        BY <2>6, <3>7
      <4>2. CASE k \in top
        BY <3>4, <4>1, <4>2
      <4>3. CASE n > limit /\ \A j \in top : j < k
        BY <2>3, <3>2, <3>5, <4>1, <4>3
      <4> QED
        BY <3>3, <4>2, <4>3
    <3> QED
      BY <3>5, <3>6, <3>7 DEF top, listed
  <2>9. n = Cardinality({addedAt[b] : b \in {c \in Blocks : Past(c)}})
    BY <2>4
  <2> HIDE DEF n
  <2> QED
    BY <2>8, <2>9 DEF LatestListsBlocks, Past
<1> QED
  BY <1>1, InitIndexInv, NextIndexInv, PTL DEF ApiSpec

-----------------------------------------------------------------------------
(* What the handlers call                                                  *)

ListRoutes == {"latestBlocks", "txsOfBlock", "txsOfAddress", "latestTxs", "utxo"}

(* What a request of each route may be answered at once.                   *)
CodesOn(q) ==
  {<<c>> : c \in Codes} \cup (IF q.route = "txsOfAddress" THEN {<<"404", "200">>} ELSE {})

(* Handlers that answer themselves, and those that call back to an async   *)
(* function, which may go on after that.                                   *)
Quiet == {Go, Skip, Hang, Die}
Direct(q) == Quiet \cup {Send(codes) : codes \in CodesOn(q)}
Guarded(q) ==
  Quiet \cup {Fail(codes) : codes \in CodesOn(q)} \cup {Report(codes) : codes \in CodesOn(q)}

(* A call finds a list only on a list route.                               *)
Founds(q) == IF q.route \in ListRoutes THEN {Go, List} ELSE {Go}

CallsOn(F, O) ==
  [to : {"node", "db"}, of : Blocks \cup Txs \cup {Null, Zero},
   found : F, none : O, fail : O]

DirectCalls(q) == CallsOn(Founds(q), Direct(q))
GuardedCalls(q) == CallsOn(Founds(q), Guarded(q))

(* The calls of an item of which there are some left.                      *)
Items(C) == Seq(C) \ {<<>>}

LEMMA CodesOnFacts ==
  ASSUME NEW q
  PROVE  /\ \A c \in Codes : <<c>> \in CodesOn(q)
         /\ CodesOn(q) \subseteq Seq(Codes) /\ <<>> \notin CodesOn(q)
         /\ q.route = "txsOfAddress" => <<"404", "200">> \in CodesOn(q)
         /\ \A codes \in CodesOn(q) :
              Len(codes) > 1 => q.route = "txsOfAddress" /\ codes = <<"404", "200">>
<1>1. \A c \in Codes : <<c>> \in Seq(Codes) /\ <<c>> # <<>> /\ ~(Len(<<c>>) > 1)
  OBVIOUS
<1>2. <<"404", "200">> \in Seq(Codes) /\ <<"404", "200">> # <<>>
  BY DEF Codes
<1>3. \A codes \in CodesOn(q) :
        \/ \E c \in Codes : codes = <<c>>
        \/ q.route = "txsOfAddress" /\ codes = <<"404", "200">>
  BY DEF CodesOn
<1>4. \A c \in Codes : <<c>> \in CodesOn(q)
  BY DEF CodesOn
<1>5. q.route = "txsOfAddress" => <<"404", "200">> \in CodesOn(q)
  BY DEF CodesOn
<1> QED
  BY <1>1, <1>2, <1>3, <1>4, <1>5

LEMMA OutcomeFacts ==
  ASSUME NEW q, NEW O \in {Direct(q), Guarded(q)}
  PROVE  /\ Go \in O /\ Skip \in O /\ Hang \in O /\ Die \in O
         /\ Go \in Founds(q) /\ (q.route \in ListRoutes => List \in Founds(q))
BY DEF Direct, Guarded, Quiet, Founds

LEMMA CodeFacts ==
  ASSUME NEW q
  PROVE  /\ \A codes \in CodesOn(q) :
              /\ Send(codes) \in Direct(q)
              /\ Fail(codes) \in Guarded(q) /\ Report(codes) \in Guarded(q)
         /\ \A c \in Codes : Send(<<c>>) \in Direct(q)
         /\ HandleErrors \in Direct(q)
<1>1. \A codes \in CodesOn(q) :
        /\ Send(codes) \in Direct(q)
        /\ Fail(codes) \in Guarded(q) /\ Report(codes) \in Guarded(q)
  BY DEF Direct, Guarded
<1>2. \A c \in Codes : <<c>> \in CodesOn(q)
  BY CodesOnFacts
<1>3. "400/503" \in Codes
  BY DEF Codes
<1> QED
  BY <1>1, <1>2, <1>3 DEF HandleErrors

LEMMA CallsOnAreCalls ==
  ASSUME NEW q, NEW O \in {Direct(q), Guarded(q)}
  PROVE  Seq(Seq(CallsOn(Founds(q), O))) \subseteq Seq(Seq(Calls))
<1>1. Founds(q) \subseteq {Go, List}
  BY DEF Founds
<1>2. O \subseteq [do : Deeds, codes : Seq(Codes)]
  <2>1. CodesOn(q) \subseteq Seq(Codes) /\ <<>> \in Seq(Codes)
    BY CodesOnFacts, EmptySeq
  <2>2. \A codes \in CodesOn(q) :
          /\ Send(codes) \in [do : Deeds, codes : Seq(Codes)]
          /\ Fail(codes) \in [do : Deeds, codes : Seq(Codes)]
          /\ Report(codes) \in [do : Deeds, codes : Seq(Codes)]
    BY <2>1 DEF Send, Fail, Report, Deeds
  <2>3. Quiet \subseteq [do : Deeds, codes : Seq(Codes)]
    BY <2>1 DEF Quiet, Go, Skip, Hang, Die, Deeds
  <2> QED
    BY <2>2, <2>3 DEF Direct, Guarded
<1>3. CallsOn(Founds(q), O) \subseteq Calls
  BY <1>1, <1>2 DEF CallsOn, Calls
<1>4. Seq(CallsOn(Founds(q), O)) \subseteq Seq(Calls)
  BY <1>3, SeqMonotonic
<1> QED
  BY <1>4, SeqMonotonic

(* Calls to the node and to the databases.                                 *)
LEMMA NodeCall ==
  ASSUME NEW F, NEW O, Go \in F, NEW of \in Blocks \cup Txs \cup {Null, Zero},
         NEW none \in O, NEW fail \in O
  PROVE  Node(of, none, fail) \in CallsOn(F, O)
BY DEF Node, Call, CallsOn

LEMMA DbCall ==
  ASSUME NEW F, NEW O, Go \in F, Go \in O, NEW fail \in O
  PROVE  Db(fail) \in CallsOn(F, O)
BY DEF Db, Call, CallsOn

LEMMA ListCall ==
  ASSUME NEW F, NEW O, List \in F, Go \in O, NEW fail \in O
  PROVE  Call("db", Null, List, Go, fail) \in CallsOn(F, O)
BY DEF Call, CallsOn

LEMMA AsList ==
  ASSUME NEW F, NEW O, List \in F, NEW call \in CallsOn(F, O)
  PROVE  [call EXCEPT !.found = List] \in CallsOn(F, O)
BY DEF CallsOn

LEMMA OneCall ==
  ASSUME NEW C, NEW c \in C
  PROVE  <<c>> \in Items(C)
BY DEF Items

LEMMA TwoCalls ==
  ASSUME NEW C, NEW c \in C, NEW d \in C
  PROVE  <<c, d>> \in Items(C)
BY DEF Items

LEMMA ThreeCalls ==
  ASSUME NEW C, NEW c \in C, NEW d \in C, NEW e \in C
  PROVE  <<c, d, e>> \in Items(C)
BY DEF Items

LEMMA MoreCalls ==
  ASSUME NEW C, NEW s \in Items(C), NEW t \in Seq(C)
  PROVE  s \o t \in Items(C)
BY ConcatProperties, ConcatEqualIffEmpty DEF Items

LEMMA LastLists ==
  ASSUME NEW F, NEW O, List \in F, NEW s \in Items(CallsOn(F, O))
  PROVE  [s EXCEPT ![Len(s)].found = List] \in Items(CallsOn(F, O))
<1> DEFINE C == CallsOn(F, O)
           call == [s[Len(s)] EXCEPT !.found = List]
<1>1. s \in Seq(C) /\ Len(s) \in 1..Len(s) /\ s[Len(s)] \in C
  BY EmptySeq, LenProperties DEF Items
<1>2. call \in C
  BY <1>1, AsList
<1> HIDE DEF C
<1>3. [s EXCEPT ![Len(s)] = call] \in Seq(C) /\ Len([s EXCEPT ![Len(s)] = call]) = Len(s)
  <2> HIDE DEF call
  <2> QED
    BY <1>1, <1>2, ExceptSeq
<1>4. [s EXCEPT ![Len(s)] = call] # <<>>
  BY <1>1, <1>3, EmptySeq
<1> QED
  BY <1>3, <1>4 DEF Items, C

(* The parts of the handlers.                                              *)
LEMMA FromHashCalls ==
  ASSUME NEW F, NEW O, Go \in F, Go \in O,
         NEW b \in Hashes, NEW none \in O, NEW fail \in O
  PROVE  FromHashWithInfo(b, none, fail) \in Items(CallsOn(F, O))
<1>1. b \in Blocks \cup Txs \cup {Null, Zero}
  BY DEF Hashes
<1> QED
  BY <1>1, NodeCall, DbCall, TwoCalls DEF FromHashWithInfo

LEMMA FromIdCalls ==
  ASSUME NEW F, NEW O, Go \in F, Go \in O, NEW t \in Txs, NEW none \in O, NEW fail \in O
  PROVE  FromIdWithInfo(t, none, fail) \in Items(CallsOn(F, O))
<1>1. FillInfo \in CallsOn(F, O)
  BY DbCall DEF FillInfo
<1> QED
  BY <1>1, NodeCall, TwoCalls DEF FromIdWithInfo

LEMMA FromAddrCalls ==
  ASSUME NEW F, NEW O, Go \in F, Go \in O, Hang \in O,
         NEW a, NEW noOutputs \in O, NEW fail \in O
  PROVE  FromAddr(a, noOutputs, fail) \in Items(CallsOn(F, O))
<1> DEFINE C == CallsOn(F, O)
           several == IF a \in DoubleSpent THEN <<Db(Hang)>> ELSE <<>>
<1>1. /\ Db(noOutputs) \in C /\ Db(Go) \in C
      /\ Db(Hang) \in C /\ Db(fail) \in C
  BY DbCall
<1> HIDE DEF C
<1>2. <<Db(noOutputs), Db(Go)>> \in Items(C) /\ <<Db(fail)>> \in Seq(C)
  BY <1>1, TwoCalls
<1>3. several \in Seq(C)
  BY <1>1, EmptySeq
<1> HIDE DEF several
<1>4. <<Db(noOutputs), Db(Go)>> \o several \in Items(C)
  BY <1>2, <1>3, MoreCalls
<1>5. <<Db(noOutputs), Db(Go)>> \o several \o <<Db(fail)>> \in Items(C)
  BY <1>2, <1>4, MoreCalls
<1> QED
  BY <1>5 DEF FromAddr, several, C

LEMMA UpdateCalls ==
  ASSUME NEW q, NEW a, NEW codes \in CodesOn(q)
  PROVE  Update(a, codes) \in Items(GuardedCalls(q))
<1>1. /\ Go \in Founds(q) /\ Go \in Guarded(q) /\ Hang \in Guarded(q) /\ Die \in Guarded(q)
      /\ Report(codes) \in Guarded(q) /\ Fail(codes) \in Guarded(q)
  BY OutcomeFacts, CodeFacts
<1>2. FromAddr(a, Die, Report(codes)) \in Items(GuardedCalls(q))
  BY <1>1, FromAddrCalls DEF GuardedCalls
<1>3. <<Db(Go), Db(Fail(codes))>> \in Seq(GuardedCalls(q))
  <2>1. Db(Go) \in GuardedCalls(q) /\ Db(Fail(codes)) \in GuardedCalls(q)
    BY <1>1, DbCall DEF GuardedCalls
  <2> QED
    BY <2>1
<1> QED
  BY <1>2, <1>3, MoreCalls DEF Update

(* Every handler's calls are of its route.                                 *)
LEMMA HandlerCalls ==
  ASSUME NEW q \in Questions, q.route \notin {"plain", "currency"}
  PROVE  IF q.route \in {"address", "txsOfAddress"}
         THEN CallsFor(q) \in Items(GuardedCalls(q))
         ELSE CallsFor(q) \in Items(DirectCalls(q))
<1> DEFINE ofs == Blocks \cup Txs \cup {Null, Zero}
           C == DirectCalls(q)
<1>1. \A c \in Codes : Send(<<c>>) \in Direct(q)
  BY CodeFacts
<1>2. /\ Send(<<"200">>) \in Direct(q) /\ Send(<<"400">>) \in Direct(q)
      /\ Send(<<"404">>) \in Direct(q) /\ Send(<<"500">>) \in Direct(q)
  BY <1>1 DEF Codes
<1>3. /\ HandleErrors \in Direct(q) /\ Go \in Direct(q) /\ Hang \in Direct(q)
      /\ Go \in Founds(q) /\ (q.route \in ListRoutes => List \in Founds(q))
  BY OutcomeFacts, CodeFacts
<1>4. Null \in ofs
  OBVIOUS
<1>5. \A of \in ofs, none, fail \in Direct(q) : Node(of, none, fail) \in C
  BY <1>3, NodeCall DEF DirectCalls
<1>6. \A fail \in Direct(q) : Db(fail) \in C
  BY <1>3, DbCall DEF DirectCalls
<1>7. q.route \in ListRoutes =>
        \A fail \in Direct(q) : Call("db", Null, List, Go, fail) \in C
  BY <1>3, ListCall DEF DirectCalls
<1>8. CASE q.route = "block"
  <2>1. q.of \in Hashes
    BY <1>8 DEF Questions, Question, Hashes
  <2> QED
    BY <1>2, <1>3, <1>8, <2>1, FromHashCalls DEF CallsFor, ShowBlock, DirectCalls
<1>9. CASE q.route = "tx"
  <2>1. q.of \in Txs
    BY <1>9 DEF Questions, Question
  <2> QED
    BY <1>2, <1>3, <1>9, <2>1, FromIdCalls DEF CallsFor, ShowTx, DirectCalls
<1>10. CASE q.route = "utxo"
  <2> DEFINE calls == FromAddr(q.of, HandleErrors, HandleErrors)
  <2>1. calls \in Items(CallsOn(Founds(q), Direct(q)))
    BY <1>3, FromAddrCalls
  <2>2. [calls EXCEPT ![Len(calls)].found = List] \in Items(CallsOn(Founds(q), Direct(q)))
    <3> HIDE DEF calls
    <3> QED
      BY <1>3, <1>10, <2>1, LastLists DEF ListRoutes
  <2>3. Utxo(q.of) \in Items(DirectCalls(q))
    BY <2>2 DEF Utxo, DirectCalls
  <2> QED
    BY <1>10, <2>3 DEF CallsFor
<1>11. CASE q.route = "txsOfAddress"
  <2>1. <<"404", "200">> \in CodesOn(q)
    BY <1>11, CodesOnFacts
  <2> DEFINE calls == Update(q.of, <<"404", "200">>)
  <2>2. calls \in Items(GuardedCalls(q))
    BY <2>1, UpdateCalls
  <2>3. [calls EXCEPT ![Len(calls)].found = List] \in Items(GuardedCalls(q))
    <3> HIDE DEF calls
    <3> QED
      BY <1>3, <1>11, <2>2, LastLists DEF ListRoutes, GuardedCalls
  <2>4. TxsOfAddress(q.of) \in Items(GuardedCalls(q))
    BY <2>3 DEF TxsOfAddress
  <2> QED
    BY <1>11, <2>4 DEF CallsFor
<1>12. CASE q.route = "address"
  <2>1. <<"400/503">> \in CodesOn(q)
    BY CodesOnFacts DEF Codes
  <2>2. ShowAddress(q.of) \in Items(GuardedCalls(q))
    BY <2>1, UpdateCalls DEF ShowAddress
  <2> QED
    BY <1>12, <2>2 DEF CallsFor
<1> HIDE DEF C
<1>13. CASE q.route = "latestBlocks"
  BY <1>2, <1>7, <1>13, OneCall DEF CallsFor, BlocksScan, ListRoutes, C
<1>14. CASE q.route = "txsOfBlock"
  <2>1. q.of \in ofs
    BY <1>14 DEF Questions, Question
  <2>2. /\ Node(q.of, Send(<<"404">>), Send(<<"500">>)) \in C
        /\ Call("db", Null, List, Go, Send(<<"500">>)) \in C
    BY <1>2, <1>5, <1>7, <1>14, <2>1 DEF ListRoutes
  <2> QED
    BY <1>14, <2>2, TwoCalls DEF CallsFor, TxsOfBlock, C
<1>15. CASE q.route = "latestTxs"
  BY <1>2, <1>7, <1>15, OneCall DEF CallsFor, LatestTxs, ListRoutes, C
<1>16. CASE q.route = "send"
  BY <1>3, <1>4, <1>5, <1>16, OneCall DEF CallsFor, SendTx, C
<1>17. CASE q.route = "blockIndex"
  BY <1>2, <1>4, <1>5, <1>17, OneCall DEF CallsFor, BlockIndex, C
<1>18. CASE q.route = "statusInfo"
  BY <1>3, <1>4, <1>5, <1>18, OneCall DEF CallsFor, ShowStatus, GetInfo, C
<1>19. CASE q.route = "lastBlockHash"
  BY <1>2, <1>3, <1>4, <1>5, <1>6, <1>19, ThreeCalls DEF CallsFor, ShowStatus, LastBlockHash, C
<1>20. CASE q.route = "top100"
  BY <1>3, <1>6, <1>20, OneCall DEF CallsFor, Top100, C
<1> QED
  BY <1>8, <1>9, <1>10, <1>11, <1>12, <1>13, <1>14, <1>15, <1>16, <1>17, <1>18, <1>19, <1>20
     DEF Questions, Question

(* The items of a list.                                                    *)
LEMMA PartOfSeq ==
  ASSUME NEW S, NEW s \in Seq(S), NEW n \in Nat
  PROVE  /\ SubSeq(s, n + 1, Len(s)) \in Seq(S)
         /\ AtMost(n, s) \in Seq(S)
<1>1. Len(s) \in Nat /\ \A i \in 1..Len(s) : s[i] \in S
  BY LenProperties
<1>2. SubSeq(s, n + 1, Len(s)) \in Seq(S)
  <2>1. \A i \in n + 1..Len(s) : s[i] \in S
    BY <1>1
  <2>2. n + 1 \in Int /\ Len(s) \in Int
    BY <1>1
  <2> QED
    BY <2>1, <2>2, SubSeqProperties
<1>3. AtMost(n, s) \in Seq(S)
  <2> DEFINE m == IF Len(s) < n THEN Len(s) ELSE n
  <2>1. m \in Int /\ m <= Len(s)
    BY <1>1
  <2> HIDE DEF m
  <2>2. \A i \in 1..m : s[i] \in S
    BY <1>1, <2>1
  <2>3. SubSeq(s, 1, m) \in Seq(S)
    BY <2>1, <2>2, SubSeqProperties
  <2> QED
    BY <2>3 DEF AtMost, m
<1> QED
  BY <1>2, <1>3

LEMMA PageType ==
  ASSUME NEW s \in Seq(Txs), NEW page \in Pages \cup {Null}
  PROVE  Page(s, page) \in Seq(Txs)
<1>1. CASE page = Null
  BY <1>1 DEF Page
<1>2. CASE page # Null
  <2> DEFINE n == page * PageLength
  <2>1. n \in Nat /\ PageLength \in Nat
    BY <1>2, ApiAssumption DEF Pages
  <2> HIDE DEF n
  <2>2. AtMost(PageLength, SubSeq(s, n + 1, Len(s))) \in Seq(Txs)
    BY <2>1, PartOfSeq
  <2> QED
    BY <1>2, <2>2 DEF Page, n
<1> QED
  BY <1>1, <1>2

LEMMA LatestTransactionsType ==
  ASSUME IndexInv, NEW limit \in Nat
  PROVE  LatestTransactions(limit) \in Seq(Txs)
<1> DEFINE rows == {txAt[t] : t \in 0..now} \ {Null}
<1>1. 0..now \in SUBSET Times
  BY TimeAssumption DEF IndexInv, TimeIndexTypeOK, Times
<1>2. rows \subseteq Txs
  BY <1>1 DEF IndexInv, TimeIndexTypeOK
<1>3. RowsIn(txAt, 0..now) \in Seq(rows)
  BY <1>1, RowsType, Zenon
<1> HIDE DEF rows
<1>4. RowsIn(txAt, 0..now) \in Seq(Txs)
  BY <1>2, <1>3, SeqMonotonic
<1> QED
  BY <1>4, PartOfSeq DEF LatestTransactions

LEMMA LatestBlocksType ==
  ASSUME IndexInv, NEW limit \in Nat
  PROVE  LatestBlocks(limit) \in Seq(Hashes)
<1> DEFINE S == {b \in Blocks : Has(b)}
           stored == SetToSeq(S)
           tipRow == IF tip = Null THEN <<>> ELSE <<tip>>
           prevRows == [i \in DOMAIN stored |-> prev[stored[i]]]
           all == RowsIn(blockAt, 0..now) \o tipRow \o prevRows
<1>1. tipRow \in Seq(Hashes)
  BY EmptySeq DEF IndexInv, BlockDbTypeOK
<1>2. all \in Seq(Hashes)
  <2>1. prevRows \in Seq(Hashes)
    BY PrevRowsType
  <2> HIDE DEF tipRow, prevRows
  <2> QED
    BY <1>1, <2>1, RowsOfBlocks, ConcatProperties
<1>3. AtMost(limit, all) \in Seq(Hashes)
  <2> HIDE DEF all
  <2> QED
    BY <1>2, PartOfSeq
<1> QED
  BY <1>3 DEF LatestBlocks

LEMMA ItemCalls ==
  ASSUME NEW q
  PROVE  /\ \A b \in Hashes : ListedBlock(b) \in Items(DirectCalls(q))
         /\ \A t \in Txs : GetTransaction(t) \in Items(DirectCalls(q))
         /\ \A t \in Txs : UtxoItem(t) \in Items(GuardedCalls(q))
<1>1. /\ Send(<<"200">>) \in Direct(q) /\ Fail(<<"400/503">>) \in Guarded(q)
      /\ Go \in Founds(q) /\ Go \in Direct(q) /\ Skip \in Direct(q) /\ Hang \in Direct(q)
      /\ Skip \in Guarded(q)
  <2>1. <<"400/503">> \in CodesOn(q) /\ "200" \in Codes
    BY CodesOnFacts DEF Codes
  <2> QED
    BY <2>1, CodeFacts, OutcomeFacts
<1>2. ASSUME NEW b \in Hashes PROVE ListedBlock(b) \in Items(DirectCalls(q))
  BY <1>1, FromHashCalls DEF ListedBlock, DirectCalls
<1>3. ASSUME NEW t \in Txs PROVE GetTransaction(t) \in Items(DirectCalls(q))
  BY <1>1, FromIdCalls DEF GetTransaction, DirectCalls
<1>4. ASSUME NEW t \in Txs PROVE UtxoItem(t) \in Items(GuardedCalls(q))
  BY <1>1, NodeCall, OneCall DEF UtxoItem, GuardedCalls
<1> QED
  BY <1>2, <1>3, <1>4

LEMMA EachType ==
  ASSUME NEW A, NEW s \in Seq(A), NEW B
  PROVE  /\ (\A x \in A : ListedBlock(x) \in B) => Each(ListedBlock, s) \in Seq(B)
         /\ (\A x \in A : GetTransaction(x) \in B) => Each(GetTransaction, s) \in Seq(B)
         /\ (\A x \in A : UtxoItem(x) \in B) => Each(UtxoItem, s) \in Seq(B)
<1>1. \A i \in DOMAIN s : s[i] \in A
  OBVIOUS
<1>2. ASSUME \A x \in A : ListedBlock(x) \in B PROVE Each(ListedBlock, s) \in Seq(B)
  <2> DEFINE f == [i \in DOMAIN s |-> ListedBlock(s[i])]
  <2>1. DOMAIN f = DOMAIN s /\ f = [i \in DOMAIN f |-> f[i]] /\ \A i \in DOMAIN s : f[i] \in B
    BY <1>1, <1>2
  <2> HIDE DEF f
  <2>2. f \in Seq(B)
    BY <2>1, MapType
  <2> QED
    BY <2>2 DEF Each, f
<1>3. ASSUME \A x \in A : GetTransaction(x) \in B PROVE Each(GetTransaction, s) \in Seq(B)
  <2> DEFINE f == [i \in DOMAIN s |-> GetTransaction(s[i])]
  <2>1. DOMAIN f = DOMAIN s /\ f = [i \in DOMAIN f |-> f[i]] /\ \A i \in DOMAIN s : f[i] \in B
    BY <1>1, <1>3
  <2> HIDE DEF f
  <2>2. f \in Seq(B)
    BY <2>1, MapType
  <2> QED
    BY <2>2 DEF Each, f
<1>4. ASSUME \A x \in A : UtxoItem(x) \in B PROVE Each(UtxoItem, s) \in Seq(B)
  <2> DEFINE f == [i \in DOMAIN s |-> UtxoItem(s[i])]
  <2>1. DOMAIN f = DOMAIN s /\ f = [i \in DOMAIN f |-> f[i]] /\ \A i \in DOMAIN s : f[i] \in B
    BY <1>1, <1>4
  <2> HIDE DEF f
  <2>2. f \in Seq(B)
    BY <2>1, MapType
  <2> QED
    BY <2>2 DEF Each, f
<1> QED
  BY <1>2, <1>3, <1>4

LEMMA ListItems ==
  ASSUME IndexInv, NEW q \in Questions, q.route \in ListRoutes
  PROVE  IF q.route = "utxo"
         THEN ItemsFor(q) \in Seq(Items(GuardedCalls(q)))
         ELSE ItemsFor(q) \in Seq(Items(DirectCalls(q)))
<1>1. \A s \in Seq(Hashes) : Each(ListedBlock, s) \in Seq(Items(DirectCalls(q)))
  BY ItemCalls, EachType
<1>2. \A s \in Seq(Txs) : Each(GetTransaction, s) \in Seq(Items(DirectCalls(q)))
  BY ItemCalls, EachType
<1>3. \A s \in Seq(Txs) : Each(UtxoItem, s) \in Seq(Items(GuardedCalls(q)))
  BY ItemCalls, EachType
<1>4. CASE q.route = "latestBlocks"
  <2>1. q.page \in Limits
    BY <1>4 DEF Questions, Question
  <2>2. q.page \in Nat
    BY <2>1, TimeAssumption
  <2> QED
    BY <1>1, <1>4, <2>2, LatestBlocksType DEF ItemsFor
<1>5. CASE q.route = "latestTxs"
  <2>1. q.page \in Limits
    BY <1>5 DEF Questions, Question
  <2>2. q.page \in Nat
    BY <2>1, TimeAssumption
  <2> QED
    BY <1>2, <1>5, <2>2, LatestTransactionsType DEF ItemsFor
<1>6. CASE q.route = "txsOfBlock"
  <2>1. q.of \in Blocks /\ q.page \in Pages \cup {Null}
    BY <1>6 DEF Questions, Question
  <2>2. Page(TxSeqOf[q.of], q.page) \in Seq(Txs)
    BY <2>1, PageType, ApiAssumption
  <2> QED
    BY <1>2, <1>6, <2>2 DEF ItemsFor
<1>7. CASE q.route = "txsOfAddress"
  <2>1. q.of \in Addrs /\ q.page \in Pages \cup {Null}
    BY <1>7 DEF Questions, Question
  <2>2. Page(TxSeqOfAddr[q.of], q.page) \in Seq(Txs)
    BY <2>1, PageType, ApiAssumption
  <2> QED
    BY <1>2, <1>7, <2>2 DEF ItemsFor
<1>8. CASE q.route = "utxo"
  <2>1. q.of \in Addrs
    BY <1>8 DEF Questions, Question
  <2>2. PaidBy[q.of] \in Seq(Txs)
    BY <2>1, ApiAssumption
  <2> QED
    BY <1>3, <1>8, <2>2 DEF ItemsFor
<1> QED
  BY <1>4, <1>5, <1>6, <1>7, <1>8 DEF ListRoutes

-----------------------------------------------------------------------------
(* The requests                                                            *)

AllDirect(q, items) == items \in Seq(Seq(DirectCalls(q)))
AllGuarded(q, items) == q.route \in CalledOnce /\ items \in Seq(Seq(GuardedCalls(q)))

(* The calls that are left are of the route of the request.  Those that are*)
(* left after its answer call back through a function that drops it; before*)
(* the answer no item has failed.  The ticker is asked alone.              *)
RequestOK(r) ==
  /\ asks[r] \in Questions
  /\ state[r] \in {"idle", "busy", "done", "hung"}
  /\ sent[r] \in {<<>>} \cup CodesOn(asks[r])
  /\ called[r] \in BOOLEAN
  /\ \/ AllDirect(asks[r], todo[r])
     \/ AllGuarded(asks[r], todo[r])
     \/ todo[r] = <<<<Ticker>>>>
  /\ sent[r] # <<>> /\ todo[r] # <<>> => called[r] /\ AllGuarded(asks[r], todo[r])
  /\ sent[r] = <<>> => ~called[r] /\ \A i \in DOMAIN todo[r] : todo[r][i] # <<>>
  /\ Busy(r) => sent[r] = <<>> /\ todo[r] # <<>>
  /\ state[r] = "hung" => Current(r) # {}

RequestInv ==
  /\ asks = [r \in Requests |-> asks[r]]
  /\ state = [r \in Requests |-> state[r]]
  /\ todo = [r \in Requests |-> todo[r]]
  /\ sent = [r \in Requests |-> sent[r]]
  /\ called = [r \in Requests |-> called[r]]
  /\ \A r \in Requests : RequestOK(r)

LEMMA EmptyIsTyped == ASSUME NEW q PROVE AllDirect(q, <<>>)
BY EmptySeq DEF AllDirect

LEMMA IdleRequests == StartAgain => RequestInv'
<1> SUFFICES ASSUME StartAgain PROVE RequestInv'
  OBVIOUS
<1>1. Nothing \in Questions /\ AllDirect(Nothing, <<>>)
  BY EmptyIsTyped DEF Nothing, Questions
<1>2. ASSUME NEW r \in Requests PROVE RequestOK(r)'
  <2>1. /\ asks'[r] = Nothing /\ state'[r] = "idle" /\ todo'[r] = <<>> /\ sent'[r] = <<>>
        /\ called'[r] = FALSE
    BY DEF StartAgain
  <2>2. \A i \in DOMAIN todo'[r] : todo'[r][i] # <<>>
    BY <2>1
  <2> QED
    BY <1>1, <2>1, <2>2 DEF RequestOK, Busy
<1> QED
  BY <1>2 DEF RequestInv, StartAgain

LEMMA InitRequestInv == ApiInit => RequestInv
<1> SUFFICES ASSUME ApiInit PROVE RequestInv
  OBVIOUS
<1>1. Nothing \in Questions /\ AllDirect(Nothing, <<>>)
  BY EmptyIsTyped DEF Nothing, Questions
<1>2. ASSUME NEW r \in Requests PROVE RequestOK(r)
  <2>1. /\ asks[r] = Nothing /\ state[r] = "idle" /\ todo[r] = <<>> /\ sent[r] = <<>>
        /\ called[r] = FALSE
    BY DEF ApiInit
  <2>2. \A i \in DOMAIN todo[r] : todo[r][i] # <<>>
    BY <2>1
  <2> QED
    BY <1>1, <2>1, <2>2 DEF RequestOK, Busy
<1> QED
  BY <1>2 DEF RequestInv, ApiInit

(* A step of one request leaves the others alone.                          *)
OnlyOf(r) ==
  /\ asks' = [asks EXCEPT ![r] = asks'[r]] /\ state' = [state EXCEPT ![r] = state'[r]]
  /\ todo' = [todo EXCEPT ![r] = todo'[r]] /\ sent' = [sent EXCEPT ![r] = sent'[r]]
  /\ called' = [called EXCEPT ![r] = called'[r]]

LEMMA OneRequest ==
  ASSUME RequestInv, NEW r \in Requests, OnlyOf(r), RequestOK(r)'
  PROVE  RequestInv'
<1>2. ASSUME NEW p \in Requests, p # r PROVE RequestOK(p)'
  <2>1. /\ asks'[p] = asks[p] /\ state'[p] = state[p] /\ todo'[p] = todo[p]
        /\ sent'[p] = sent[p] /\ called'[p] = called[p]
    BY <1>2 DEF OnlyOf, RequestInv
  <2>2. RequestOK(p)
    BY DEF RequestInv
  <2> QED
    BY <2>1, <2>2 DEF RequestOK, Busy, Current
<1>3. /\ asks' = [p \in Requests |-> asks'[p]] /\ state' = [p \in Requests |-> state'[p]]
      /\ todo' = [p \in Requests |-> todo'[p]] /\ sent' = [p \in Requests |-> sent'[p]]
      /\ called' = [p \in Requests |-> called'[p]]
  BY DEF OnlyOf, RequestInv
<1> QED
  BY <1>2, <1>3 DEF RequestInv

(* The calls of the request after a step, and its answer.                  *)
LEMMA LeftIs ==
  ASSUME RequestInv, NEW r \in Requests, NEW items, Left(r, items)
  PROVE  /\ asks'[r] = asks[r] /\ todo'[r] = items
         /\ asks' = [asks EXCEPT ![r] = asks[r]] /\ todo' = [todo EXCEPT ![r] = items]
BY DEF RequestInv, Left

LEMMA SameAnswerIs ==
  ASSUME RequestInv, NEW r \in Requests, SameAnswer
  PROVE  /\ state'[r] = state[r] /\ sent'[r] = sent[r] /\ called'[r] = called[r]
         /\ state' = [state EXCEPT ![r] = state[r]] /\ sent' = [sent EXCEPT ![r] = sent[r]]
         /\ called' = [called EXCEPT ![r] = called[r]]
BY DEF RequestInv, SameAnswer

LEMMA AnswerIs ==
  ASSUME RequestInv, NEW r \in Requests, NEW codes \in CodesOn(asks[r]), sent[r] = <<>>,
         Answer(r, codes)
  PROVE  /\ state'[r] = "done" /\ sent'[r] = codes /\ called'[r] = TRUE
         /\ state' = [state EXCEPT ![r] = "done"] /\ sent' = [sent EXCEPT ![r] = codes]
         /\ called' = [called EXCEPT ![r] = TRUE]
<1>1. <<>> \o codes = codes
  BY CodesOnFacts, ConcatEmptySeq
<1> QED
  BY <1>1 DEF RequestInv, Answer

(* The answer of a handler that ends with it.                              *)
LEMMA LastAnswer ==
  ASSUME RequestInv, NEW r \in Requests, NEW codes \in CodesOn(asks[r]), sent[r] = <<>>,
         Left(r, <<>>), Answer(r, codes)
  PROVE  RequestInv'
<1>1. /\ asks'[r] = asks[r] /\ todo'[r] = <<>>
      /\ state'[r] = "done" /\ sent'[r] = codes /\ called'[r] = TRUE
  BY LeftIs, AnswerIs
<1>2. OnlyOf(r)
  BY LeftIs, AnswerIs DEF OnlyOf
<1>3. RequestOK(r)'
  <2>1. codes # <<>> /\ asks[r] \in Questions /\ AllDirect(asks[r], <<>>)
    BY CodesOnFacts, EmptyIsTyped DEF RequestInv, RequestOK
  <2> QED
    BY <1>1, <2>1 DEF RequestOK, Busy
<1> QED
  BY <1>2, <1>3, OneRequest

(* An error that is called back with while others of the request's calls   *)
(* may be in flight.                                                       *)
LEMMA CallbackRequest ==
  ASSUME RequestInv, NEW r \in Requests, NEW codes \in CodesOn(asks[r]), todo[r] # <<>>,
         state[r] # "hung", NEW items, AllGuarded(asks[r], items), Left(r, items), Callback(r, codes)
  PROVE  RequestInv'
<1>1. asks'[r] = asks[r] /\ todo'[r] = items
  BY LeftIs
<1>2. asks[r] \in Questions /\ RequestOK(r) /\ asks[r].route \in CalledOnce
  BY DEF RequestInv, RequestOK, AllGuarded
<1>3. CASE sent[r] = <<>>
  <2>1. Answer(r, codes)
    BY <1>2, <1>3 DEF Callback, Dropped, RequestOK
  <2>2. state'[r] = "done" /\ sent'[r] = codes /\ called'[r] = TRUE /\ OnlyOf(r)
    BY <1>3, <2>1, LeftIs, AnswerIs DEF OnlyOf
  <2>3. codes # <<>>
    BY CodesOnFacts
  <2>4. RequestOK(r)'
    BY <1>1, <1>2, <2>2, <2>3 DEF RequestOK, Busy
  <2> QED
    BY <2>2, <2>4, OneRequest
<1>4. CASE sent[r] # <<>>
  <2>1. SameAnswer
    BY <1>2, <1>4 DEF Callback, Dropped, RequestOK
  <2>2. state'[r] = state[r] /\ sent'[r] = sent[r] /\ called'[r] = called[r] /\ OnlyOf(r)
    BY <2>1, LeftIs, SameAnswerIs DEF OnlyOf
  <2>3. RequestOK(r)'
    BY <1>1, <1>2, <1>4, <2>2 DEF RequestOK, Busy
  <2> QED
    BY <2>2, <2>3, OneRequest
<1> QED
  BY <1>3, <1>4

(* The next call, the next item or the answer.                             *)
LEMMA ContinueRequest ==
  ASSUME RequestInv, NEW r \in Requests, todo[r] # <<>>, state[r] # "hung",
         NEW items, AllDirect(asks[r], items) \/ AllGuarded(asks[r], items),
         sent[r] # <<>> => Dropped(r) /\ AllGuarded(asks[r], items),
         sent[r] = <<>> => \A i \in DOMAIN items : items[i] # <<>>,
         Continue(r, items)
  PROVE  RequestInv'
<1>1. /\ asks'[r] = asks[r] /\ todo'[r] = items /\ Left(r, items)
      /\ asks[r] \in Questions /\ RequestOK(r)
  BY LeftIs DEF Continue, RequestInv, RequestOK
<1>2. CASE items = <<>> /\ ~Dropped(r)
  <2>1. sent[r] = <<>> /\ Answer(r, <<"200">>) /\ Left(r, <<>>)
    BY <1>1, <1>2 DEF Continue, Callback
  <2>2. <<"200">> \in CodesOn(asks[r])
    BY CodesOnFacts DEF Codes
  <2> QED
    BY <2>1, <2>2, LastAnswer
<1>3. CASE SameAnswer /\ (Dropped(r) \/ items # <<>>)
  <2>1. state'[r] = state[r] /\ sent'[r] = sent[r] /\ called'[r] = called[r] /\ OnlyOf(r)
    BY <1>1, <1>3, LeftIs, SameAnswerIs DEF OnlyOf
  <2>2. CASE sent[r] = <<>>
    <3>1. ~called[r] /\ items # <<>>
      BY <1>1, <1>3, <2>2 DEF RequestOK, Dropped
    <3>2. RequestOK(r)'
      BY <1>1, <2>1, <2>2, <3>1 DEF RequestOK, Busy
    <3> QED
      BY <2>1, <3>2, OneRequest
  <2>3. CASE sent[r] # <<>>
    <3>1. RequestOK(r)'
      BY <1>1, <2>1, <2>3 DEF RequestOK, Busy, Dropped
    <3> QED
      BY <2>1, <3>1, OneRequest
  <2> QED
    BY <2>2, <2>3
<1> QED
  BY <1>2, <1>3 DEF Continue, Callback

LEMMA WithoutOne ==
  ASSUME NEW C, NEW s \in Seq(Seq(C)), NEW i \in DOMAIN s, NEW calls \in Seq(C)
  PROVE  /\ RemoveAt(s, i) \in Seq(Seq(C)) /\ ReplaceAt(s, i, calls) \in Seq(Seq(C))
         /\ (\A k \in DOMAIN s : s[k] # <<>>) =>
              \A k \in DOMAIN RemoveAt(s, i) : RemoveAt(s, i)[k] # <<>>
         /\ (\A k \in DOMAIN s : s[k] # <<>>) /\ calls # <<>> =>
              \A k \in DOMAIN ReplaceAt(s, i, calls) : ReplaceAt(s, i, calls)[k] # <<>>
<1>1. Len(s) \in Nat /\ DOMAIN s = 1..Len(s) /\ i \in 1..Len(s)
  BY LenProperties
<1>2. ASSUME NEW S, \A k \in DOMAIN s : s[k] \in S
      PROVE  RemoveAt(s, i) \in Seq(S)
  <2>1. SubSeq(s, 1, i - 1) \in Seq(S)
    <3>1. \A k \in 1..(i - 1) : k \in 1..Len(s)
      BY <1>1
    <3>3. \A k \in 1..(i - 1) : s[k] \in S
      BY <1>1, <1>2, <3>1
    <3>2. i - 1 \in Int /\ 1 \in Int
      BY <1>1
    <3> QED
      BY <3>2, <3>3, SubSeqProperties
  <2>2. SubSeq(s, i + 1, Len(s)) \in Seq(S)
    <3>1. \A k \in (i + 1)..Len(s) : k \in 1..Len(s)
      BY <1>1
    <3>3. \A k \in (i + 1)..Len(s) : s[k] \in S
      BY <1>1, <1>2, <3>1
    <3>2. i + 1 \in Int /\ Len(s) \in Int
      BY <1>1
    <3> QED
      BY <3>2, <3>3, SubSeqProperties
  <2> QED
    BY <2>1, <2>2, ConcatProperties DEF RemoveAt
<1>3. RemoveAt(s, i) \in Seq(Seq(C))
  BY <1>2
<1>4. ASSUME \A k \in DOMAIN s : s[k] # <<>>
      PROVE  \A k \in DOMAIN RemoveAt(s, i) : RemoveAt(s, i)[k] # <<>>
  <2>1. \A k \in DOMAIN s : s[k] \in Items(C)
    BY <1>4 DEF Items
  <2>2. RemoveAt(s, i) \in Seq(Items(C))
    BY <1>2, <2>1
  <2>3. \A k \in DOMAIN RemoveAt(s, i) : RemoveAt(s, i)[k] \in Items(C)
    BY <2>2
  <2> QED
    BY <2>3 DEF Items
<1>5. ReplaceAt(s, i, calls) \in Seq(Seq(C))
  BY <1>1, ExceptSeq DEF ReplaceAt
<1>6. ASSUME \A k \in DOMAIN s : s[k] # <<>>, calls # <<>>
      PROVE  \A k \in DOMAIN ReplaceAt(s, i, calls) : ReplaceAt(s, i, calls)[k] # <<>>
  BY <1>6 DEF ReplaceAt
<1> QED
  BY <1>3, <1>4, <1>5, <1>6

(* What is left when a call has come back.                                 *)
LEMMA LeftCalls ==
  ASSUME NEW C, NEW r \in Requests, todo[r] \in Seq(Seq(C)), NEW i \in DOMAIN todo[r],
         todo[r][i] # <<>>
  PROVE  /\ ThisCall(r, i) \in C
         /\ Others(r, i) \in Seq(Seq(C)) /\ After(r, i) \in Seq(Seq(C))
         /\ ReplaceAt(todo[r], i, <<>>) \in Seq(Seq(C))
         /\ (\A k \in DOMAIN todo[r] : todo[r][k] # <<>>) =>
              /\ \A k \in DOMAIN Others(r, i) : Others(r, i)[k] # <<>>
              /\ \A k \in DOMAIN After(r, i) : After(r, i)[k] # <<>>
<1>1. todo[r][i] \in Seq(C)
  OBVIOUS
<1>2. ThisCall(r, i) \in C /\ Tail(todo[r][i]) \in Seq(C) /\ <<>> \in Seq(C)
  BY <1>1, HeadTailProperties, EmptySeq DEF ThisCall
<1>3. /\ Others(r, i) \in Seq(Seq(C))
      /\ (\A k \in DOMAIN todo[r] : todo[r][k] # <<>>) =>
           \A k \in DOMAIN Others(r, i) : Others(r, i)[k] # <<>>
  BY <1>2, WithoutOne DEF Others
<1>4. /\ ReplaceAt(todo[r], i, Tail(todo[r][i])) \in Seq(Seq(C))
      /\ ReplaceAt(todo[r], i, <<>>) \in Seq(Seq(C))
      /\ (\A k \in DOMAIN todo[r] : todo[r][k] # <<>>) /\ Tail(todo[r][i]) # <<>> =>
           \A k \in DOMAIN ReplaceAt(todo[r], i, Tail(todo[r][i])) :
             ReplaceAt(todo[r], i, Tail(todo[r][i]))[k] # <<>>
  BY <1>2, WithoutOne
<1> QED
  BY <1>2, <1>3, <1>4 DEF After

(* A call may be of both kinds only if it neither answers nor calls back.  *)
LEMMA OutcomeDeeds ==
  ASSUME NEW q, NEW outcome
  PROVE  /\ outcome \in Direct(q) =>
              /\ outcome.do \notin {"list", "fail", "report"}
              /\ outcome.do = "send" => outcome.codes \in CodesOn(q)
         /\ outcome \in Guarded(q) =>
              /\ outcome.do \notin {"list", "send"}
              /\ outcome.do \in {"fail", "report"} => outcome.codes \in CodesOn(q)
         /\ outcome \in Founds(q) =>
              /\ outcome.do \in {"go", "list"}
              /\ outcome.do = "list" => q.route \in ListRoutes
<1>1. \A o \in Quiet : o.do \in {"go", "skip", "hang", "die"}
  BY DEF Quiet, Go, Skip, Hang, Die
<1>2. ASSUME NEW codes
      PROVE  /\ Send(codes).do = "send" /\ Send(codes).codes = codes
             /\ Fail(codes).do = "fail" /\ Fail(codes).codes = codes
             /\ Report(codes).do = "report" /\ Report(codes).codes = codes
  BY DEF Send, Fail, Report
<1>3. outcome \in Founds(q) =>
        /\ outcome.do \in {"go", "list"}
        /\ outcome.do = "list" => q.route \in ListRoutes
  BY DEF Founds, Go, List
<1>4. outcome \in Direct(q) =>
        /\ outcome.do \notin {"list", "fail", "report"}
        /\ outcome.do = "send" => outcome.codes \in CodesOn(q)
  BY <1>1, <1>2 DEF Direct
<1>5. outcome \in Guarded(q) =>
        /\ outcome.do \notin {"list", "send"}
        /\ outcome.do \in {"fail", "report"} => outcome.codes \in CodesOn(q)
  BY <1>1, <1>2 DEF Guarded
<1> QED
  BY <1>3, <1>4, <1>5

LEMMA ActRequest ==
  ASSUME IndexInv, RequestInv, NEW r \in Requests, NEW i \in Current(r),
         state[r] # "hung", ThisCall(r, i).to # "ticker",
         NEW outcome \in {ThisCall(r, i).found, ThisCall(r, i).none, ThisCall(r, i).fail},
         Act(r, i, outcome)
  PROVE  RequestInv'
<1> DEFINE q == asks[r]
<1>1. RequestOK(r) /\ q \in Questions
  BY DEF RequestInv, RequestOK
<1>2. i \in DOMAIN todo[r] /\ todo[r][i] # <<>> /\ todo[r] # <<>>
  BY DEF Current
<1>0. AllDirect(q, todo[r]) \/ AllGuarded(q, todo[r])
  <2>1. todo[r] = <<<<Ticker>>>> => ThisCall(r, i) = Ticker
    BY <1>2 DEF ThisCall
  <2>2. Ticker.to = "ticker"
    BY DEF Ticker, Call
  <2> QED
    BY <1>1, <2>1, <2>2 DEF RequestOK
<1>3. ASSUME NEW C, todo[r] \in Seq(Seq(C))
      PROVE  /\ ThisCall(r, i) \in C
             /\ Others(r, i) \in Seq(Seq(C)) /\ After(r, i) \in Seq(Seq(C))
             /\ ReplaceAt(todo[r], i, <<>>) \in Seq(Seq(C))
             /\ (\A k \in DOMAIN todo[r] : todo[r][k] # <<>>) =>
                  /\ \A k \in DOMAIN Others(r, i) : Others(r, i)[k] # <<>>
                  /\ \A k \in DOMAIN After(r, i) : After(r, i)[k] # <<>>
  BY <1>2, <1>3, LeftCalls
<1>4. /\ AllDirect(q, todo[r]) =>
           /\ AllDirect(q, Others(r, i)) /\ AllDirect(q, After(r, i))
           /\ outcome \in Founds(q) \cup Direct(q)
      /\ AllGuarded(q, todo[r]) =>
           /\ AllGuarded(q, Others(r, i)) /\ AllGuarded(q, After(r, i))
           /\ AllGuarded(q, ReplaceAt(todo[r], i, <<>>))
           /\ outcome \in Founds(q) \cup Guarded(q)
  <2>1. ASSUME AllDirect(q, todo[r])
        PROVE  /\ AllDirect(q, Others(r, i)) /\ AllDirect(q, After(r, i))
               /\ outcome \in Founds(q) \cup Direct(q)
    <3>1. /\ ThisCall(r, i) \in DirectCalls(q)
          /\ AllDirect(q, Others(r, i)) /\ AllDirect(q, After(r, i))
      BY <1>3, <2>1 DEF AllDirect
    <3> QED
      BY <3>1 DEF DirectCalls, CallsOn
  <2>2. ASSUME AllGuarded(q, todo[r])
        PROVE  /\ AllGuarded(q, Others(r, i)) /\ AllGuarded(q, After(r, i))
               /\ AllGuarded(q, ReplaceAt(todo[r], i, <<>>))
               /\ outcome \in Founds(q) \cup Guarded(q)
    <3>1. /\ ThisCall(r, i) \in GuardedCalls(q)
          /\ AllGuarded(q, Others(r, i)) /\ AllGuarded(q, After(r, i))
          /\ AllGuarded(q, ReplaceAt(todo[r], i, <<>>))
      BY <1>3, <2>2 DEF AllGuarded
    <3> QED
      BY <3>1 DEF GuardedCalls, CallsOn
  <2> QED
    BY <2>1, <2>2
<1>5. sent[r] = <<>> =>
        /\ \A k \in DOMAIN Others(r, i) : Others(r, i)[k] # <<>>
        /\ \A k \in DOMAIN After(r, i) : After(r, i)[k] # <<>>
  <2>1. sent[r] = <<>> => \A k \in DOMAIN todo[r] : todo[r][k] # <<>>
    BY <1>1 DEF RequestOK
  <2> QED
    BY <1>0, <1>3, <2>1 DEF AllDirect, AllGuarded
<1>6. /\ AllDirect(q, todo[r]) \/ AllGuarded(q, todo[r])
      /\ sent[r] # <<>> => Dropped(r) /\ AllGuarded(q, todo[r])
  BY <1>0, <1>1, <1>2 DEF RequestOK, Dropped, AllGuarded
<1>7. CASE outcome.do = "go" /\ Continue(r, After(r, i))
  BY <1>2, <1>4, <1>5, <1>6, <1>7, ContinueRequest
<1>8. CASE outcome.do = "skip" /\ Continue(r, Others(r, i))
  BY <1>2, <1>4, <1>5, <1>6, <1>8, ContinueRequest
<1>9. CASE outcome.do = "list" /\ ~Dropped(r) /\ Continue(r, ItemsFor(q))
  <2>1. q.route \in ListRoutes /\ sent[r] = <<>>
    BY <1>4, <1>6, <1>9, OutcomeDeeds
  <2>2. \/ q.route = "utxo" /\ ItemsFor(q) \in Seq(Items(GuardedCalls(q)))
        \/ ItemsFor(q) \in Seq(Items(DirectCalls(q)))
    BY <1>1, <2>1, ListItems
  <2>3. ASSUME NEW C, ItemsFor(q) \in Seq(Items(C))
        PROVE  /\ ItemsFor(q) \in Seq(Seq(C))
               /\ \A k \in DOMAIN ItemsFor(q) : ItemsFor(q)[k] # <<>>
    <3>1. Items(C) \subseteq Seq(C)
      BY DEF Items
    <3>2. \A k \in DOMAIN ItemsFor(q) : ItemsFor(q)[k] \in Items(C)
      BY <2>3
    <3> QED
      BY <2>3, <3>1, <3>2, SeqMonotonic DEF Items
  <2>4. AllDirect(q, ItemsFor(q)) \/ AllGuarded(q, ItemsFor(q))
    BY <2>2, <2>3 DEF AllDirect, AllGuarded, CalledOnce
  <2>5. \A k \in DOMAIN ItemsFor(q) : ItemsFor(q)[k] # <<>>
    BY <2>2, <2>3
  <2> QED
    BY <1>2, <1>9, <2>1, <2>4, <2>5, ContinueRequest
<1>10. CASE outcome.do = "list" /\ Dropped(r) /\ Left(r, <<>>) /\ SameAnswer
  <2>1. /\ asks'[r] = q /\ todo'[r] = <<>> /\ state'[r] = state[r] /\ sent'[r] = sent[r]
        /\ called'[r] = called[r] /\ OnlyOf(r)
    BY <1>10, LeftIs, SameAnswerIs DEF OnlyOf
  <2>2. sent[r] # <<>> /\ AllDirect(q, <<>>)
    BY <1>1, <1>10, EmptyIsTyped DEF RequestOK, Dropped
  <2>3. RequestOK(r)'
    BY <1>1, <2>1, <2>2 DEF RequestOK, Busy
  <2> QED
    BY <2>1, <2>3, OneRequest
<1>11. CASE outcome.do = "send" /\ Left(r, <<>>) /\ Answer(r, outcome.codes)
  <2>1. ~AllGuarded(q, todo[r]) /\ outcome.codes \in CodesOn(q)
    BY <1>4, <1>6, <1>11, OutcomeDeeds
  <2> QED
    BY <1>6, <1>11, <2>1, LastAnswer
<1>12. CASE /\ outcome.do \in {"fail", "report"} /\ Callback(r, outcome.codes)
            /\ Left(r, ReplaceAt(todo[r], i, <<>>)) \/ Left(r, After(r, i))
  <2>1. AllGuarded(q, todo[r]) /\ outcome.codes \in CodesOn(q)
    BY <1>4, <1>6, <1>12, OutcomeDeeds
  <2> QED
    BY <1>2, <1>4, <1>12, <2>1, CallbackRequest
<1>13. CASE state' = [state EXCEPT ![r] = "hung"] /\ UNCHANGED <<asks, todo, sent, called>>
  <2>1. /\ asks'[r] = q /\ todo'[r] = todo[r] /\ state'[r] = "hung" /\ sent'[r] = sent[r]
        /\ called'[r] = called[r] /\ i \in Current(r)'
    BY <1>13 DEF RequestInv, Current
  <2>2. OnlyOf(r)
    <3>1. /\ asks' = [asks EXCEPT ![r] = asks[r]] /\ todo' = [todo EXCEPT ![r] = todo[r]]
          /\ sent' = [sent EXCEPT ![r] = sent[r]] /\ called' = [called EXCEPT ![r] = called[r]]
      BY <1>13 DEF RequestInv
    <3> QED
      BY <1>13, <3>1 DEF OnlyOf
  <2>3. RequestOK(r)'
    BY <1>1, <2>1 DEF RequestOK, Busy
  <2> QED
    BY <2>2, <2>3, OneRequest
<1>14. CASE StartAgain
  BY <1>14, IdleRequests
<1> QED
  BY <1>7, <1>8, <1>9, <1>10, <1>11, <1>12, <1>13, <1>14 DEF Act, Does

LEMMA AnswersRequest ==
  ASSUME IndexInv, RequestInv, NEW r \in Requests, Answers(r)
  PROVE  RequestInv'
<1>1. PICK i \in Current(r) :
        Found(r, i) \/ NotFound(r, i) \/ Fails(r, i) \/ TickerAnswers(r, i)
  BY DEF Answers
<1>2. CASE Found(r, i) \/ NotFound(r, i) \/ Fails(r, i)
  <2>1. state[r] # "hung" /\ ThisCall(r, i).to # "ticker"
    BY <1>2 DEF Found, NotFound, Fails, Waits
  <2> QED
    BY <1>2, <2>1, ActRequest DEF Found, NotFound, Fails
<1>3. CASE TickerAnswers(r, i) /\ ~StartAgain
  <2>1. ThisCall(r, i).to = "ticker" /\ Left(r, <<>>) /\ Answer(r, <<"200">>)
    BY <1>3 DEF TickerAnswers, Waits
  <2>2. <<"200">> \in CodesOn(asks[r])
    BY CodesOnFacts DEF Codes
  <2>3. sent[r] = <<>>
    <3>1. i \in DOMAIN todo[r] /\ todo[r][i] # <<>> /\ todo[r] # <<>> /\ RequestOK(r)
      BY DEF Current, RequestInv
    <3>2. ~AllGuarded(asks[r], todo[r])
      <4> SUFFICES ASSUME AllGuarded(asks[r], todo[r]) PROVE FALSE
        OBVIOUS
      <4>1. todo[r][i] \in Seq(GuardedCalls(asks[r]))
        BY <3>1 DEF AllGuarded
      <4>2. ThisCall(r, i) \in GuardedCalls(asks[r])
        BY <3>1, <4>1, HeadTailProperties DEF ThisCall
      <4> QED
        BY <2>1, <4>2 DEF GuardedCalls, CallsOn
    <3> QED
      BY <3>1, <3>2 DEF RequestOK
  <2> QED
    BY <2>1, <2>2, <2>3, LastAnswer
<1>4. CASE StartAgain
  BY <1>4, IdleRequests
<1> QED
  BY <1>1, <1>2, <1>3, <1>4

LEMMA AskRequest ==
  ASSUME RequestInv, NEW r \in Requests, NEW q \in Questions,
         Accept(r, q) \/ Currency(r, q)
  PROVE  RequestInv'
<1>1. ASSUME NEW calls, calls # <<>>, Start(r, q, calls),
             \/ AllDirect(q, <<calls>>) \/ AllGuarded(q, <<calls>>)
             \/ <<calls>> = <<<<Ticker>>>>
      PROVE  RequestInv'
  <2>1. /\ asks'[r] = q /\ todo'[r] = <<calls>> /\ state'[r] = "busy"
        /\ sent'[r] = <<>> /\ called'[r] = FALSE
    BY <1>1 DEF Start, Begin, RequestInv
  <2>2. OnlyOf(r)
    BY <1>1 DEF Start, Begin, RequestInv, OnlyOf
  <2>3. <<calls>> # <<>> /\ \A i \in DOMAIN <<calls>> : <<calls>>[i] # <<>>
    BY <1>1
  <2>4. RequestOK(r)'
    BY <1>1, <2>1, <2>3 DEF RequestOK, Busy
  <2> QED
    BY <2>2, <2>4, OneRequest
<1>2. CASE AtOnce(r, q)
  <2>1. /\ asks'[r] = q /\ todo'[r] = <<>> /\ state'[r] = "done"
        /\ sent'[r] = <<"200">> /\ called'[r] = FALSE
    BY <1>2 DEF AtOnce, Begin, RequestInv
  <2>2. OnlyOf(r)
    BY <1>2 DEF AtOnce, Begin, RequestInv, OnlyOf
  <2>3. <<"200">> \in CodesOn(q) /\ <<"200">> # <<>>
    BY CodesOnFacts DEF Codes
  <2>4. RequestOK(r)'
    BY <2>1, <2>3, EmptyIsTyped DEF RequestOK, Busy
  <2> QED
    BY <2>2, <2>4, OneRequest
<1>3. CASE Accept(r, q) /\ ~AtOnce(r, q)
  <2>1. CallsFor(q) # <<>> /\ Start(r, q, CallsFor(q)) /\ q.route # "currency"
    BY <1>3 DEF Accept
  <2>2. q.route # "plain"
    BY <2>1 DEF CallsFor
  <2>3. ASSUME NEW C, CallsFor(q) \in Items(C) PROVE <<CallsFor(q)>> \in Seq(Seq(C))
    BY <2>3 DEF Items
  <2>4. AllDirect(q, <<CallsFor(q)>>) \/ AllGuarded(q, <<CallsFor(q)>>)
    <3>1. CASE q.route \in {"address", "txsOfAddress"}
      BY <2>1, <2>2, <2>3, <3>1, HandlerCalls DEF AllGuarded, CalledOnce
    <3>2. CASE q.route \notin {"address", "txsOfAddress"}
      BY <2>1, <2>2, <2>3, <3>2, HandlerCalls DEF AllDirect
    <3> QED
      BY <3>1, <3>2
  <2> QED
    BY <1>1, <2>1, <2>4
<1>4. CASE Currency(r, q) /\ ~AtOnce(r, q)
  <2>1. Start(r, q, <<Ticker>>) /\ <<Ticker>> # <<>>
    BY <1>4 DEF Currency
  <2> QED
    BY <1>1, <2>1
<1> QED
  BY <1>2, <1>3, <1>4

LEMMA SameRequests ==
  ASSUME RequestInv, UNCHANGED requestVars
  PROVE  RequestInv'
<1>1. ASSUME NEW r \in Requests PROVE RequestOK(r)'
  BY DEF requestVars, RequestInv, RequestOK, Busy, Current
<1> QED
  BY <1>1 DEF RequestInv, requestVars

LEMMA NextRequestInv ==
  ASSUME IndexInv, RequestInv, [ApiNext]_apiVars
  PROVE  RequestInv'
<1>1. ASSUME NEW r \in Requests, NEW q \in Menu[r], Accept(r, q) \/ Currency(r, q)
      PROVE  RequestInv'
  <2>1. q \in Questions
    BY ApiAssumption
  <2> QED
    BY <1>1, <2>1, AskRequest
<1>2. ASSUME NEW r \in Requests, Answers(r) PROVE RequestInv'
  BY <1>2, AnswersRequest
<1>3. CASE UNCHANGED requestVars
  BY <1>3, SameRequests
<1> QED
  BY <1>1, <1>2, <1>3 DEF ApiNext, NotRequests, Forget, apiVars

(* The rest of the state.                                                  *)
RestInv ==
  /\ served \subseteq Txs
  /\ rateKnown \in BOOLEAN /\ timestamp \in Times
  /\ began \in [Requests -> [at : Times, knew : BOOLEAN]]

LEMMA InitRestInv == ApiInit => RestInv
<1> SUFFICES ASSUME ApiInit PROVE RestInv
  OBVIOUS
<1>1. timestamp \in Times /\ 0 \in Times
  BY TimeAssumption DEF ApiInit, TimeIndexInit, Times
<1>2. NoFetch \in [at : Times, knew : BOOLEAN]
  BY <1>1 DEF NoFetch
<1>3. rateKnown = FALSE
  BY DEF ApiInit
<1>4. rateKnown \in BOOLEAN
  BY <1>3
<1> QED
  BY <1>1, <1>2, <1>4 DEF ApiInit, RestInv

LEMMA NextRestInv == IndexInv /\ RateInv /\ RestInv /\ [ApiNext]_apiVars => RestInv'
<1> SUFFICES ASSUME IndexInv, RateInv, RestInv, [ApiNext]_apiVars PROVE RestInv'
  OBVIOUS
<1>1. now \in Times /\ 0 \in Times
  BY TimeAssumption DEF IndexInv, TimeIndexTypeOK, Times
<1>2. NoFetch \in [at : Times, knew : BOOLEAN]
  BY <1>1 DEF NoFetch
<1>3. rateKnown' \in BOOLEAN
  BY NextRateInv DEF RateInv
<1>4. CASE StartAgain /\ served' = served
  BY <1>1, <1>2, <1>3, <1>4 DEF StartAgain, RestInv
<1>5. CASE UNCHANGED currencyVars /\ served' \subseteq served
  BY <1>5 DEF currencyVars, RestInv
<1>6. ASSUME NEW r \in Requests, NEW i, NEW outcome, Act(r, i, outcome), SameIndex
      PROVE  RestInv'
  BY <1>4, <1>5, <1>6 DEF Act, SameIndex
<1>7. ASSUME NEW r \in Requests, FetchRate(r), SameIndex PROVE RestInv'
  <2>1. [at |-> now, knew |-> rateKnown] \in [at : Times, knew : BOOLEAN]
    BY <1>1 DEF RestInv
  <2> QED
    BY <1>1, <1>3, <1>7, <2>1 DEF FetchRate, RestInv, SameIndex
<1>8. ASSUME NEW r \in Requests, NEW i, TickerAnswers(r, i) PROVE RestInv'
  <2>1. CASE StartAgain
    BY <1>4, <1>8, <2>1 DEF TickerAnswers, SameIndex
  <2>2. CASE began' = [began EXCEPT ![r] = NoFetch] /\ UNCHANGED timestamp
    BY <1>2, <1>3, <1>8, <2>2 DEF TickerAnswers, SameIndex, RestInv
  <2> QED
    BY <1>8, <2>1, <2>2 DEF TickerAnswers
<1>9. ASSUME NEW r \in Requests, NEW q, Accept(r, q) \/ Currency(r, q) PROVE RestInv'
  BY <1>5, <1>7, <1>9 DEF Accept, Currency, SameIndex
<1>10. ASSUME NEW r \in Requests, Answers(r) PROVE RestInv'
  BY <1>6, <1>8, <1>10 DEF Answers, Found, NotFound, Fails
<1>11. ASSUME NEW t, Forget(t) PROVE RestInv'
  BY <1>5, <1>11 DEF Forget
<1>12. CASE NotRequests \/ UNCHANGED apiVars
  BY <1>5, <1>12 DEF NotRequests, apiVars
<1> QED
  BY <1>9, <1>10, <1>11, <1>12 DEF ApiNext

ApiInv == RateInv /\ IndexInv /\ RequestInv /\ RestInv

LEMMA ApiInvariant == ApiSpec => []ApiInv
<1>1. ApiInit => ApiInv
  BY InitRateInv, InitIndexInv, InitRequestInv, InitRestInv DEF ApiInv
<1>2. ApiInv /\ [ApiNext]_apiVars => ApiInv'
  BY NextRateInv, NextIndexInv, NextRequestInv, NextRestInv DEF ApiInv
<1> QED
  BY <1>1, <1>2, PTL DEF ApiSpec

(* Every variable keeps its type; in particular every handler and every    *)
(* list of it is a list of calls, and a request that is not answered yet   *)
(* has a call in flight.                                                   *)
THEOREM ApiTypeCorrect == ApiSpec => []ApiTypeOK
<1>1. ApiInv => ApiTypeOK
  <2> SUFFICES ASSUME ApiInv PROVE ApiTypeOK
    OBVIOUS
  <2>1. ASSUME NEW r \in Requests
        PROVE  /\ asks[r] \in Questions /\ state[r] \in {"idle", "busy", "done", "hung"}
               /\ todo[r] \in Seq(Seq(Calls)) /\ sent[r] \in Seq(Codes)
               /\ called[r] \in BOOLEAN
               /\ state[r] \in {"busy", "hung"} => Current(r) # {}
               /\ state[r] = "busy" => sent[r] = <<>>
    <3>1. RequestOK(r)
      BY DEF ApiInv, RequestInv
    <3>2. Ticker \in Calls
      BY EmptySeq DEF Ticker, Call, Calls, Go, Deeds
    <3>3. todo[r] \in Seq(Seq(Calls))
      <4>1. AllDirect(asks[r], todo[r]) => todo[r] \in Seq(Seq(Calls))
        BY CallsOnAreCalls DEF AllDirect, DirectCalls
      <4>2. AllGuarded(asks[r], todo[r]) => todo[r] \in Seq(Seq(Calls))
        BY CallsOnAreCalls DEF AllGuarded, GuardedCalls
      <4>3. <<<<Ticker>>>> \in Seq(Seq(Calls))
        BY <3>2
      <4> QED
        BY <3>1, <4>1, <4>2, <4>3 DEF RequestOK
    <3>4. sent[r] \in Seq(Codes)
      BY <3>1, CodesOnFacts, EmptySeq DEF RequestOK
    <3>5. state[r] = "busy" => Current(r) # {}
      <4> SUFFICES ASSUME state[r] = "busy" PROVE 1 \in Current(r)
        OBVIOUS
      <4>1. todo[r] # <<>> /\ \A i \in DOMAIN todo[r] : todo[r][i] # <<>>
        BY <3>1 DEF RequestOK, Busy
      <4>2. 1 \in DOMAIN todo[r]
        BY <3>3, <4>1, EmptySeq, LenProperties
      <4>3. AtATime(asks[r]) >= 1
        BY ApiAssumption DEF AtATime
      <4> QED
        BY <4>1, <4>2, <4>3 DEF Current
    <3> QED
      BY <3>1, <3>3, <3>4, <3>5 DEF RequestOK, Busy
  <2>2. /\ asks \in [Requests -> Questions]
        /\ state \in [Requests -> {"idle", "busy", "done", "hung"}]
        /\ todo \in [Requests -> Seq(Seq(Calls))]
        /\ sent \in [Requests -> Seq(Codes)] /\ called \in [Requests -> BOOLEAN]
    BY <2>1 DEF ApiInv, RequestInv
  <2>3. BlockDbTypeOK /\ TimeIndexTypeOK
    BY DEF ApiInv, IndexInv
  <2>4. RestInv
    BY DEF ApiInv
  <2> QED
    BY <2>1, <2>2, <2>3, <2>4 DEF ApiTypeOK, RestInv
<1> QED
  BY <1>1, ApiInvariant, PTL

(* No request is answered twice, although calls go on after an answer and  *)
(* call back with another error (lib/TransactionDb.js:452 and 523,         *)
(* app/models/Address.js:96), but for the list of an address               *)
(* (app/controllers/transactions.js:119), which is answered these two times*)
(* and no third.                                                           *)
THEOREM RequestsAnsweredOnce == ApiSpec => []AnsweredOnce
<1>1. ApiInv => AnsweredOnce
  <2> SUFFICES ASSUME ApiInv, NEW r \in Requests, Len(sent[r]) > 1
               PROVE  asks[r].route = "txsOfAddress" /\ sent[r] = <<"404", "200">>
    BY DEF AnsweredOnce
  <2>1. sent[r] \in {<<>>} \cup CodesOn(asks[r])
    BY DEF ApiInv, RequestInv, RequestOK
  <2>2. sent[r] # <<>>
    BY EmptySeq
  <2> QED
    BY <2>1, <2>2, CodesOnFacts
<1> QED
  BY <1>1, ApiInvariant, PTL
=============================================================================
