----------------------------- MODULE TreeProofs -----------------------------
(***************************************************************************)
(* Lemmas about the ancestors of a block, for every tree of blocks, finite *)
(* or not.  Lineage is a recursive function: that it has the value its     *)
(* equation asks for is proved first, from the least set that is closed    *)
(* under Parent, and everything else follows from that set.                *)
(***************************************************************************)
EXTENDS BlockTree, WellFoundedInduction, TLAPS

Closed(S) == \A k \in S : Parent[k] # Zero => Parent[k] \in S

(* The least closed set that contains b.                                   *)
Ancestors(b) == {h \in Blocks : \A S \in SUBSET Blocks : b \in S /\ Closed(S) => h \in S}

(* The blocks of b's lineage that are x or above it.                       *)
Above(x, b) == {h \in Lineage(b) : x \in Lineage(h)}

LEMMA AncestorsStep ==
  ASSUME NEW b \in Blocks
  PROVE  Ancestors(b) = IF Parent[b] = Zero THEN {b} ELSE {b} \cup Ancestors(Parent[b])
<1> USE BlocksAssumption, TreeAssumption DEF Closed
<1>1. CASE Parent[b] = Zero
  <2>1. {b} \in SUBSET Blocks /\ Closed({b})
    BY <1>1
  <2>2. Ancestors(b) \subseteq {b}
    BY <2>1 DEF Ancestors
  <2> QED
    BY <1>1, <2>2 DEF Ancestors
<1>2. CASE Parent[b] # Zero
  <2> DEFINE p == Parent[b]
  <2>1. p \in Blocks
    BY <1>2
  <2>2. b \in Ancestors(b)
    BY DEF Ancestors
  <2>3. ASSUME NEW h \in Ancestors(p) PROVE h \in Ancestors(b)
    BY <1>2, <2>1, <2>3 DEF Ancestors
  <2>4. ASSUME NEW h \in Ancestors(b), h \notin {b} \cup Ancestors(p) PROVE FALSE
    <3>1. PICK S \in SUBSET Blocks :
            /\ p \in S /\ h \notin S
            /\ \A k \in S : Parent[k] # Zero => Parent[k] \in S
      BY <2>1, <2>4 DEF Ancestors
    <3>2. h \in S \cup {b}
      <4>1. S \cup {b} \in SUBSET Blocks
        OBVIOUS
      <4> QED
        BY <3>1, <2>4, <4>1 DEF Ancestors
    <3> QED
      BY <3>1, <3>2, <2>4
  <2> QED
    BY <1>2, <2>2, <2>3, <2>4
<1> QED
  BY <1>1, <1>2

(* The recursive function inside Lineage.                                  *)
Up == CHOOSE up : up = [h \in Blocks |->
                          IF Parent[h] = Zero THEN {h} ELSE {h} \cup up[Parent[h]]]

LEMMA UpExists ==
  Up = [h \in Blocks |-> IF Parent[h] = Zero THEN {h} ELSE {h} \cup Up[Parent[h]]]
<1> DEFINE g == [h \in Blocks |-> Ancestors(h)]
<1>1. g = [h \in Blocks |-> IF Parent[h] = Zero THEN {h} ELSE {h} \cup g[Parent[h]]]
  <2>1. ASSUME NEW h \in Blocks
        PROVE g[h] = IF Parent[h] = Zero THEN {h} ELSE {h} \cup g[Parent[h]]
    BY AncestorsStep, TreeAssumption
  <2> QED
    BY <2>1
<1>2. \E up : up = [h \in Blocks |-> IF Parent[h] = Zero THEN {h} ELSE {h} \cup up[Parent[h]]]
  BY <1>1
<1> QED
  BY <1>2 DEF Up

LEMMA LineageStep ==
  ASSUME NEW b \in Blocks
  PROVE  Lineage(b) = IF Parent[b] = Zero THEN {b} ELSE {b} \cup Lineage(Parent[b])
<1>1. \A h : Lineage(h) = Up[h]
  BY DEF Lineage, Up
<1> QED
  BY <1>1, UpExists

-----------------------------------------------------------------------------
LEMMA LeastNat ==
  ASSUME NEW T \in SUBSET Nat, T # {}
  PROVE  \E n \in T : \A m \in T : ~ (m < n)
<1> DEFINE R == OpToRel(<, Nat)
<1>1. PICK n \in T : \A m \in T : ~ (<<m, n>> \in R)
  BY WFMin, NatLessThanWellFounded
<1>2. \A m \in T : ~ (m < n)
  BY <1>1 DEF OpToRel
<1> QED
  BY <1>2, Zenon

(* Induction over the naturals, as a statement about sets.                 *)
LEMMA NatBySteps ==
  ASSUME NEW T \in SUBSET Nat, 0 \in T, \A n \in T : n + 1 \in T
  PROVE  T = Nat
<1> DEFINE others == Nat \ T
<1>1. ASSUME others # {} PROVE FALSE
  <2>1. others \in SUBSET Nat
    OBVIOUS
  <2>2. PICK n \in others : \A m \in others : ~ (m < n)
    <3> HIDE DEF others
    <3> QED
      BY <1>1, <2>1, LeastNat
  <2>3. n # 0 /\ n - 1 \in Nat /\ n - 1 < n
    BY <2>2
  <2>4. n - 1 \in T
    BY <2>2, <2>3
  <2> QED
    BY <2>2, <2>3, <2>4
<1> QED
  BY <1>1

(* Induction along Parent, as a statement about sets: going down from any  *)
(* block of T leaves T.                                                    *)
LEMMA LowestBlock ==
  ASSUME NEW T \in SUBSET Blocks, T # {}
  PROVE  \E b \in T : Parent[b] \notin T
<1> DEFINE heights == {Height[b] : b \in T}
<1>1. heights \in SUBSET Nat /\ heights # {}
  BY TreeAssumption
<1>2. \E n \in heights : \A m \in heights : ~ (m < n)
  BY <1>1, LeastNat
<1>3. PICK b \in T : \A k \in T : ~ (Height[k] < Height[b])
  BY <1>2
<1>4. ASSUME Parent[b] \in T PROVE FALSE
  <2>1. Height[b] = Height[Parent[b]] + 1 /\ Height[Parent[b]] \in Nat
    BY <1>4, BlocksAssumption, TreeAssumption
  <2>2. ~ (Height[Parent[b]] < Height[b])
    BY <1>3, <1>4
  <2> HIDE DEF heights
  <2> QED
    BY <2>1, <2>2
<1> QED
  BY <1>4

LEMMA LineageIsAncestors == \A b \in Blocks : Lineage(b) = Ancestors(b)
<1> DEFINE T == {b \in Blocks : Lineage(b) # Ancestors(b)}
<1>1. ASSUME T # {} PROVE FALSE
  <2>1. PICK b \in T : Parent[b] \notin T
    BY <1>1, LowestBlock
  <2>2. Parent[b] # Zero => Lineage(Parent[b]) = Ancestors(Parent[b])
    BY <2>1, TreeAssumption
  <2> QED
    BY <2>1, <2>2, LineageStep, AncestorsStep
<1> QED
  BY <1>1

(* A closed set that contains b contains its lineage.                      *)
LEMMA LineageLeast ==
  ASSUME NEW b \in Blocks, NEW S \in SUBSET Blocks, b \in S, Closed(S)
  PROVE  Lineage(b) \subseteq S
BY LineageIsAncestors DEF Ancestors

LEMMA LineageClosed ==
  ASSUME NEW b \in Blocks
  PROVE  /\ Lineage(b) \in SUBSET Blocks
         /\ b \in Lineage(b)
         /\ Closed(Lineage(b))
<1>1. Lineage(b) \in SUBSET Blocks /\ b \in Lineage(b)
  BY LineageIsAncestors DEF Ancestors
<1>2. ASSUME NEW k \in Lineage(b), Parent[k] # Zero
      PROVE  Parent[k] \in Lineage(b)
  <2>1. k \in Blocks /\ Parent[k] \in Blocks
    BY <1>1, <1>2, TreeAssumption
  <2> QED
    BY <1>2, <2>1, LineageIsAncestors DEF Ancestors, Closed
<1> QED
  BY <1>1, <1>2 DEF Closed

LEMMA LineageTransitive ==
  ASSUME NEW b \in Blocks, NEW h \in Lineage(b)
  PROVE  Lineage(h) \subseteq Lineage(b)
BY LineageClosed, LineageLeast

(* Below b everything is lower than b.                                     *)
LEMMA LineageHeight ==
  ASSUME NEW b \in Blocks, NEW h \in Lineage(b)
  PROVE  h = b \/ Height[h] < Height[b]
<1> DEFINE S == {k \in Blocks : k = b \/ Height[k] < Height[b]}
<1>1. ASSUME NEW k \in S, Parent[k] # Zero PROVE Parent[k] \in S
  <2>1. /\ Parent[k] \in Blocks /\ Height[k] = Height[Parent[k]] + 1
        /\ Height[k] \in Nat /\ Height[Parent[k]] \in Nat /\ Height[b] \in Nat
    BY <1>1, TreeAssumption
  <2> QED
    BY <2>1
<1> QED
  BY <1>1, LineageLeast DEF Closed

LEMMA LineageParent ==
  ASSUME NEW b \in Blocks, Parent[b] # Zero
  PROVE  /\ Parent[b] \in Blocks
         /\ Lineage(b) = {b} \cup Lineage(Parent[b])
         /\ b \notin Lineage(Parent[b])
<1>1. Parent[b] \in Blocks /\ Height[b] = Height[Parent[b]] + 1
      /\ Height[b] \in Nat /\ Height[Parent[b]] \in Nat
  BY TreeAssumption
<1>2. b \notin Lineage(Parent[b])
  BY <1>1, LineageHeight
<1> QED
  BY <1>1, <1>2, LineageStep

LEMMA LineageAntisymmetric ==
  ASSUME NEW b \in Blocks, NEW h \in Lineage(b), b \in Lineage(h)
  PROVE  h = b
<1>1. h \in Blocks /\ Height[h] \in Nat /\ Height[b] \in Nat
  BY LineageClosed, TreeAssumption
<1> QED
  BY <1>1, LineageHeight

LEMMA GenesisInLineage ==
  ASSUME NEW b \in Blocks
  PROVE  Genesis \in Lineage(b)
<1>1. PICK h \in Lineage(b) : Parent[h] \notin Lineage(b)
  BY LineageClosed, LowestBlock
<1> QED
  BY <1>1, LineageClosed, TreeAssumption DEF Closed

(* The blocks of one lineage are ancestors of each other.                  *)
LEMMA LineageLinear ==
  ASSUME NEW b \in Blocks, NEW h \in Lineage(b), NEW k \in Lineage(b)
  PROVE  h \in Lineage(k) \/ k \in Lineage(h)
<1> DEFINE S == {j \in Lineage(b) : h \in Lineage(j) \/ j \in Lineage(h)}
<1>1. S \in SUBSET Blocks /\ b \in S /\ h \in Blocks
  BY LineageClosed
<1>2. ASSUME NEW j \in S, Parent[j] # Zero PROVE Parent[j] \in S
  <2>1. j \in Blocks /\ Parent[j] \in Lineage(b) /\ Lineage(j) = {j} \cup Lineage(Parent[j])
    BY <1>1, <1>2, LineageParent, LineageClosed DEF Closed
  <2>2. Parent[h] # Zero => Parent[h] \in Lineage(h)
    BY <1>1, LineageClosed DEF Closed
  <2>3. j \in Lineage(h) => Parent[j] \in Lineage(h)
    BY <1>1, <1>2, LineageClosed DEF Closed
  <2> QED
    BY <1>2, <2>1, <2>2, <2>3
<1> QED
  BY <1>1, <1>2, LineageLeast DEF Closed

(* No two of them are siblings.                                            *)
LEMMA NoSiblings ==
  ASSUME NEW b \in Blocks, NEW h \in Lineage(b), NEW k \in Lineage(b),
         Parent[h] = Parent[k]
  PROVE  h = k
<1>1. h \in Blocks /\ k \in Blocks
  BY LineageClosed
<1>2. CASE Parent[h] = Zero
  BY <1>1, <1>2, TreeAssumption
<1>3. CASE Parent[h] # Zero
  <2>1. Height[h] = Height[k] /\ Height[h] \in Nat
    BY <1>1, <1>3, TreeAssumption
  <2> QED
    BY <1>1, <2>1, LineageLinear, LineageHeight
<1> QED
  BY <1>2, <1>3

(* Going up from an ancestor, there is a next block on the way.            *)
LEMMA ChildOnTheWay ==
  ASSUME NEW b \in Blocks, NEW h \in Lineage(b), h # b
  PROVE  \E k \in Lineage(b) : k \in Blocks /\ Parent[k] = h
<1> DEFINE S == {j \in Lineage(b) : j = b \/ \E k \in Lineage(b) : Parent[k] = j}
<1>1. S \in SUBSET Blocks /\ b \in S
  BY LineageClosed
<1>2. Closed(S)
  BY LineageClosed DEF Closed
<1>3. h \in S
  BY <1>1, <1>2, LineageLeast
<1> QED
  BY <1>3, LineageClosed

-----------------------------------------------------------------------------
(* The walk of setBranchConnectedBackwards down a lineage                  *)

LEMMA AboveTop ==
  ASSUME NEW b \in Blocks
  PROVE  Above(b, b) = {b}
BY LineageAntisymmetric, LineageClosed DEF Above

LEMMA AboveStep ==
  ASSUME NEW b \in Blocks, NEW x \in Lineage(b), Parent[x] # Zero
  PROVE  Above(Parent[x], b) = Above(x, b) \cup {Parent[x]}
<1> DEFINE p == Parent[x]
<1>1. x \in Blocks /\ p \in Blocks /\ p \in Lineage(b) /\ p \in Lineage(p)
  BY LineageClosed, TreeAssumption DEF Closed
<1>2. ASSUME NEW h \in Above(x, b) PROVE h \in Above(p, b)
  <2>1. h \in Blocks /\ x \in Lineage(h)
    BY <1>2, LineageClosed DEF Above
  <2> QED
    BY <1>2, <2>1, LineageClosed DEF Above, Closed
<1>3. ASSUME NEW h \in Above(p, b), h # p PROVE h \in Above(x, b)
  <2>1. h \in Blocks /\ h \in Lineage(b) /\ p \in Lineage(h)
    BY <1>3, LineageClosed DEF Above
  <2>2. PICK k \in Lineage(h) : Parent[k] = p
    BY <1>3, <2>1, ChildOnTheWay
  <2>3. k \in Lineage(b)
    BY <2>1, LineageTransitive
  <2>4. k = x
    BY <2>2, <2>3, NoSiblings
  <2> QED
    BY <2>1, <2>4 DEF Above
<1> QED
  BY <1>1, <1>2, <1>3 DEF Above

(* A lineage is what is below x and what is not.                           *)
LEMMA LineageSplit ==
  ASSUME NEW b \in Blocks, NEW x \in Lineage(b)
  PROVE  Lineage(b) = Above(x, b) \cup Lineage(x)
BY LineageLinear, LineageTransitive DEF Above
=============================================================================
