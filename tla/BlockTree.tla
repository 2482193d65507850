------------------------------ MODULE BlockTree ------------------------------
(***************************************************************************)
(* The blocks of the network, as the blackcoin node serves them: a finite  *)
(* tree given by previousblockhash.  Which of them arrive, and in which    *)
(* order, is up to the modules that extend this one.                       *)
(***************************************************************************)
EXTENDS Naturals

CONSTANTS
  Blocks,   \* the block hashes that exist in the network
  Parent,   \* previousblockhash of each block
  Height,   \* height of each block
  Genesis,  \* the first block; its previousblockhash is Zero
  Zero,     \* the all-zero hash, /^0+$/
  Null      \* null, undefined and "no such key"

ASSUME BlocksAssumption ==
  /\ Genesis \in Blocks
  /\ Zero \notin Blocks
  /\ Null \notin Blocks
  /\ Zero # Null

(* previousblockhash links form one tree rooted at Genesis.                *)
ASSUME TreeAssumption ==
  /\ Parent \in [Blocks -> Blocks \cup {Zero}]
  /\ Height \in [Blocks -> Nat]
  /\ \A b \in Blocks :
       /\ Parent[b] = Zero <=> b = Genesis
       /\ Parent[b] # Zero => Height[b] = Height[Parent[b]] + 1

(* b and its ancestors, down to Genesis.                                   *)
Lineage(b) ==
  LET up[h \in Blocks] ==
        IF Parent[h] = Zero THEN {h} ELSE {h} \cup up[Parent[h]]
  IN up[b]

Children(h) == {b \in Blocks : Parent[b] = h}
=============================================================================
