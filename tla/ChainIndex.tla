----------------------------- MODULE ChainIndex -----------------------------
(***************************************************************************)
(* What storeTipBlock promises, without its steps: a block whose           *)
(* predecessor is known becomes the tip, and from then on the main chain   *)
(* is exactly the tip and its ancestors, the next pointers lead along it,  *)
(* and the confirmed transactions are those of its blocks.                 *)
(***************************************************************************)
EXTENDS BlockTree

CONSTANTS
  Txs,
  Wanted(_)   \* the transactions of a block that are recorded

VARIABLES
  known,      \* blocks that were adopted
  head,       \* the tip
  chain,      \* the main chain
  confirmed   \* <<t, b>>: t is confirmed in b

chainVars == <<known, head, chain, confirmed>>

Init == known = {} /\ head = Null /\ chain = {} /\ confirmed = {}

ConfirmedBy(blocks) == {p \in Txs \X blocks : p[1] \in Wanted(p[2])}

Adopt(b) ==
  /\ b \notin known
  /\ Parent[b] \in known \cup {Zero}
  /\ known' = known \cup {b}
  /\ head' = b
  /\ chain' = Lineage(b)
  /\ confirmed' = ConfirmedBy(chain')

Next == \E b \in Blocks : Adopt(b)

Spec == Init /\ [][Next]_chainVars
=============================================================================
