------------------------------- MODULE BlockDb -------------------------------
(***************************************************************************)
(* The pointer part of the block database (lib/BlockDb.js): for each block *)
(* hash the keys bpr- (previous hash), bne- (next hash), bma- (main chain  *)
(* flag), and the single key bti- (the tip).  Every operator below is one  *)
(* LevelDB operation of that file; a key that is absent reads as Null.     *)
(* The time index bts- and the checkpoint key bcp- are not part of this    *)
(* module.                                                                 *)
(***************************************************************************)
EXTENDS BlockTree

(* Anything the code may pass as a hash.                                   *)
Hashes == Blocks \cup {Zero, Null}

MainFlags == {"absent", "orphan", "main"}

VARIABLES
  prev,   \* bpr-<hash>
  next,   \* bne-<hash>
  main,   \* bma-<hash>: "main" is 1, "orphan" is 0
  tip     \* bti-

blockVars == <<prev, next, main, tip>>

BlockDbTypeOK ==
  /\ prev \in [Hashes -> Hashes]
  /\ next \in [Hashes -> Hashes]
  /\ main \in [Hashes -> MainFlags]
  /\ tip \in Hashes

BlockDbInit ==
  /\ prev = [h \in Hashes |-> Null]
  /\ next = [h \in Hashes |-> Null]
  /\ main = [h \in Hashes |-> "absent"]
  /\ tip = Null

-----------------------------------------------------------------------------
(* has(): true of orphans also.                                            *)
Has(h) == prev[h] # Null

(* isMain(): an absent key counts as 0.                                    *)
IsMain(h) == main[h] = "main"

(* add(): one batch; neither the next pointer of the parent nor the tip.   *)
AddBlock(b) ==
  /\ prev' = [prev EXCEPT ![b] = Parent[b]]
  /\ main' = [main EXCEPT ![b] = "main"]
  /\ UNCHANGED <<next, tip>>

SetMain(h, isMain) ==
  /\ main' = [main EXCEPT ![h] = IF isMain THEN "main" ELSE "orphan"]
  /\ UNCHANGED <<prev, next, tip>>

SetNext(h, nextHash) ==
  /\ next' = [next EXCEPT ![h] = nextHash]
  /\ UNCHANGED <<prev, main, tip>>

SetTip(b) ==
  /\ tip' = b
  /\ UNCHANGED <<prev, next, main>>
=============================================================================
