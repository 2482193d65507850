---------------------------- MODULE AddressProps ----------------------------
(***************************************************************************)
(* What AddressDb promises, with any number of calls in flight.            *)
(***************************************************************************)
EXTENDS AddressDb

(* A transaction becomes confirmed only after all its outputs and spends   *)
(* are recorded, also when the calls that record it for a block and for a  *)
(* p2p announcement overlap, fail or crash: otherwise coins that were spent*)
(* would count.  (An output is also left out when db.get fails.)           *)
ConfirmedTxComplete ==
  \A t \in Txs : (\E b \in Blocks : <<t, b>> \in inBlk) =>
    /\ \A o \in Spends[t] : <<o, t>> \in spent
    /\ \A o \in OutputsOf(t) : o \in outs \/ <<t, o>> \in skipped

(* updateAllAddresses and refreshAllAddresses find an address by its 0 or 1*)
(* flag only: each address with outputs has one, whatever updates and      *)
(* refreshes of it delete and set meanwhile.                               *)
AddressIsFlagged == \A o \in outs : AddrOf[o] \in toUpdate \cup updated

(* The stored balance of an address has its ranking entry, which top100    *)
(* reads, although concurrent updates each delete the entry they found and *)
(* write their own.                                                        *)
RankHasBalance == \A a \in Addrs : balance[a] # Null => <<balance[a], a>> \in ranking

(* The balance of an address: its confirmed outputs that no confirmed      *)
(* transaction spends.                                                     *)
LedgerBalance(a) ==
  Total({o \in Recorded(a) : /\ IsConfirmed(TxOf[o])
                             /\ ~\E t \in Txs : <<o, t>> \in spent /\ IsConfirmed(t)})

(* What the scans of an update found is what is stored now.                *)
ScanHolds(u) ==
  /\ seen[u] = Recorded(addr[u])
  /\ spentBy[u] = {p \in spent : p[1] \in seen[u]}
  /\ yes[u] = {p \in Questions(u) : IsConfirmed(p[2])}

(* updateAddress stores the balance of the address, unless what it read has*)
(* changed in between.  Not so once two transactions spend one output, of  *)
(* which one is confirmed: "else // spent" (lib/TransactionDb.js:492) is   *)
(* not reached.  See AddressDoubleSpend.                                   *)
BalanceExact ==
  \A u \in Updaters :
    updPc[u] = "write" /\ ScanHolds(u) => BalanceSat(u) = LedgerBalance(addr[u])

(* The transactions of one chain, of which no two spend one output.        *)
NoDoubleSpends == \A t, v \in Txs : Spends[t] \cap Spends[v] # {} => t = v
=============================================================================
