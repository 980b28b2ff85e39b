---------------------------- MODULE MCSparseChain ----------------------------
(* Small instances of SparseChain.                                         *)
EXTENDS SparseChainInv

CONSTANTS chan, lpeer, org1, k1, k2, h1

MCChains == {chan, lpeer}
MCChainsOrg == {chan, lpeer, org1}
MCPublicKeys == {k1}
MCPublicKeysTwo == {k1, k2}
MCHashedKeys == {h1}

NoReads == [k \in {} |-> NilVersion]

Config == [type |-> "config", orgs |-> {}, reads |-> NoReads,
           writes |-> {}, deletes |-> {}]

(* Reads k1 as absent and writes it: conflicts with an earlier writer.     *)
Write == [type |-> "endorser", orgs |-> {}, reads |-> [k \in {k1} |-> NilVersion],
          writes |-> {k1}, deletes |-> {}]

(* Deletes k1 blindly, writes a key hash.                                  *)
Delete == [type |-> "endorser", orgs |-> {}, reads |-> [k \in {h1} |-> NilVersion],
           writes |-> {k1, h1}, deletes |-> {k1}]

(* For lite peers only, by the orgs the client names.                      *)
ForLite == [type |-> "endorser", orgs |-> {lpeer}, reads |-> NoReads,
            writes |-> {}, deletes |-> {}]

(* For an org that is not one of the two chains of the channel.            *)
ForOrg == [type |-> "endorser", orgs |-> {org1}, reads |-> NoReads,
           writes |-> {}, deletes |-> {}]

Approve == [type |-> "lifecycle", orgs |-> {}, reads |-> NoReads,
            writes |-> {}, deletes |-> {}]

Unknown == [type |-> "other", orgs |-> {}, reads |-> NoReads,
            writes |-> {}, deletes |-> {}]

MCTxns == {Config, Write, Delete, ForLite, Approve, Unknown}

MCTxnsOrg == MCTxns \cup {ForOrg}

MCGenesis == <<Config>>

MCBodies == {<<Config>>, <<Write, Unknown, Write>>, <<Delete, ForLite, Approve>>}

(* A new channel, and a ledger of the node before the upgrade.             *)
MCLedgers == {<< >>, <<<<Config>>, <<Write, Unknown, Write>>, <<Delete, ForLite, Approve>>>>}

(* Reads the version that the first transaction of block 1 writes.         *)
Update == [type |-> "endorser", orgs |-> {}, reads |-> [k \in {k1} |-> <<1, 0>>],
           writes |-> {k1}, deletes |-> {}]

(* Replaces k1 by k2, which it reads as absent.                            *)
Replace == [type |-> "endorser", orgs |-> {}, reads |-> [k \in {k2} |-> NilVersion],
            writes |-> {k1, k2}, deletes |-> {k1}]

MCTxnsMvcc == MCTxnsOrg \cup {Update, Replace}

MCBodiesMvcc == {<<Write, Write>>, <<Update, Replace>>, <<ForOrg>>}

(* The same, for a ledger of the node before the upgrade.                  *)
MCLedgersMvcc == {<< >>, <<<<Config>>, <<Write, Write>>>>}
=============================================================================
