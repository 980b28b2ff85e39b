---------------------------- MODULE MCSparseDeliver --------------------------
(* Small instances of SparseDeliver                                        *)
EXTENDS SparseDeliver

CONSTANTS chan, lpeer, k1, h1

MCChains == {chan, lpeer}
MCPublicKeys == {k1}
MCHashedKeys == {h1}

NoReads == [k \in {} |-> NilVersion]

Config == [type |-> "config", orgs |-> {}, reads |-> NoReads,
           writes |-> {}, deletes |-> {}]

(* Reads k1 as absent and writes it: conflicts with an earlier writer.     *)
Write == [type |-> "endorser", orgs |-> {}, reads |-> [k \in {k1} |-> NilVersion],
          writes |-> {k1}, deletes |-> {}]

(* Deletes k1 blindly, writes a key hash.                                  *)
Delete == [type |-> "endorser", orgs |-> {}, reads |-> [k \in {h1} |-> NilVersion],
           writes |-> {k1, h1}, deletes |-> {k1}]

(* For lite peers only, by the orgs the client names.                      *)
ForLite == [type |-> "endorser", orgs |-> {lpeer}, reads |-> NoReads,
            writes |-> {}, deletes |-> {}]

Approve == [type |-> "lifecycle", orgs |-> {}, reads |-> NoReads,
            writes |-> {}, deletes |-> {}]

Unknown == [type |-> "other", orgs |-> {}, reads |-> NoReads,
            writes |-> {}, deletes |-> {}]

MCTxns == {Config, Write, Delete, ForLite, Approve, Unknown}

MCGenesis == <<Config>>

(* A new channel, and a ledger of the node before the upgrade.             *)
MCLedgers == {<< >>, <<<<Config>>, <<Write, Unknown, Write>>, <<Delete, ForLite, Approve>>>>}

MCNewLedger == {<< >>}

(* Ledgers of two and of three blocks from before the upgrade.             *)
MCUpgraded == {<<<<Config>>, <<Write, Unknown, Write>>>>,
               <<<<Config>>, <<Delete, ForLite, Approve>>>>,
               <<<<Config>>, <<Write, Unknown, Write>>, <<Delete, ForLite, Approve>>>>}

MCBodiesTwo == {<<Write, Unknown, Write>>, <<Delete, ForLite, Approve>>}

MCBodiesLive == {<<Write, Approve>>}
=============================================================================
