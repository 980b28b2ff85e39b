----------------------------- MODULE OrdererMVCC -----------------------------
(***************************************************************************)
(* The orderer's own read-conflict check: the transactions of one fat      *)
(* block, in block order, against the versions the orderer has recorded    *)
(* (core/ledger/kvledger/txmgmt/statedb/ordererstatedb) and against the    *)
(* writes of the earlier transactions of the same block.                   *)
(*                                                                         *)
(* A version is the pair <<fat block number, transaction index>>; the nil  *)
(* version of a read is <<>>. A version database is a function whose       *)
(* domain is the set of keys that are present.                             *)
(***************************************************************************)
EXTENDS Naturals, Sequences

CONSTANTS PublicKeys,  \* keys of public namespaces
          HashedKeys   \* key hashes of private collections

Keys == PublicKeys \cup HashedKeys

NilVersion == << >>

(***************************************************************************)
(* What the check looks at in a transaction: the versions it read, the     *)
(* keys it writes and, of those, the ones it deletes.                      *)
(***************************************************************************)
HasRWSet(tx) == tx.type \in {"endorser", "lifecycle"}

(* Faulty variant: only the recorded versions are looked at.               *)
RecordedOnlyKVRead(versions, written, k, readVersion) ==
    k \in PublicKeys /\ k \in DOMAIN versions => versions[k] = readVersion

(***************************************************************************)
(* validateKVRead and validateKVReadHash. A key the block already wrote is *)
(* a conflict whatever version was read. Otherwise the recorded version    *)
(* decides, and a key with no recorded version is accepted. A key hash is  *)
(* looked up under the plain namespace while ApplyWriteHashSet records it  *)
(* under the namespace of the collection, so the lookup finds nothing.     *)
(***************************************************************************)
ValidateKVRead(versions, written, k, readVersion) ==
    /\ k \notin DOMAIN written
    /\ k \in PublicKeys /\ k \in DOMAIN versions => versions[k] = readVersion

(* validateNameSpaceReadSet over all the namespaces of a transaction.      *)
ValidateReadSets(versions, written, tx) ==
    \A k \in DOMAIN tx.reads :
        ValidateKVRead(versions, written, k, tx.reads[k])

(* ApplyWriteSet and ApplyWriteHashSet: the later write wins.              *)
ApplyWrites(written, tx, version) ==
    [k \in DOMAIN written \cup tx.writes |->
        IF k \in tx.writes
        THEN [version |-> version, isDelete |-> k \in tx.deletes]
        ELSE written[k]]

(***************************************************************************)
(* validateEndorserTxn over the block: the state after the first i         *)
(* transactions. Transactions without a read-write set keep status VALID   *)
(* (the zero code) and write nothing.                                      *)
(***************************************************************************)
ValidateBlock(versions, fatNum, txs) ==
    LET after[i \in 0 .. Len(txs)] ==
          IF i = 0
          THEN [status |-> << >>, written |-> [k \in {} |-> NilVersion]]
          ELSE LET prev == after[i - 1]
                   tx   == txs[i]
                   ok   == HasRWSet(tx) =>
                             ValidateReadSets(versions, prev.written, tx)
               IN  [status  |-> Append(prev.status,
                                       IF ok THEN "VALID" ELSE "MVCC_READ_CONFLICT"),
                    written |-> IF ok /\ HasRWSet(tx)
                                THEN ApplyWrites(prev.written, tx, <<fatNum, i - 1>>)
                                ELSE prev.written]
    IN  after[Len(txs)]

(* ApplyBatch / ApplyOrdererUpdates: one batch per fat block.              *)
ApplyBatch(versions, written) ==
    LET deleted == {k \in DOMAIN written : written[k].isDelete}
    IN  [k \in (DOMAIN versions \cup DOMAIN written) \ deleted |->
            IF k \in DOMAIN written THEN written[k].version ELSE versions[k]]
=============================================================================
