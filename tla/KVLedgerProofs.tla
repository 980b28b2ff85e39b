--------------------------- MODULE KVLedgerProofs ---------------------------
(***************************************************************************)
(* Proofs about KVLedger: through commits, crashes at any step, recovery,  *)
(* rollbacks, reconciliation and snapshots, for every chain of blocks, the *)
(* stores stay repairable, private data never goes back, and the state,    *)
(* the history and the snapshots hold what the chain of blocks says.       *)
(***************************************************************************)
EXTENDS KVLedger, Recursion, TLAPS

(* No database is ahead of the block store, which follows the private data *)
(* store.                                                                  *)
StoreOrder ==
    /\ savepoint <= Len(blocks) /\ histPoint <= Len(blocks)
    /\ Len(blocks) <= pvtHeight

(* isPvtstoreAheadOfBlkstore tells what its name says.                     *)
AheadIsAhead ==
    /\ pc # "closed" /\ ahead => pvtHeight > Len(blocks)
    /\ pc \notin {"closed", "block"} /\ ~ahead => pvtHeight = Len(blocks)
    /\ pc = "block" /\ ~ahead => pvtHeight = Len(blocks) + 1

(* Where the committing goroutine is tells how far the state database is.  *)
Position ==
    /\ pc \in {"blocked", "validate", "private data", "block"} =>
         cur.block = Len(blocks) + 1 /\ cur.block <= N
    /\ pc \in {"state", "rows", "history", "done"} => cur.block = Len(blocks) /\ cur.block > 0
    /\ pc \in {"idle", "blocked", "validate", "private data", "block", "history", "done"} =>
         savepoint = Len(blocks)
    /\ pc \in {"state", "rows"} => savepoint + 1 = cur.block
    /\ pc = "recover" => next.state = savepoint + 1 /\ next.history <= Len(blocks) + 1
    /\ pc = "redo" => /\ cur.block = savepoint + 1 /\ cur.block <= Len(blocks)
                      /\ next.history <= Len(blocks) + 1

(* What the transaction manager is about to write.                         *)
Prepared ==
    /\ pc \in {"private data", "block", "state"} =>
         cur.rows = UpdateBatch(cur.block, cur.valid, cur.got)
    /\ pc = "state" => cur.valid = blocks[cur.block]
    /\ pc \in {"rows", "redo"} =>
         /\ \A r \in cur.rows : blocks[cur.block] /\ r[2] \in Chain[cur.block].writes
         /\ \A k \in PvtKey :
              blocks[cur.block] /\ k \in Chain[cur.block].writes =>
                \/ <<"public", k>> \in cur.rows
                \/ state[<<"public", k>>] = Version(cur.block, k)

(* The reconciler holds oldBlockCommit while it writes, so what it found   *)
(* not to be stale stays so.                                               *)
Reconciling ==
    /\ ~Opened => rec = Idle
    /\ rec.pc = "rows" => pc # "rows"
    /\ rec.pc # "idle" => rec.block \in 1 .. N
    /\ \A r \in rec.rows : r[1] = "private"
    /\ rec.pc = "rows" =>
         \A k \in PvtKey : <<"private", k>> \in rec.rows =>
           k \in Chain[rec.block].deletes \/ state[<<"public", k>>] = rec.block

(* A private value is not newer than the hash of its key, unless the block *)
(* after the savepoint writes the key and is not applied yet.              *)
Settled(k) ==
    state[<<"public", k>>] # 0 => state[<<"private", k>>] <= state[<<"public", k>>]

Pending(k) ==
    /\ pc \in {"closed", "recover", "redo", "rows"} /\ savepoint < Len(blocks)
    /\ blocks[savepoint + 1] /\ k \in Chain[savepoint + 1].writes
    /\ pc \in {"rows", "redo"} => <<"public", k>> \in cur.rows

Versions ==
    /\ \A r \in Row : state[r] <= savepoint + 1
    /\ \A k \in PvtKey : Settled(k) \/ Pending(k)

IInv ==
    /\ TypeOK /\ StoreOrder /\ AheadIsAhead /\ Position
    /\ Prepared /\ Reconciling /\ Versions
-----------------------------------------------------------------------------
(* An element of a sequence over S is in S.                                *)
LEMMA ElementInS ==
    ASSUME NEW S, NEW s \in Seq(S), NEW i \in 1 .. Len(s)
    PROVE  s[i] \in S
OBVIOUS

(* Chains hold blocks: what LedgerAssumption says of one.                  *)
LEMMA ChainType ==
    /\ N \in Nat /\ DOMAIN Chain = 1 .. N
    /\ \A n \in 1 .. N : /\ Chain[n].lean \in BOOLEAN
                          /\ Chain[n].writes \subseteq Key
                          /\ Chain[n].deletes \subseteq Chain[n].writes
    /\ PvtKey \subseteq Key
<1>1. N \in Nat /\ DOMAIN Chain = 1 .. N
    BY LedgerAssumption DEF N
<1>2. ASSUME NEW n \in 1 .. N
      PROVE  /\ Chain[n].lean \in BOOLEAN
             /\ Chain[n].writes \subseteq Key
             /\ Chain[n].deletes \subseteq Chain[n].writes
    <2>1. Chain[n] \in [lean : BOOLEAN, reads : SUBSET (Key \X Nat),
                        writes : SUBSET Key, deletes : SUBSET Key]
        BY <1>1, LedgerAssumption, ElementInS DEF N
    <2> QED
        BY <1>1, <2>1, LedgerAssumption
<1> QED
    BY <1>1, <1>2, LedgerAssumption

(* The version a block gives to a key is its number or 0.                  *)
LEMMA VersionType ==
    ASSUME NEW n, NEW k
    PROVE  Version(n, k) = 0 \/ Version(n, k) = n
BY DEF Version

(* Rows are pairs, told apart by their first component.                    *)
LEMMA RowFacts ==
    /\ \A k \in PvtKey : <<"public", k>> \in Row /\ <<"private", k>> \in Row
    /\ \A r \in Row : \/ r[2] \in Key /\ r = <<"public", r[2]>>
                      \/ r[2] \in PvtKey /\ r = <<"private", r[2]>>
BY ChainType DEF Row

(* The records for nothing under way are of their types.                   *)
LEMMA IdleTypes ==
    /\ NoUpdates \in [block : 0 .. N, lite : BOOLEAN, got : BOOLEAN, valid : BOOLEAN,
                      rows : SUBSET Row]
    /\ Idle \in [pc : {"idle", "fetched", "rows", "store"}, block : 0 .. N, rows : SUBSET Row]
<1> HIDE DEF Row
<1> QED
    BY ChainType DEF NoUpdates, Idle

(* The rows of an update batch are rows of keys the block writes.          *)
LEMMA BatchType ==
    ASSUME NEW n \in 1 .. N, NEW valid \in BOOLEAN, NEW got \in BOOLEAN
    PROVE  /\ UpdateBatch(n, valid, got) \subseteq Row
           /\ \A r \in UpdateBatch(n, valid, got) : valid /\ r[2] \in Chain[n].writes
BY ChainType DEF UpdateBatch, Row, PvtKeys

(* Every step keeps the types.                                             *)
LEMMA TypeStep ==
    ASSUME TypeOK, StoreOrder, Position, Reconciling, [Next]_vars
    PROVE  TypeOK'
<1> USE ChainType DEF disk, snapVars, bounds
<1>0. /\ StoresTypeOK /\ CommitterTypeOK /\ ReconcilerTypeOK /\ SnapshotTypeOK
      /\ crashes \in 0 .. MaxCrash /\ rollbacks \in 0 .. MaxRollback
    BY DEF TypeOK
<1>1. ASSUME StoreBlock PROVE TypeOK'
    <2>1. StoresTypeOK'
        BY <1>0, <1>1 DEF StoresTypeOK, StoreBlock
    <2>2. CommitterTypeOK'
        <3>1. PICK got \in IF Len(blocks) + 1 <= pvtHeight THEN {Len(blocks) + 1 \in pvtData}
                           ELSE {HasPvt(Len(blocks) + 1), FALSE} :
                cur' = [NoUpdates EXCEPT !.block = Len(blocks) + 1, !.got = got,
                          !.lite = Chain[Len(blocks) + 1].lean /\ ~(Len(blocks) + 1 <= pvtHeight)]
            BY <1>1 DEF StoreBlock
        <3>2. got \in BOOLEAN
            <4>1. CASE Len(blocks) + 1 <= pvtHeight
                BY <3>1, <4>1
            <4>2. CASE ~(Len(blocks) + 1 <= pvtHeight)
                BY <3>1, <4>2 DEF HasPvt
            <4> QED
                BY <4>1, <4>2
        <3>3. Len(blocks) + 1 \in 1 .. N
            BY <1>0, <1>1 DEF StoreBlock, StoresTypeOK
        <3> QED
            <4>1. cur' = [block |-> Len(blocks) + 1,
                          lite |-> Chain[Len(blocks) + 1].lean /\ ~(Len(blocks) + 1 <= pvtHeight),
                          got |-> got, valid |-> FALSE, rows |-> {}]
                BY <3>1 DEF NoUpdates
            <4>2. pc' \in Pcs /\ UNCHANGED <<next, ahead>>
                BY <1>1 DEF StoreBlock, Pcs
            <4> QED
                BY <1>0, <3>2, <3>3, <4>1, <4>2 DEF CommitterTypeOK
    <2>3. ReconcilerTypeOK'
        BY <1>0, <1>1 DEF ReconcilerTypeOK, StoreBlock
    <2>4. SnapshotTypeOK'
        BY <1>0, <1>1 DEF SnapshotTypeOK, StoreBlock
    <2> QED
        BY <1>0, <1>1, <2>1, <2>2, <2>3, <2>4 DEF TypeOK, StoreBlock
<1>2. ASSUME ValidateAndPrepare PROVE TypeOK'
    <2>1. StoresTypeOK'
        BY <1>0, <1>2 DEF StoresTypeOK, ValidateAndPrepare
    <2>2. CommitterTypeOK'
        <3>1. cur.block \in 1 .. N
            <4>1. pc = "validate"
                BY <1>2 DEF ValidateAndPrepare
            <4>2. cur.block = Len(blocks) + 1 /\ cur.block <= N
                BY <4>1 DEF Position
            <4> QED
                BY <1>0, <4>2 DEF CommitterTypeOK, StoresTypeOK
        <3>2. NoConflict(cur.block) \in BOOLEAN
            BY DEF NoConflict
        <3>3. UpdateBatch(cur.block, NoConflict(cur.block), cur.got) \subseteq Row
            BY <1>0, <3>1, <3>2, BatchType DEF CommitterTypeOK
        <3> QED
            BY <1>0, <1>2, <3>2, <3>3 DEF CommitterTypeOK, ValidateAndPrepare, Pcs
    <2>3. ReconcilerTypeOK'
        BY <1>0, <1>2 DEF ReconcilerTypeOK, ValidateAndPrepare
    <2>4. SnapshotTypeOK'
        BY <1>0, <1>2 DEF SnapshotTypeOK, ValidateAndPrepare
    <2> QED
        BY <1>0, <1>2, <2>1, <2>2, <2>3, <2>4 DEF TypeOK, ValidateAndPrepare
<1>3. ASSUME LeanPanic PROVE TypeOK'
    <2>1. StoresTypeOK'
        BY <1>0, <1>3 DEF StoresTypeOK, LeanPanic, Stop
    <2>2. CommitterTypeOK'
        <3>1. /\ pc' = "closed" /\ cur' = NoUpdates /\ ahead' = FALSE
              /\ next' = [state |-> 1, history |-> 1]
            BY <1>3 DEF LeanPanic, Stop
        <3>2. next' \in [state : 1 .. N + 1, history : 1 .. N + 1]
            BY <3>1
        <3> QED
            BY <3>1, <3>2, IdleTypes DEF CommitterTypeOK, Pcs
    <2>3. ReconcilerTypeOK'
        BY <1>0, <1>3 DEF ReconcilerTypeOK, LeanPanic, Stop, Idle
    <2>4. SnapshotTypeOK'
        BY <1>0, <1>3 DEF SnapshotTypeOK, LeanPanic, Stop, NoSnapshot
    <2> QED
        BY <1>0, <1>3, <2>1, <2>2, <2>3, <2>4 DEF TypeOK, LeanPanic, Stop
<1>4. ASSUME CommitPvtData PROVE TypeOK'
    <2>1. StoresTypeOK'
        <3>1. cur.block \in 1 .. N
            <4>1. pc = "private data"
                BY <1>4 DEF CommitPvtData
            <4>2. cur.block = Len(blocks) + 1 /\ cur.block <= N
                BY <4>1 DEF Position
            <4> QED
                BY <1>0, <4>2 DEF CommitterTypeOK, StoresTypeOK
        <3> QED
            <4>1. /\ pvtHeight' \in {pvtHeight, cur.block}
                  /\ pvtData' \subseteq pvtData \cup {cur.block}
                  /\ missing' \subseteq missing \cup {cur.block}
                BY <1>4 DEF CommitPvtData
            <4>2. UNCHANGED <<blocks, state, savepoint, history, histPoint>>
                BY <1>4 DEF CommitPvtData
            <4> QED
                BY <1>0, <3>1, <4>1, <4>2 DEF StoresTypeOK
    <2>2. CommitterTypeOK'
        BY <1>0, <1>4 DEF CommitterTypeOK, CommitPvtData, Pcs
    <2>3. ReconcilerTypeOK'
        BY <1>0, <1>4 DEF ReconcilerTypeOK, CommitPvtData
    <2>4. SnapshotTypeOK'
        BY <1>0, <1>4 DEF SnapshotTypeOK, CommitPvtData
    <2> QED
        BY <1>0, <1>4, <2>1, <2>2, <2>3, <2>4 DEF TypeOK, CommitPvtData
<1>5. ASSUME AddBlock PROVE TypeOK'
    <2>1. StoresTypeOK'
        BY <1>0, <1>5 DEF StoresTypeOK, AddBlock, CommitterTypeOK, Position, StoreOrder
    <2>2. CommitterTypeOK'
        BY <1>0, <1>5 DEF CommitterTypeOK, AddBlock, Pcs
    <2>3. ReconcilerTypeOK'
        BY <1>0, <1>5 DEF ReconcilerTypeOK, AddBlock
    <2>4. SnapshotTypeOK'
        BY <1>0, <1>5 DEF SnapshotTypeOK, AddBlock
    <2> QED
        BY <1>0, <1>5, <2>1, <2>2, <2>3, <2>4 DEF TypeOK, AddBlock
<1>6. ASSUME TxmgrCommit PROVE TypeOK'
    <2>1. StoresTypeOK'
        BY <1>0, <1>6 DEF StoresTypeOK, TxmgrCommit
    <2>2. CommitterTypeOK'
        BY <1>0, <1>6 DEF CommitterTypeOK, TxmgrCommit, Pcs
    <2>3. ReconcilerTypeOK'
        BY <1>0, <1>6 DEF ReconcilerTypeOK, TxmgrCommit
    <2>4. SnapshotTypeOK'
        BY <1>0, <1>6 DEF SnapshotTypeOK, TxmgrCommit
    <2> QED
        BY <1>0, <1>6, <2>1, <2>2, <2>3, <2>4 DEF TypeOK, TxmgrCommit
<1>7. ASSUME NEW r \in cur.rows, WriteRow(r) PROVE TypeOK'
    <2>1. StoresTypeOK'
        BY <1>0, <1>7, VersionType DEF StoresTypeOK, WriteRow, CommitterTypeOK, StoreOrder
    <2>2. CommitterTypeOK'
        BY <1>0, <1>7 DEF CommitterTypeOK, WriteRow, Pcs
    <2>3. ReconcilerTypeOK'
        BY <1>0, <1>7 DEF ReconcilerTypeOK, WriteRow
    <2>4. SnapshotTypeOK'
        BY <1>0, <1>7 DEF SnapshotTypeOK, WriteRow
    <2> QED
        BY <1>0, <1>7, <2>1, <2>2, <2>3, <2>4 DEF TypeOK, WriteRow
<1>8. ASSUME SaveState PROVE TypeOK'
    <2>1. StoresTypeOK'
        BY <1>0, <1>8 DEF StoresTypeOK, SaveState, CommitterTypeOK, StoreOrder
    <2>2. CommitterTypeOK'
        <3>1. CASE pc = "redo"
            <4>1. cur.block + 1 \in 1 .. N + 1
                BY <1>0, <3>1 DEF CommitterTypeOK, StoresTypeOK, Position
            <4>2. /\ pc' = "recover" /\ next' = [next EXCEPT !.state = cur.block + 1]
                  /\ cur' = NoUpdates /\ ahead' = ahead
                BY <1>8, <3>1 DEF SaveState
            <4>3. next' \in [state : 1 .. N + 1, history : 1 .. N + 1]
                BY <1>0, <4>1, <4>2 DEF CommitterTypeOK
            <4> QED
                BY <1>0, <4>2, <4>3, IdleTypes DEF CommitterTypeOK, Pcs
        <3>2. CASE pc # "redo"
            BY <1>0, <1>8, <3>2 DEF CommitterTypeOK, SaveState, Pcs
        <3> QED
            BY <3>1, <3>2
    <2>3. ReconcilerTypeOK'
        BY <1>0, <1>8 DEF ReconcilerTypeOK, SaveState
    <2>4. SnapshotTypeOK'
        BY <1>0, <1>8 DEF SnapshotTypeOK, SaveState
    <2> QED
        BY <1>0, <1>8, <2>1, <2>2, <2>3, <2>4 DEF TypeOK, SaveState
<1>9. ASSUME HistoryCommit PROVE TypeOK'
    <2>1. StoresTypeOK'
        <3>1. cur.block \in 1 .. N
            BY <1>0, <1>9 DEF HistoryCommit, CommitterTypeOK, Position
        <3>2. history' \subseteq history \cup {cur.block} /\ histPoint' = cur.block
            BY <1>9 DEF HistoryCommit, HistoryBatch
        <3>3. UNCHANGED <<blocks, pvtHeight, pvtData, missing, state, savepoint>>
            BY <1>9 DEF HistoryCommit
        <3> QED
            BY <1>0, <3>1, <3>2, <3>3 DEF StoresTypeOK
    <2>2. CommitterTypeOK'
        BY <1>0, <1>9 DEF CommitterTypeOK, HistoryCommit, Pcs
    <2>3. ReconcilerTypeOK'
        BY <1>0, <1>9 DEF ReconcilerTypeOK, HistoryCommit
    <2>4. SnapshotTypeOK'
        BY <1>0, <1>9 DEF SnapshotTypeOK, HistoryCommit
    <2> QED
        BY <1>0, <1>9, <2>1, <2>2, <2>3, <2>4 DEF TypeOK, HistoryCommit
<1>10. ASSUME CommitDone PROVE TypeOK'
    <2>1. StoresTypeOK'
        BY <1>0, <1>10 DEF StoresTypeOK, CommitDone
    <2>2. CommitterTypeOK'
        BY <1>0, <1>10 DEF CommitterTypeOK, CommitDone, NoUpdates, Pcs
    <2>3. ReconcilerTypeOK'
        BY <1>0, <1>10 DEF ReconcilerTypeOK, CommitDone
    <2>4. SnapshotTypeOK'
        BY <1>0, <1>10 DEF SnapshotTypeOK, CommitDone, NoSnapshot, CommitterTypeOK
    <2> QED
        BY <1>0, <1>10, <2>1, <2>2, <2>3, <2>4 DEF TypeOK, CommitDone
<1>11. ASSUME Open PROVE TypeOK'
    <2>1. StoresTypeOK'
        BY <1>0, <1>11 DEF StoresTypeOK, Open
    <2>2. CommitterTypeOK'
        BY <1>0, <1>11 DEF CommitterTypeOK, Open, StoresTypeOK, Pcs
    <2>3. ReconcilerTypeOK'
        BY <1>0, <1>11 DEF ReconcilerTypeOK, Open
    <2>4. SnapshotTypeOK'
        BY <1>0, <1>11 DEF SnapshotTypeOK, Open
    <2> QED
        BY <1>0, <1>11, <2>1, <2>2, <2>3, <2>4 DEF TypeOK, Open
<1>12. ASSUME RecoverState PROVE TypeOK'
    <2>1. StoresTypeOK'
        BY <1>0, <1>12 DEF StoresTypeOK, RecoverState
    <2>2. CommitterTypeOK'
        <3> DEFINE n == next.state
        <3>1. n \in 1 .. N /\ n \in 1 .. Len(blocks)
            BY <1>0, <1>12 DEF CommitterTypeOK, StoresTypeOK, RecoverState
        <3>2. blocks[n] \in BOOLEAN
            BY <1>0, <3>1 DEF StoresTypeOK
        <3>3. UpdateBatch(n, blocks[n], n \in pvtData) \subseteq Row
            BY <3>1, <3>2, BatchType, (n \in pvtData) \in BOOLEAN
        <3>4. cur' = [NoUpdates EXCEPT !.block = n, !.valid = blocks[n],
                                       !.rows = UpdateBatch(n, blocks[n], n \in pvtData)]
            BY <1>12 DEF RecoverState
        <3>5. cur' = [block |-> n, lite |-> FALSE, got |-> FALSE, valid |-> blocks[n],
                      rows |-> UpdateBatch(n, blocks[n], n \in pvtData)]
            BY <3>4 DEF NoUpdates
        <3>6. pc' \in Pcs /\ UNCHANGED <<next, ahead>>
            BY <1>12 DEF RecoverState, Pcs
        <3> HIDE DEF n
        <3> QED
            BY <1>0, <3>1, <3>2, <3>3, <3>5, <3>6 DEF CommitterTypeOK
    <2>3. ReconcilerTypeOK'
        BY <1>0, <1>12 DEF ReconcilerTypeOK, RecoverState
    <2>4. SnapshotTypeOK'
        BY <1>0, <1>12 DEF SnapshotTypeOK, RecoverState
    <2> QED
        BY <1>0, <1>12, <2>1, <2>2, <2>3, <2>4 DEF TypeOK, RecoverState
<1>13. ASSUME RecoverHistory PROVE TypeOK'
    <2>1. StoresTypeOK'
        BY <1>0, <1>13 DEF StoresTypeOK, RecoverHistory, HistoryBatch, CommitterTypeOK, StoreOrder
    <2>2. CommitterTypeOK'
        BY <1>0, <1>13 DEF CommitterTypeOK, RecoverHistory, StoresTypeOK, Pcs
    <2>3. ReconcilerTypeOK'
        BY <1>0, <1>13 DEF ReconcilerTypeOK, RecoverHistory
    <2>4. SnapshotTypeOK'
        BY <1>0, <1>13 DEF SnapshotTypeOK, RecoverHistory
    <2> QED
        BY <1>0, <1>13, <2>1, <2>2, <2>3, <2>4 DEF TypeOK, RecoverHistory
<1>14. ASSUME Recovered PROVE TypeOK'
    <2>1. StoresTypeOK'
        BY <1>0, <1>14 DEF StoresTypeOK, Recovered
    <2>2. CommitterTypeOK'
        BY <1>0, <1>14 DEF CommitterTypeOK, Recovered, Pcs
    <2>3. ReconcilerTypeOK'
        BY <1>0, <1>14 DEF ReconcilerTypeOK, Recovered
    <2>4. SnapshotTypeOK'
        BY <1>0, <1>14 DEF SnapshotTypeOK, Recovered, NoSnapshot, StoresTypeOK
    <2> QED
        BY <1>0, <1>14, <2>1, <2>2, <2>3, <2>4 DEF TypeOK, Recovered
<1>15. ASSUME NEW n \in missing, GetMissing(n) PROVE TypeOK'
    <2>1. StoresTypeOK'
        BY <1>0, <1>15 DEF StoresTypeOK, GetMissing
    <2>2. CommitterTypeOK'
        BY <1>0, <1>15 DEF CommitterTypeOK, GetMissing
    <2>3. ReconcilerTypeOK'
        <3>1. rec' = [pc |-> "fetched", block |-> n, rows |-> {}]
            BY <1>15 DEF GetMissing, Idle
        <3> QED
            BY <1>0, <3>1 DEF ReconcilerTypeOK, StoresTypeOK
    <2>4. SnapshotTypeOK'
        BY <1>0, <1>15 DEF SnapshotTypeOK, GetMissing
    <2> QED
        BY <1>0, <1>15, <2>1, <2>2, <2>3, <2>4 DEF TypeOK, GetMissing
<1>16. ASSUME SelectRows PROVE TypeOK'
    <2>1. StoresTypeOK'
        BY <1>0, <1>16 DEF StoresTypeOK, SelectRows
    <2>2. CommitterTypeOK'
        BY <1>0, <1>16 DEF CommitterTypeOK, SelectRows
    <2>3. ReconcilerTypeOK'
        <3> DEFINE R == {<<"private", k>> : k \in {j \in PvtKeys(rec.block) :
                                    blocks[rec.block] /\ ~Stale(rec.block, j)}}
        <3>1. R \subseteq Row
            BY DEF Row, PvtKeys
        <3>2. rec' = [rec EXCEPT !.pc = "rows", !.rows = R] \/ rec' = Idle
            BY <1>16 DEF SelectRows
        <3> HIDE DEF R
        <3> QED
            BY <1>0, <3>1, <3>2, IdleTypes DEF ReconcilerTypeOK
    <2>4. SnapshotTypeOK'
        BY <1>0, <1>16 DEF SnapshotTypeOK, SelectRows
    <2> QED
        BY <1>0, <1>16, <2>1, <2>2, <2>3, <2>4 DEF TypeOK, SelectRows
<1>17. ASSUME NEW r \in rec.rows, WriteOldRow(r) PROVE TypeOK'
    <2>1. StoresTypeOK'
        BY <1>0, <1>17, VersionType DEF StoresTypeOK, WriteOldRow, ReconcilerTypeOK, StoreOrder
    <2>2. CommitterTypeOK'
        BY <1>0, <1>17 DEF CommitterTypeOK, WriteOldRow
    <2>3. ReconcilerTypeOK'
        BY <1>0, <1>17 DEF ReconcilerTypeOK, WriteOldRow
    <2>4. SnapshotTypeOK'
        BY <1>0, <1>17 DEF SnapshotTypeOK, WriteOldRow
    <2> QED
        BY <1>0, <1>17, <2>1, <2>2, <2>3, <2>4 DEF TypeOK, WriteOldRow
<1>18. ASSUME ReleaseLock PROVE TypeOK'
    <2>1. StoresTypeOK'
        BY <1>0, <1>18 DEF StoresTypeOK, ReleaseLock
    <2>2. CommitterTypeOK'
        BY <1>0, <1>18 DEF CommitterTypeOK, ReleaseLock
    <2>3. ReconcilerTypeOK'
        BY <1>0, <1>18 DEF ReconcilerTypeOK, ReleaseLock
    <2>4. SnapshotTypeOK'
        BY <1>0, <1>18 DEF SnapshotTypeOK, ReleaseLock
    <2> QED
        BY <1>0, <1>18, <2>1, <2>2, <2>3, <2>4 DEF TypeOK, ReleaseLock
<1>19. ASSUME CommitPvtDataOfOldBlocks PROVE TypeOK'
    <2>1. StoresTypeOK'
        BY <1>0, <1>19 DEF StoresTypeOK, CommitPvtDataOfOldBlocks, ReconcilerTypeOK, Reconciling, StoreOrder
    <2>2. CommitterTypeOK'
        BY <1>0, <1>19 DEF CommitterTypeOK, CommitPvtDataOfOldBlocks
    <2>3. ReconcilerTypeOK'
        BY <1>0, <1>19 DEF ReconcilerTypeOK, CommitPvtDataOfOldBlocks, Idle
    <2>4. SnapshotTypeOK'
        BY <1>0, <1>19 DEF SnapshotTypeOK, CommitPvtDataOfOldBlocks
    <2> QED
        BY <1>0, <1>19, <2>1, <2>2, <2>3, <2>4 DEF TypeOK, CommitPvtDataOfOldBlocks
<1>20. ASSUME ExportState PROVE TypeOK'
    <2>1. StoresTypeOK'
        BY <1>0, <1>20 DEF StoresTypeOK, ExportState
    <2>2. CommitterTypeOK'
        BY <1>0, <1>20 DEF CommitterTypeOK, ExportState
    <2>3. ReconcilerTypeOK'
        BY <1>0, <1>20 DEF ReconcilerTypeOK, ExportState
    <2>4. SnapshotTypeOK'
        <3>1. PublicState \in [Key -> 0 .. N]
            BY <1>0 DEF PublicState, StoresTypeOK, Row
        <3>2. snap.block \in 0 .. N /\ Len(blocks) \in 0 .. N
            BY <1>0 DEF SnapshotTypeOK, StoresTypeOK
        <3> QED
            BY <1>0, <1>20, <3>1, <3>2 DEF SnapshotTypeOK, ExportState
    <2> QED
        BY <1>0, <1>20, <2>1, <2>2, <2>3, <2>4 DEF TypeOK, ExportState
<1>21. ASSUME RenameSnapshot PROVE TypeOK'
    <2>1. StoresTypeOK'
        BY <1>0, <1>21 DEF StoresTypeOK, RenameSnapshot
    <2>2. CommitterTypeOK'
        BY <1>0, <1>21 DEF CommitterTypeOK, RenameSnapshot
    <2>3. ReconcilerTypeOK'
        BY <1>0, <1>21 DEF ReconcilerTypeOK, RenameSnapshot
    <2>4. SnapshotTypeOK'
        BY <1>0, <1>21 DEF SnapshotTypeOK, RenameSnapshot
    <2> QED
        BY <1>0, <1>21, <2>1, <2>2, <2>3, <2>4 DEF TypeOK, RenameSnapshot
<1>22. ASSUME SnapshotDone PROVE TypeOK'
    <2>1. StoresTypeOK'
        BY <1>0, <1>22 DEF StoresTypeOK, SnapshotDone
    <2>2. CommitterTypeOK'
        BY <1>0, <1>22 DEF CommitterTypeOK, SnapshotDone, Pcs
    <2>3. ReconcilerTypeOK'
        BY <1>0, <1>22 DEF ReconcilerTypeOK, SnapshotDone
    <2>4. SnapshotTypeOK'
        BY <1>0, <1>22 DEF SnapshotTypeOK, SnapshotDone, NoSnapshot
    <2> QED
        BY <1>0, <1>22, <2>1, <2>2, <2>3, <2>4 DEF TypeOK, SnapshotDone
<1>23. ASSUME NEW b \in Request, SubmitSnapshotRequest(b) PROVE TypeOK'
    <2>1. StoresTypeOK'
        BY <1>0, <1>23 DEF StoresTypeOK, SubmitSnapshotRequest
    <2>2. CommitterTypeOK'
        BY <1>0, <1>23 DEF CommitterTypeOK, SubmitSnapshotRequest
    <2>3. ReconcilerTypeOK'
        BY <1>0, <1>23 DEF ReconcilerTypeOK, SubmitSnapshotRequest
    <2>4. SnapshotTypeOK'
        BY <1>0, <1>23 DEF SnapshotTypeOK, SubmitSnapshotRequest
    <2> QED
        BY <1>0, <1>23, <2>1, <2>2, <2>3, <2>4 DEF TypeOK, SubmitSnapshotRequest
<1>24. ASSUME NEW b \in Request, CancelSnapshotRequest(b) PROVE TypeOK'
    <2>1. StoresTypeOK'
        BY <1>0, <1>24 DEF StoresTypeOK, CancelSnapshotRequest
    <2>2. CommitterTypeOK'
        BY <1>0, <1>24 DEF CommitterTypeOK, CancelSnapshotRequest
    <2>3. ReconcilerTypeOK'
        BY <1>0, <1>24 DEF ReconcilerTypeOK, CancelSnapshotRequest
    <2>4. SnapshotTypeOK'
        BY <1>0, <1>24 DEF SnapshotTypeOK, CancelSnapshotRequest
    <2> QED
        BY <1>0, <1>24, <2>1, <2>2, <2>3, <2>4 DEF TypeOK, CancelSnapshotRequest
<1>25. ASSUME Crash PROVE TypeOK'
    <2>1. StoresTypeOK'
        BY <1>0, <1>25 DEF StoresTypeOK, Crash, Stop
    <2>2. CommitterTypeOK'
        <3>1. /\ pc' = "closed" /\ cur' = NoUpdates /\ ahead' = FALSE
              /\ next' = [state |-> 1, history |-> 1]
            BY <1>25 DEF Crash, Stop
        <3>2. next' \in [state : 1 .. N + 1, history : 1 .. N + 1]
            BY <3>1
        <3> QED
            BY <3>1, <3>2, IdleTypes DEF CommitterTypeOK, Pcs
    <2>3. ReconcilerTypeOK'
        BY <1>0, <1>25 DEF ReconcilerTypeOK, Crash, Stop, Idle
    <2>4. SnapshotTypeOK'
        BY <1>0, <1>25 DEF SnapshotTypeOK, Crash, Stop, NoSnapshot
    <2> QED
        BY <1>0, <1>25, <2>1, <2>2, <2>3, <2>4, LedgerAssumption DEF TypeOK, Crash, Stop
<1>26. ASSUME NEW n \in 0 .. Len(blocks), Rollback(n) PROVE TypeOK'
    <2>1. StoresTypeOK'
        BY <1>0, <1>26 DEF StoresTypeOK, Rollback, StoreOrder
    <2>2. CommitterTypeOK'
        BY <1>0, <1>26 DEF CommitterTypeOK, Rollback
    <2>3. ReconcilerTypeOK'
        BY <1>0, <1>26 DEF ReconcilerTypeOK, Rollback
    <2>4. SnapshotTypeOK'
        BY <1>0, <1>26 DEF SnapshotTypeOK, Rollback
    <2> QED
        BY <1>0, <1>26, <2>1, <2>2, <2>3, <2>4, LedgerAssumption DEF TypeOK, Rollback
<1>27. CASE UNCHANGED vars
    BY <1>0, <1>27 DEF TypeOK, StoresTypeOK, CommitterTypeOK, ReconcilerTypeOK, SnapshotTypeOK, vars
<1> QED
    BY <1>1, <1>2, <1>3, <1>4, <1>5, <1>6, <1>7, <1>8, <1>9, <1>10, <1>11, <1>12, <1>13, <1>14, <1>15, <1>16, <1>17, <1>18, <1>19, <1>20, <1>21, <1>22, <1>23, <1>24, <1>25, <1>26, <1>27 DEF Next, Commit, Start, Reconcile, Snapshot

(* Every step keeps the stores in order and the goroutine where it says.   *)
LEMMA CourseStep ==
    ASSUME TypeOK, StoreOrder, AheadIsAhead, Position, [Next]_vars
    PROVE  StoreOrder' /\ AheadIsAhead' /\ Position'
<1> USE ChainType DEF disk, snapVars, bounds
<1> DEFINE Goal == StoreOrder' /\ AheadIsAhead' /\ Position'
<1>0. StoresTypeOK /\ CommitterTypeOK
    BY DEF TypeOK
<1>1. ASSUME StoreBlock PROVE Goal
    BY <1>0, <1>1 DEF StoresTypeOK, CommitterTypeOK, StoreOrder, AheadIsAhead, Position, StoreBlock, NoUpdates
<1>2. ASSUME ValidateAndPrepare PROVE Goal
    BY <1>0, <1>2 DEF StoresTypeOK, CommitterTypeOK, StoreOrder, AheadIsAhead, Position, ValidateAndPrepare
<1>3. ASSUME LeanPanic PROVE Goal
    BY <1>0, <1>3 DEF StoresTypeOK, CommitterTypeOK, StoreOrder, AheadIsAhead, Position, LeanPanic, Stop
<1>4. ASSUME CommitPvtData PROVE Goal
    <2>1. /\ pc = "private data" /\ pc' = "block"
          /\ UNCHANGED <<blocks, savepoint, histPoint, cur, next, ahead>>
          /\ ahead => pvtHeight' = pvtHeight
          /\ ~ahead => pvtHeight' = cur.block
        BY <1>4 DEF CommitPvtData
    <2>2. cur.block = Len(blocks) + 1 /\ cur.block <= N
        BY <2>1 DEF Position
    <2>3. StoreOrder' /\ AheadIsAhead'
        <3>1. CASE ahead
            BY <1>0, <2>1, <3>1 DEF StoreOrder, AheadIsAhead
        <3>2. CASE ~ahead
            <4>1. pvtHeight' = Len(blocks) + 1 /\ ~ahead'
                BY <2>1, <2>2, <3>2
            <4>2. StoreOrder'
                <5>1. Len(blocks) \in Nat
                    BY <1>0 DEF StoresTypeOK
                <5>2. blocks' = blocks /\ savepoint' = savepoint /\ histPoint' = histPoint
                    BY <1>4 DEF CommitPvtData
                <5>3. pvtHeight' = Len(blocks) + 1
                    BY <4>1
                <5> QED
                    BY <5>1, <5>2, <5>3 DEF StoreOrder
            <4>3. AheadIsAhead'
                BY <2>1, <4>1 DEF AheadIsAhead
            <4> QED
                BY <4>2, <4>3
        <3> QED
            BY <3>1, <3>2
    <2>4. Position'
        BY <2>1 DEF Position
    <2> QED
        BY <2>3, <2>4
<1>5. ASSUME AddBlock PROVE Goal
    <2>1. /\ pc = "block" /\ pc' = "state"
          /\ blocks' = Append(blocks, cur.valid)
          /\ ahead' <=> (ahead /\ pvtHeight # cur.block)
          /\ UNCHANGED <<pvtHeight, savepoint, histPoint, cur, next>>
        BY <1>5 DEF AddBlock
    <2>2. cur.block = Len(blocks) + 1 /\ savepoint = Len(blocks)
        BY <2>1 DEF Position
    <2>3. Len(blocks') = Len(blocks) + 1 /\ Len(blocks) \in Nat
        BY <1>0, <2>1 DEF StoresTypeOK, CommitterTypeOK
    <2>4. pvtHeight > Len(blocks) /\ (~ahead => pvtHeight = Len(blocks) + 1)
        BY <1>0, <2>1, <2>3 DEF AheadIsAhead, CommitterTypeOK, StoresTypeOK
    <2>5. StoreOrder'
        BY <1>0, <2>1, <2>2, <2>3, <2>4 DEF StoreOrder, StoresTypeOK
    <2>6. AheadIsAhead'
        BY <1>0, <2>1, <2>2, <2>3, <2>4 DEF AheadIsAhead, StoresTypeOK, CommitterTypeOK
    <2>7. Position'
        BY <2>1, <2>2, <2>3 DEF Position
    <2> QED
        BY <2>5, <2>6, <2>7
<1>6. ASSUME TxmgrCommit PROVE Goal
    BY <1>0, <1>6 DEF StoresTypeOK, CommitterTypeOK, StoreOrder, AheadIsAhead, Position, TxmgrCommit
<1>7. ASSUME NEW r \in cur.rows, WriteRow(r) PROVE Goal
    BY <1>0, <1>7 DEF StoresTypeOK, CommitterTypeOK, StoreOrder, AheadIsAhead, Position, WriteRow
<1>8. ASSUME SaveState PROVE Goal
    <2>1. /\ pc \in {"rows", "redo"} /\ savepoint' = cur.block
          /\ pc' \in (IF pc = "redo" THEN {"recover"} ELSE {"done", "history"})
          /\ pc = "redo" => next' = [next EXCEPT !.state = cur.block + 1]
          /\ pc # "redo" => UNCHANGED <<next, cur>>
          /\ UNCHANGED <<blocks, pvtHeight, histPoint, ahead>>
        BY <1>8 DEF SaveState
    <2>2. cur.block <= Len(blocks)
        <3>1. CASE pc = "redo"
            BY <3>1 DEF Position
        <3>2. CASE pc = "rows"
            BY <1>0, <3>2 DEF Position, StoresTypeOK
        <3> QED
            BY <2>1, <3>1, <3>2
    <2>3. StoreOrder'
        BY <2>1, <2>2 DEF StoreOrder
    <2>4. AheadIsAhead'
        BY <2>1 DEF AheadIsAhead
    <2>5. Position'
        <3>1. CASE pc = "redo"
            BY <1>0, <2>1, <3>1 DEF Position, CommitterTypeOK
        <3>2. CASE pc = "rows"
            BY <1>0, <2>1, <3>2 DEF Position
        <3> QED
            BY <2>1, <3>1, <3>2
    <2> QED
        BY <2>3, <2>4, <2>5
<1>9. ASSUME HistoryCommit PROVE Goal
    BY <1>0, <1>9 DEF StoresTypeOK, CommitterTypeOK, StoreOrder, AheadIsAhead, Position, HistoryCommit, HistoryBatch
<1>10. ASSUME CommitDone PROVE Goal
    BY <1>0, <1>10 DEF StoresTypeOK, CommitterTypeOK, StoreOrder, AheadIsAhead, Position, CommitDone
<1>11. ASSUME Open PROVE Goal
    <2>1. StoreOrder'
        BY <1>11 DEF Open, StoreOrder
    <2>2. AheadIsAhead'
        <3>1. /\ pc' = "recover" /\ (ahead' <=> pvtHeight > Len(blocks))
              /\ UNCHANGED <<blocks, pvtHeight>>
            BY <1>11 DEF Open
        <3> QED
            BY <1>0, <3>1 DEF AheadIsAhead, StoreOrder, StoresTypeOK
    <2>3. Position'
        BY <1>0, <1>11 DEF Open, Position, StoresTypeOK
    <2> QED
        BY <2>1, <2>2, <2>3
<1>12. ASSUME RecoverState PROVE Goal
    BY <1>0, <1>12 DEF StoresTypeOK, CommitterTypeOK, StoreOrder, AheadIsAhead, Position, RecoverState, NoUpdates
<1>13. ASSUME RecoverHistory PROVE Goal
    BY <1>0, <1>13 DEF StoresTypeOK, CommitterTypeOK, StoreOrder, AheadIsAhead, Position, RecoverHistory, HistoryBatch
<1>14. ASSUME Recovered PROVE Goal
    BY <1>0, <1>14 DEF StoresTypeOK, CommitterTypeOK, StoreOrder, AheadIsAhead, Position, Recovered
<1>15. ASSUME NEW n \in missing, GetMissing(n) PROVE Goal
    BY <1>0, <1>15 DEF StoresTypeOK, CommitterTypeOK, StoreOrder, AheadIsAhead, Position, GetMissing
<1>16. ASSUME SelectRows PROVE Goal
    BY <1>0, <1>16 DEF StoresTypeOK, CommitterTypeOK, StoreOrder, AheadIsAhead, Position, SelectRows
<1>17. ASSUME NEW r \in rec.rows, WriteOldRow(r) PROVE Goal
    BY <1>0, <1>17 DEF StoresTypeOK, CommitterTypeOK, StoreOrder, AheadIsAhead, Position, WriteOldRow
<1>18. ASSUME ReleaseLock PROVE Goal
    BY <1>0, <1>18 DEF StoresTypeOK, CommitterTypeOK, StoreOrder, AheadIsAhead, Position, ReleaseLock
<1>19. ASSUME CommitPvtDataOfOldBlocks PROVE Goal
    BY <1>0, <1>19 DEF StoresTypeOK, CommitterTypeOK, StoreOrder, AheadIsAhead, Position, CommitPvtDataOfOldBlocks
<1>20. ASSUME ExportState PROVE Goal
    BY <1>0, <1>20 DEF StoresTypeOK, CommitterTypeOK, StoreOrder, AheadIsAhead, Position, ExportState
<1>21. ASSUME RenameSnapshot PROVE Goal
    BY <1>0, <1>21 DEF StoresTypeOK, CommitterTypeOK, StoreOrder, AheadIsAhead, Position, RenameSnapshot
<1>22. ASSUME SnapshotDone PROVE Goal
    BY <1>0, <1>22 DEF StoresTypeOK, CommitterTypeOK, StoreOrder, AheadIsAhead, Position, SnapshotDone
<1>23. ASSUME NEW b \in Request, SubmitSnapshotRequest(b) PROVE Goal
    BY <1>0, <1>23 DEF StoresTypeOK, CommitterTypeOK, StoreOrder, AheadIsAhead, Position, SubmitSnapshotRequest
<1>24. ASSUME NEW b \in Request, CancelSnapshotRequest(b) PROVE Goal
    BY <1>0, <1>24 DEF StoresTypeOK, CommitterTypeOK, StoreOrder, AheadIsAhead, Position, CancelSnapshotRequest
<1>25. ASSUME Crash PROVE Goal
    BY <1>0, <1>25 DEF StoresTypeOK, CommitterTypeOK, StoreOrder, AheadIsAhead, Position, Crash, Stop
<1>26. ASSUME NEW n \in 0 .. Len(blocks), Rollback(n) PROVE Goal
    BY <1>0, <1>26 DEF StoresTypeOK, CommitterTypeOK, StoreOrder, AheadIsAhead, Position, Rollback
<1>27. CASE UNCHANGED vars
    BY <1>27 DEF StoreOrder, AheadIsAhead, Position, vars
<1> QED
    BY <1>1, <1>2, <1>3, <1>4, <1>5, <1>6, <1>7, <1>8, <1>9, <1>10, <1>11, <1>12, <1>13, <1>14, <1>15, <1>16, <1>17, <1>18, <1>19, <1>20, <1>21, <1>22, <1>23, <1>24, <1>25, <1>26, <1>27 DEF Next, Commit, Start, Reconcile, Snapshot

(* Every step keeps what is being written in accord with the block.        *)
LEMMA PreparedStep ==
    ASSUME TypeOK, Position, Prepared, Reconciling, [Next]_vars
    PROVE  Prepared'
<1> USE ChainType DEF disk, snapVars, bounds
<1>0. StoresTypeOK /\ CommitterTypeOK /\ ReconcilerTypeOK
    BY DEF TypeOK
<1>1. ASSUME StoreBlock PROVE Prepared'
    BY <1>0, <1>1 DEF Prepared, StoreBlock
<1>2. ASSUME ValidateAndPrepare PROVE Prepared'
    <2>1. pc' = "private data"
        BY <1>2 DEF ValidateAndPrepare
    <2>2. /\ cur'.block = cur.block /\ cur'.got = cur.got
          /\ cur'.valid = NoConflict(cur.block)
          /\ cur'.rows = UpdateBatch(cur.block, NoConflict(cur.block), cur.got)
        BY <1>0, <1>2 DEF ValidateAndPrepare, CommitterTypeOK
    <2> QED
        BY <2>1, <2>2 DEF Prepared
<1>3. ASSUME LeanPanic PROVE Prepared'
    BY <1>0, <1>3 DEF Prepared, LeanPanic, Stop
<1>4. ASSUME CommitPvtData PROVE Prepared'
    BY <1>0, <1>4 DEF Prepared, CommitPvtData
<1>5. ASSUME AddBlock PROVE Prepared'
    <2>1. pc = "block" /\ pc' = "state" /\ cur' = cur /\ blocks' = Append(blocks, cur.valid)
        BY <1>5 DEF AddBlock
    <2>2. cur.block = Len(blocks) + 1
        BY <2>1 DEF Position
    <2>3. blocks'[cur.block] = cur.valid
        BY <1>0, <2>1, <2>2 DEF StoresTypeOK, CommitterTypeOK
    <2> QED
        BY <2>1, <2>3 DEF Prepared
<1>6. ASSUME TxmgrCommit PROVE Prepared'
    <2>1. pc = "state" /\ pc' = "rows" /\ UNCHANGED <<blocks, state, cur>>
        BY <1>6 DEF TxmgrCommit
    <2>2. /\ cur.block \in 1 .. N /\ cur.valid \in BOOLEAN /\ cur.got \in BOOLEAN
          /\ cur.rows = UpdateBatch(cur.block, cur.valid, cur.got)
          /\ cur.valid = blocks[cur.block]
        BY <1>0, <2>1 DEF CommitterTypeOK, Position, Prepared
    <2>3. \A r \in cur.rows : blocks[cur.block] /\ r[2] \in Chain[cur.block].writes
        BY <2>2, BatchType
    <2>4. blocks[cur.block] => \A k \in Chain[cur.block].writes : <<"public", k>> \in cur.rows
        BY <2>2 DEF UpdateBatch
    <2> QED
        BY <2>1, <2>3, <2>4 DEF Prepared
<1>7. ASSUME NEW r \in cur.rows, WriteRow(r) PROVE Prepared'
    <2>1. /\ pc \in {"rows", "redo"} /\ UNCHANGED <<pc, blocks>>
          /\ state' = [state EXCEPT ![r] = Version(cur.block, r[2])]
          /\ cur' = [cur EXCEPT !.rows = @ \ {r}]
        BY <1>7 DEF WriteRow
    <2>2. cur'.block = cur.block /\ cur'.rows = cur.rows \ {r} /\ r \in Row
        BY <1>0, <2>1 DEF CommitterTypeOK
    <2>3. \A q \in cur'.rows : blocks[cur.block] /\ q[2] \in Chain[cur.block].writes
        BY <2>1, <2>2 DEF Prepared
    <2>4. ASSUME NEW k \in PvtKey, blocks[cur.block], k \in Chain[cur.block].writes,
                 <<"public", k>> \notin cur'.rows
          PROVE  state'[<<"public", k>>] = Version(cur.block, k)
        <3>1. CASE r = <<"public", k>>
            BY <1>0, <2>1, <2>2, <3>1 DEF StoresTypeOK
        <3>2. CASE r # <<"public", k>>
            <4>1. state[<<"public", k>>] = Version(cur.block, k)
                BY <2>1, <2>2, <2>4, <3>2 DEF Prepared
            <4> QED
                BY <1>0, <2>1, <3>2, <4>1, RowFacts DEF StoresTypeOK
        <3> QED
            BY <3>1, <3>2
    <2> QED
        BY <2>1, <2>2, <2>3, <2>4 DEF Prepared
<1>8. ASSUME SaveState PROVE Prepared'
    BY <1>0, <1>8 DEF Prepared, SaveState
<1>9. ASSUME HistoryCommit PROVE Prepared'
    BY <1>0, <1>9 DEF Prepared, HistoryCommit
<1>10. ASSUME CommitDone PROVE Prepared'
    BY <1>0, <1>10 DEF Prepared, CommitDone
<1>11. ASSUME Open PROVE Prepared'
    BY <1>0, <1>11 DEF Prepared, Open
<1>12. ASSUME RecoverState PROVE Prepared'
    <2> DEFINE n == next.state
    <2>1. /\ pc' = "redo" /\ UNCHANGED <<blocks, state>>
          /\ n \in 1 .. Len(blocks)
          /\ cur'.block = n /\ cur'.rows = UpdateBatch(n, blocks[n], n \in pvtData)
        BY <1>0, <1>12 DEF RecoverState, NoUpdates, CommitterTypeOK, StoresTypeOK
    <2>2. blocks[n] \in BOOLEAN /\ n \in 1 .. N /\ (n \in pvtData) \in BOOLEAN
        BY <1>0, <2>1 DEF StoresTypeOK
    <2>3. \A r \in cur'.rows : blocks[n] /\ r[2] \in Chain[n].writes
        <3>1. \A r \in UpdateBatch(n, blocks[n], n \in pvtData) :
                blocks[n] /\ r[2] \in Chain[n].writes
            BY <2>2, BatchType
        <3> QED
            BY <2>1, <3>1
    <2>4. blocks[n] => \A k \in Chain[n].writes : <<"public", k>> \in cur'.rows
        BY <2>1 DEF UpdateBatch
    <2> HIDE DEF n
    <2> QED
        BY <2>1, <2>3, <2>4 DEF Prepared
<1>13. ASSUME RecoverHistory PROVE Prepared'
    BY <1>0, <1>13 DEF Prepared, RecoverHistory
<1>14. ASSUME Recovered PROVE Prepared'
    BY <1>0, <1>14 DEF Prepared, Recovered
<1>15. ASSUME NEW n \in missing, GetMissing(n) PROVE Prepared'
    BY <1>0, <1>15 DEF Prepared, GetMissing
<1>16. ASSUME SelectRows PROVE Prepared'
    BY <1>0, <1>16 DEF Prepared, SelectRows
<1>17. ASSUME NEW r \in rec.rows, WriteOldRow(r) PROVE Prepared'
    <2>1. UNCHANGED <<pc, blocks, cur>> /\ rec.pc = "rows"
        BY <1>17 DEF WriteOldRow
    <2>2. pc \notin {"rows", "redo"}
        BY <2>1 DEF Reconciling, Opened, Idle
    <2> QED
        BY <2>1, <2>2 DEF Prepared
<1>18. ASSUME ReleaseLock PROVE Prepared'
    BY <1>0, <1>18 DEF Prepared, ReleaseLock
<1>19. ASSUME CommitPvtDataOfOldBlocks PROVE Prepared'
    BY <1>0, <1>19 DEF Prepared, CommitPvtDataOfOldBlocks
<1>20. ASSUME ExportState PROVE Prepared'
    BY <1>0, <1>20 DEF Prepared, ExportState
<1>21. ASSUME RenameSnapshot PROVE Prepared'
    BY <1>0, <1>21 DEF Prepared, RenameSnapshot
<1>22. ASSUME SnapshotDone PROVE Prepared'
    BY <1>0, <1>22 DEF Prepared, SnapshotDone
<1>23. ASSUME NEW b \in Request, SubmitSnapshotRequest(b) PROVE Prepared'
    BY <1>0, <1>23 DEF Prepared, SubmitSnapshotRequest
<1>24. ASSUME NEW b \in Request, CancelSnapshotRequest(b) PROVE Prepared'
    BY <1>0, <1>24 DEF Prepared, CancelSnapshotRequest
<1>25. ASSUME Crash PROVE Prepared'
    BY <1>0, <1>25 DEF Prepared, Crash, Stop
<1>26. ASSUME NEW n \in 0 .. Len(blocks), Rollback(n) PROVE Prepared'
    BY <1>0, <1>26 DEF Prepared, Rollback
<1>27. CASE UNCHANGED vars
    BY <1>27 DEF Prepared, vars
<1> QED
    BY <1>1, <1>2, <1>3, <1>4, <1>5, <1>6, <1>7, <1>8, <1>9, <1>10, <1>11, <1>12, <1>13, <1>14, <1>15, <1>16, <1>17, <1>18, <1>19, <1>20, <1>21, <1>22, <1>23, <1>24, <1>25, <1>26, <1>27 DEF Next, Commit, Start, Reconcile, Snapshot

(* Every step keeps what the reconciler found valid for as long as it
   needs it.                                                               *)
LEMMA ReconcilingStep ==
    ASSUME TypeOK, Position, Reconciling, [Next]_vars
    PROVE  Reconciling'
<1> USE ChainType DEF disk, snapVars, bounds
<1>0. StoresTypeOK /\ CommitterTypeOK /\ ReconcilerTypeOK
    BY DEF TypeOK
<1>1. ASSUME StoreBlock PROVE Reconciling'
    BY <1>0, <1>1 DEF Reconciling, Opened, StoreBlock
<1>2. ASSUME ValidateAndPrepare PROVE Reconciling'
    BY <1>0, <1>2 DEF Reconciling, Opened, ValidateAndPrepare
<1>3. ASSUME LeanPanic PROVE Reconciling'
    BY <1>3 DEF Reconciling, Opened, LeanPanic, Stop, Idle
<1>4. ASSUME CommitPvtData PROVE Reconciling'
    BY <1>0, <1>4 DEF Reconciling, Opened, CommitPvtData
<1>5. ASSUME AddBlock PROVE Reconciling'
    BY <1>0, <1>5 DEF Reconciling, Opened, AddBlock
<1>6. ASSUME TxmgrCommit PROVE Reconciling'
    BY <1>0, <1>6 DEF Reconciling, Opened, TxmgrCommit
<1>7. ASSUME NEW r \in cur.rows, WriteRow(r) PROVE Reconciling'
    <2>1. pc \in {"rows", "redo"} /\ UNCHANGED <<pc, rec>>
        BY <1>7 DEF WriteRow
    <2>2. rec.pc # "rows"
        BY <2>1 DEF Reconciling, Opened, Idle
    <2> QED
        BY <2>1, <2>2 DEF Reconciling, Opened
<1>8. ASSUME SaveState PROVE Reconciling'
    BY <1>0, <1>8 DEF Reconciling, Opened, SaveState
<1>9. ASSUME HistoryCommit PROVE Reconciling'
    BY <1>0, <1>9 DEF Reconciling, Opened, HistoryCommit
<1>10. ASSUME CommitDone PROVE Reconciling'
    BY <1>0, <1>10 DEF Reconciling, Opened, CommitDone
<1>11. ASSUME Open PROVE Reconciling'
    BY <1>0, <1>11 DEF Reconciling, Opened, Open
<1>12. ASSUME RecoverState PROVE Reconciling'
    BY <1>0, <1>12 DEF Reconciling, Opened, RecoverState
<1>13. ASSUME RecoverHistory PROVE Reconciling'
    BY <1>0, <1>13 DEF Reconciling, Opened, RecoverHistory
<1>14. ASSUME Recovered PROVE Reconciling'
    BY <1>0, <1>14 DEF Reconciling, Opened, Recovered
<1>15. ASSUME NEW n \in missing, GetMissing(n) PROVE Reconciling'
    <2>1. /\ rec' = [pc |-> "fetched", block |-> n, rows |-> {}]
          /\ Opened /\ UNCHANGED pc
        BY <1>15 DEF GetMissing, Idle
    <2> QED
        BY <1>0, <2>1 DEF Reconciling, Opened, StoresTypeOK
<1>16. ASSUME SelectRows PROVE Reconciling'
    <2>1. rec.pc = "fetched" /\ UNCHANGED <<pc, state>>
        BY <1>16 DEF SelectRows
    <2>2. Opened /\ rec.block \in 1 .. N
        BY <2>1 DEF Reconciling, Idle
    <2>3. CASE rec' = Idle
        BY <2>1, <2>2, <2>3 DEF Reconciling, Opened, Idle
    <2>4. CASE rec' # Idle
        <3> DEFINE R == {<<"private", k>> : k \in {j \in PvtKeys(rec.block) :
                                    blocks[rec.block] /\ ~Stale(rec.block, j)}}
        <3>1. pc # "rows" /\ rec' = [rec EXCEPT !.pc = "rows", !.rows = R]
            BY <1>16, <2>4 DEF SelectRows
        <3>2. rec'.pc = "rows" /\ rec'.block = rec.block /\ rec'.rows = R
            BY <1>0, <3>1 DEF ReconcilerTypeOK
        <3>3. \A r \in R : r[1] = "private"
            OBVIOUS
        <3>4. ASSUME NEW k \in PvtKey, <<"private", k>> \in R
              PROVE  k \in Chain[rec.block].deletes \/ state[<<"public", k>>] = rec.block
            BY <3>4 DEF Stale
        <3> HIDE DEF R
        <3> QED
            BY <2>1, <2>2, <3>1, <3>2, <3>3, <3>4 DEF Reconciling, Opened
    <2> QED
        BY <2>3, <2>4
<1>17. ASSUME NEW r \in rec.rows, WriteOldRow(r) PROVE Reconciling'
    <2>1. /\ rec.pc = "rows" /\ UNCHANGED pc
          /\ state' = [state EXCEPT ![r] = Version(rec.block, r[2])]
          /\ rec' = [rec EXCEPT !.rows = @ \ {r}]
        BY <1>17 DEF WriteOldRow
    <2>2. rec'.pc = "rows" /\ rec'.block = rec.block /\ rec'.rows = rec.rows \ {r}
        BY <1>0, <2>1 DEF ReconcilerTypeOK
    <2>3. Opened /\ pc # "rows" /\ rec.block \in 1 .. N /\ r[1] = "private"
        BY <2>1 DEF Reconciling, Idle
    <2>4. \A k \in PvtKey : state'[<<"public", k>>] = state[<<"public", k>>]
        <3>1. \A k \in PvtKey : r # <<"public", k>>
            BY <2>3
        <3> QED
            BY <1>0, <2>1, <3>1, RowFacts DEF StoresTypeOK
    <2> QED
        BY <2>1, <2>2, <2>3, <2>4 DEF Reconciling, Opened
<1>18. ASSUME ReleaseLock PROVE Reconciling'
    <2>1. /\ rec.pc = "rows" /\ rec.rows = {} /\ UNCHANGED pc
          /\ rec' = [rec EXCEPT !.pc = "store"]
        BY <1>18 DEF ReleaseLock
    <2>2. rec'.pc = "store" /\ rec'.block = rec.block /\ rec'.rows = {}
        BY <1>0, <2>1 DEF ReconcilerTypeOK
    <2>3. Opened /\ rec.block \in 1 .. N
        BY <2>1 DEF Reconciling, Idle
    <2> QED
        BY <2>1, <2>2, <2>3 DEF Reconciling, Opened
<1>19. ASSUME CommitPvtDataOfOldBlocks PROVE Reconciling'
    BY <1>19 DEF Reconciling, Opened, CommitPvtDataOfOldBlocks, Idle
<1>20. ASSUME ExportState PROVE Reconciling'
    BY <1>0, <1>20 DEF Reconciling, Opened, ExportState
<1>21. ASSUME RenameSnapshot PROVE Reconciling'
    BY <1>0, <1>21 DEF Reconciling, Opened, RenameSnapshot
<1>22. ASSUME SnapshotDone PROVE Reconciling'
    BY <1>0, <1>22 DEF Reconciling, Opened, SnapshotDone
<1>23. ASSUME NEW b \in Request, SubmitSnapshotRequest(b) PROVE Reconciling'
    BY <1>0, <1>23 DEF Reconciling, Opened, SubmitSnapshotRequest
<1>24. ASSUME NEW b \in Request, CancelSnapshotRequest(b) PROVE Reconciling'
    BY <1>0, <1>24 DEF Reconciling, Opened, CancelSnapshotRequest
<1>25. ASSUME Crash PROVE Reconciling'
    BY <1>25 DEF Reconciling, Opened, Crash, Stop, Idle
<1>26. ASSUME NEW n \in 0 .. Len(blocks), Rollback(n) PROVE Reconciling'
    BY <1>26 DEF Reconciling, Opened, Rollback, Idle
<1>27. CASE UNCHANGED vars
    BY <1>27 DEF Reconciling, Opened, vars
<1> QED
    BY <1>1, <1>2, <1>3, <1>4, <1>5, <1>6, <1>7, <1>8, <1>9, <1>10, <1>11, <1>12, <1>13, <1>14, <1>15, <1>16, <1>17, <1>18, <1>19, <1>20, <1>21, <1>22, <1>23, <1>24, <1>25, <1>26, <1>27 DEF Next, Commit, Start, Reconcile, Snapshot

(* Every step keeps private values behind their hashes.                    *)
LEMMA VersionsStep ==
    ASSUME TypeOK, StoreOrder, Position, Prepared, Reconciling, Versions, [Next]_vars
    PROVE  Versions'
<1> USE ChainType DEF disk, snapVars, bounds
<1>0. StoresTypeOK /\ CommitterTypeOK /\ ReconcilerTypeOK
    BY DEF TypeOK
<1>1. ASSUME StoreBlock PROVE Versions'
    BY <1>0, <1>1 DEF Versions, Settled, Pending, StoreBlock
<1>2. ASSUME ValidateAndPrepare PROVE Versions'
    BY <1>0, <1>2 DEF Versions, Settled, Pending, ValidateAndPrepare
<1>3. ASSUME LeanPanic PROVE Versions'
    BY <1>0, <1>3 DEF Versions, Settled, Pending, LeanPanic, Stop
<1>4. ASSUME CommitPvtData PROVE Versions'
    BY <1>0, <1>4 DEF Versions, Settled, Pending, CommitPvtData
<1>5. ASSUME AddBlock PROVE Versions'
    <2>1. pc = "block" /\ UNCHANGED <<state, savepoint>>
        BY <1>5 DEF AddBlock
    <2>2. \A k \in PvtKey : Settled(k)
        BY <1>0, <2>1 DEF Position, Versions, Pending, StoresTypeOK
    <2> QED
        BY <2>1, <2>2 DEF Versions, Settled
<1>6. ASSUME TxmgrCommit PROVE Versions'
    <2>1. pc = "state" /\ UNCHANGED <<state, savepoint>>
        BY <1>6 DEF TxmgrCommit
    <2>2. \A k \in PvtKey : Settled(k)
        BY <2>1 DEF Versions, Pending
    <2> QED
        BY <2>1, <2>2 DEF Versions, Settled
<1>7. ASSUME NEW r \in cur.rows, WriteRow(r) PROVE Versions'
    <2>1. /\ pc \in {"rows", "redo"} /\ UNCHANGED <<pc, blocks, savepoint>>
          /\ state' = [state EXCEPT ![r] = Version(cur.block, r[2])]
          /\ cur' = [cur EXCEPT !.rows = @ \ {r}]
        BY <1>7 DEF WriteRow
    <2>2. cur'.rows = cur.rows \ {r} /\ r \in Row
        BY <1>0, <2>1 DEF CommitterTypeOK
    <2>3. cur.block = savepoint + 1 /\ cur.block <= Len(blocks) /\ cur.block \in 1 .. N
        <3>1. CASE pc = "redo"
            BY <1>0, <3>1 DEF Position, CommitterTypeOK, StoresTypeOK
        <3>2. CASE pc = "rows"
            BY <1>0, <3>2 DEF Position, CommitterTypeOK, StoresTypeOK
        <3> QED
            BY <2>1, <3>1, <3>2
    <2>4. Version(cur.block, r[2]) \in {0, cur.block}
        BY VersionType
    <2>5. \A q \in Row : state'[q] <= savepoint + 1
        BY <1>0, <2>1, <2>2, <2>3, <2>4 DEF Versions, StoresTypeOK
    <2>6. ASSUME NEW k \in PvtKey PROVE (Settled(k) \/ Pending(k))'
        <3>1. CASE r = <<"public", k>>
            <4>1. state'[<<"public", k>>] \in {0, savepoint + 1}
                BY <1>0, <2>1, <2>2, <2>3, <2>4, <3>1 DEF StoresTypeOK
            <4>2. state'[<<"private", k>>] <= savepoint + 1
                BY <2>5, RowFacts
            <4> QED
                BY <1>0, <4>1, <4>2 DEF Settled, StoresTypeOK
        <3>2. CASE r = <<"private", k>>
            <4>1. CASE <<"public", k>> \in cur.rows
                <5>1. blocks[cur.block] /\ k \in Chain[cur.block].writes
                    BY <2>1, <3>2 DEF Prepared
                <5> QED
                    BY <1>0, <2>1, <2>2, <2>3, <3>2, <4>1, <5>1 DEF Pending, StoresTypeOK
            <4>2. CASE <<"public", k>> \notin cur.rows
                <5>1. state[<<"public", k>>] = Version(cur.block, k)
                    BY <2>1, <3>2, <4>2 DEF Prepared
                <5>2. state'[<<"public", k>>] = Version(cur.block, k)
                    BY <1>0, <2>1, <3>2, <5>1, RowFacts DEF StoresTypeOK
                <5>3. state'[<<"private", k>>] = Version(cur.block, k)
                    BY <1>0, <2>1, <3>2, RowFacts DEF StoresTypeOK
                <5> QED
                    BY <2>3, <2>4, <3>2, <5>2, <5>3 DEF Settled
            <4> QED
                BY <4>1, <4>2
        <3>3. CASE r # <<"public", k>> /\ r # <<"private", k>>
            <4>1. /\ state'[<<"public", k>>] = state[<<"public", k>>]
                  /\ state'[<<"private", k>>] = state[<<"private", k>>]
                BY <1>0, <2>1, <3>3, RowFacts DEF StoresTypeOK
            <4> QED
                BY <2>1, <2>2, <3>3, <4>1 DEF Versions, Settled, Pending
        <3> QED
            BY <3>1, <3>2, <3>3
    <2> QED
        BY <2>1, <2>5, <2>6 DEF Versions
<1>8. ASSUME SaveState PROVE Versions'
    <2>1. /\ pc \in {"rows", "redo"} /\ cur.rows = {} /\ UNCHANGED state
          /\ savepoint' = cur.block
        BY <1>8 DEF SaveState
    <2>2. cur.block = savepoint + 1
        BY <2>1 DEF Position
    <2>3. \A k \in PvtKey : Settled(k)
        BY <2>1 DEF Versions, Pending
    <2>4. \A r \in Row : state'[r] <= savepoint' + 1
        BY <1>0, <2>1, <2>2 DEF Versions, StoresTypeOK
    <2> QED
        BY <2>1, <2>3, <2>4 DEF Versions, Settled
<1>9. ASSUME HistoryCommit PROVE Versions'
    BY <1>0, <1>9 DEF Versions, Settled, Pending, HistoryCommit
<1>10. ASSUME CommitDone PROVE Versions'
    BY <1>0, <1>10 DEF Versions, Settled, Pending, CommitDone
<1>11. ASSUME Open PROVE Versions'
    BY <1>0, <1>11 DEF Versions, Settled, Pending, Open
<1>12. ASSUME RecoverState PROVE Versions'
    <2> DEFINE n == next.state
    <2>1. /\ pc = "recover" /\ pc' = "redo" /\ UNCHANGED <<blocks, state, savepoint>>
          /\ n \in 1 .. Len(blocks)
          /\ cur'.rows = UpdateBatch(n, blocks[n], n \in pvtData)
        BY <1>0, <1>12 DEF RecoverState, NoUpdates, CommitterTypeOK, StoresTypeOK
    <2>2. blocks[n] \in BOOLEAN /\ n \in 1 .. N /\ (n \in pvtData) \in BOOLEAN
        BY <1>0, <2>1 DEF StoresTypeOK
    <2>3. blocks[n] => \A k \in Chain[n].writes : <<"public", k>> \in cur'.rows
        BY <2>1 DEF UpdateBatch
    <2>4. n = savepoint + 1
        BY <2>1 DEF Position
    <2> HIDE DEF n
    <2> QED
        BY <2>1, <2>3, <2>4 DEF Versions, Settled, Pending
<1>13. ASSUME RecoverHistory PROVE Versions'
    BY <1>0, <1>13 DEF Versions, Settled, Pending, RecoverHistory
<1>14. ASSUME Recovered PROVE Versions'
    <2>1. pc = "recover" /\ next.state > Len(blocks) /\ UNCHANGED <<state, savepoint>>
        BY <1>14 DEF Recovered
    <2>2. ~(savepoint < Len(blocks))
        BY <1>0, <2>1 DEF Position, StoresTypeOK
    <2>3. \A k \in PvtKey : Settled(k)
        BY <2>2 DEF Versions, Pending
    <2> QED
        BY <2>1, <2>3 DEF Versions, Settled
<1>15. ASSUME NEW n \in missing, GetMissing(n) PROVE Versions'
    BY <1>0, <1>15 DEF Versions, Settled, Pending, GetMissing
<1>16. ASSUME SelectRows PROVE Versions'
    BY <1>0, <1>16 DEF Versions, Settled, Pending, SelectRows
<1>17. ASSUME NEW r \in rec.rows, WriteOldRow(r) PROVE Versions'
    <2>1. /\ rec.pc = "rows" /\ UNCHANGED <<pc, blocks, savepoint, cur>>
          /\ state' = [state EXCEPT ![r] = Version(rec.block, r[2])]
        BY <1>17 DEF WriteOldRow
    <2>2. r \in Row /\ r[1] = "private" /\ rec.block \in 1 .. N
        BY <1>0, <2>1 DEF Reconciling, ReconcilerTypeOK
    <2>3. PICK j \in PvtKey : r = <<"private", j>>
        BY <2>2, RowFacts
    <2>4. Version(rec.block, j) = 0 \/ (/\ Version(rec.block, j) = rec.block
                                       /\ state[<<"public", j>>] = rec.block)
        BY <2>1, <2>3 DEF Reconciling, Version
    <2>5. \A k \in PvtKey : state'[<<"public", k>>] = state[<<"public", k>>]
        BY <1>0, <2>1, <2>3, RowFacts DEF StoresTypeOK
    <2>6. state'[r] = Version(rec.block, j)
        BY <1>0, <2>1, <2>2, <2>3 DEF StoresTypeOK
    <2>7. \A q \in Row : q # r => state'[q] = state[q]
        BY <1>0, <2>1 DEF StoresTypeOK
    <2>8. \A q \in Row : state'[q] <= savepoint + 1
        <3>1. state[<<"public", j>>] <= savepoint + 1
            BY RowFacts DEF Versions
        <3> QED
            BY <1>0, <2>4, <2>6, <2>7, <3>1 DEF Versions, StoresTypeOK
    <2>9. ASSUME NEW k \in PvtKey PROVE (Settled(k) \/ Pending(k))'
        <3>1. CASE k = j
            <4>1. \/ state'[<<"private", k>>] = 0
                  \/ state'[<<"private", k>>] = state'[<<"public", k>>]
                BY <2>3, <2>4, <2>5, <2>6, <3>1
            <4>2. state[<<"public", k>>] \in 0 .. N
                BY <1>0, RowFacts DEF StoresTypeOK
            <4> QED
                BY <2>5, <4>1, <4>2 DEF Settled
        <3>2. CASE k # j
            <4>1. state'[<<"private", k>>] = state[<<"private", k>>]
                BY <2>3, <2>7, <3>2, RowFacts
            <4> QED
                BY <2>1, <2>5, <4>1 DEF Versions, Settled, Pending
        <3> QED
            BY <3>1, <3>2
    <2> QED
        BY <2>1, <2>8, <2>9 DEF Versions
<1>18. ASSUME ReleaseLock PROVE Versions'
    BY <1>0, <1>18 DEF Versions, Settled, Pending, ReleaseLock
<1>19. ASSUME CommitPvtDataOfOldBlocks PROVE Versions'
    BY <1>0, <1>19 DEF Versions, Settled, Pending, CommitPvtDataOfOldBlocks
<1>20. ASSUME ExportState PROVE Versions'
    BY <1>0, <1>20 DEF Versions, Settled, Pending, ExportState
<1>21. ASSUME RenameSnapshot PROVE Versions'
    BY <1>0, <1>21 DEF Versions, Settled, Pending, RenameSnapshot
<1>22. ASSUME SnapshotDone PROVE Versions'
    BY <1>0, <1>22 DEF Versions, Settled, Pending, SnapshotDone
<1>23. ASSUME NEW b \in Request, SubmitSnapshotRequest(b) PROVE Versions'
    BY <1>0, <1>23 DEF Versions, Settled, Pending, SubmitSnapshotRequest
<1>24. ASSUME NEW b \in Request, CancelSnapshotRequest(b) PROVE Versions'
    BY <1>0, <1>24 DEF Versions, Settled, Pending, CancelSnapshotRequest
<1>25. ASSUME Crash PROVE Versions'
    BY <1>0, <1>25 DEF Versions, Settled, Pending, Crash, Stop
<1>26. ASSUME NEW n \in 0 .. Len(blocks), Rollback(n) PROVE Versions'
    <2>1. state' = [r \in Row |-> 0] /\ savepoint' = 0
        BY <1>26 DEF Rollback
    <2> QED
        BY <2>1, RowFacts DEF Versions, Settled
<1>27. CASE UNCHANGED vars
    BY <1>27 DEF Versions, Settled, Pending, vars
<1> QED
    BY <1>1, <1>2, <1>3, <1>4, <1>5, <1>6, <1>7, <1>8, <1>9, <1>10, <1>11, <1>12, <1>13, <1>14, <1>15, <1>16, <1>17, <1>18, <1>19, <1>20, <1>21, <1>22, <1>23, <1>24, <1>25, <1>26, <1>27 DEF Next, Commit, Start, Reconcile, Snapshot

-----------------------------------------------------------------------------
(* The initial state satisfies the inductive invariant.                    *)
LEMMA InitInv == Init => IInv
<1> SUFFICES ASSUME Init PROVE IInv
    OBVIOUS
<1> USE ChainType
<1>1. StoresTypeOK
    BY DEF Init, StoresTypeOK
<1>2. CommitterTypeOK
    <2>1. next \in [state : 1 .. N + 1, history : 1 .. N + 1]
        BY DEF Init
    <2> QED
        BY <2>1, IdleTypes DEF Init, CommitterTypeOK, Pcs
<1>3. ReconcilerTypeOK /\ SnapshotTypeOK
    BY IdleTypes DEF Init, ReconcilerTypeOK, SnapshotTypeOK, NoSnapshot
<1>4. TypeOK
    BY <1>1, <1>2, <1>3, LedgerAssumption DEF Init, TypeOK
<1>5. StoreOrder /\ AheadIsAhead /\ Position /\ Prepared
    BY DEF Init, StoreOrder, AheadIsAhead, Position, Prepared
<1>6. Reconciling
    BY DEF Init, Reconciling, Idle, Opened
<1>7. Versions
    BY RowFacts DEF Init, Versions, Settled
<1> QED
    BY <1>4, <1>5, <1>6, <1>7 DEF IInv

(* At every point of a commit, a recovery, a reconciliation or a snapshot, *)
(* the stores and the goroutines are where the inductive invariant says    *)
(* (commit, recoverDBs, CommitPvtDataOfOldBlocks).                         *)
THEOREM LedgerInvariance == Spec => []IInv
<1>1. ASSUME IInv, [Next]_vars PROVE IInv'
    BY <1>1, TypeStep, CourseStep, PreparedStep, ReconcilingStep, VersionsStep DEF IInv
<1> QED
    BY <1>1, InitInv, PTL DEF Spec

(* Every variable keeps its type; recovery never asks for a block that is  *)
(* not in the block store.                                                 *)
THEOREM TypeCorrect == Spec => []TypeOK
BY LedgerInvariance, PTL DEF IInv

(* Wherever the process stops, no database is ahead of the block store,    *)
(* nor the block store of the private data store: a restart can repair     *)
(* them (recoverDBs), for every chain, any number of crashes, rollbacks.   *)
THEOREM AlwaysRecoverable == Spec => []Recoverable
<1>1. IInv => Recoverable
    BY DEF IInv, StoreOrder, AheadIsAhead, Recoverable, Opened, TypeOK, StoresTypeOK
<1> QED
    BY <1>1, LedgerInvariance, PTL

(* A commit and the reconciler next to each other, interrupted and         *)
(* recovered in any way, never put an older private value over a newer one *)
(* (oldBlockCommit, checkIfPvtWriteIsStale).                               *)
THEOREM PrivateDataNeverGoesBack == Spec => PrivateNeverOlder
<1> DEFINE A == \A k \in PvtKey :
                  LET r == <<"private", k>>
                  IN  state'[r] >= state[r] \/ state'[r] = 0
<1>1. ASSUME IInv, [Next]_vars PROVE [A]_vars
    <2>1. SUFFICES ASSUME Next, NEW k \in PvtKey
                   PROVE  \/ state'[<<"private", k>>] >= state[<<"private", k>>]
                          \/ state'[<<"private", k>>] = 0
        BY <1>1
    <2>2. StoresTypeOK /\ CommitterTypeOK /\ ReconcilerTypeOK /\ <<"private", k>> \in Row
        BY <1>1, RowFacts DEF IInv, TypeOK
    <2>3. CASE state' = state
        BY <2>2, <2>3 DEF StoresTypeOK
    <2>4. ASSUME NEW r \in cur.rows, WriteRow(r)
          PROVE  \/ state'[<<"private", k>>] >= state[<<"private", k>>]
                 \/ state'[<<"private", k>>] = 0
        <3>1. cur.block = savepoint + 1
            BY <1>1, <2>4 DEF IInv, Position, WriteRow
        <3>2. Version(cur.block, r[2]) \in {0, cur.block}
            BY VersionType
        <3>3. state[<<"private", k>>] <= savepoint + 1
            BY <1>1, <2>2 DEF IInv, Versions
        <3>4. state' = [state EXCEPT ![r] = Version(cur.block, r[2])]
            BY <2>4 DEF WriteRow
        <3> QED
            BY <2>2, <3>1, <3>2, <3>3, <3>4 DEF StoresTypeOK
    <2>5. ASSUME NEW r \in rec.rows, WriteOldRow(r)
          PROVE  \/ state'[<<"private", k>>] >= state[<<"private", k>>]
                 \/ state'[<<"private", k>>] = 0
        <3>1. /\ rec.pc = "rows"
              /\ state' = [state EXCEPT ![r] = Version(rec.block, r[2])]
            BY <2>5 DEF WriteOldRow
        <3>2. CASE r = <<"private", k>>
            <4>1. \/ Version(rec.block, k) = 0
                  \/ /\ Version(rec.block, k) = rec.block
                     /\ state[<<"public", k>>] = rec.block
                BY <1>1, <3>1, <3>2 DEF IInv, Reconciling, Version
            <4>2. state[<<"public", k>>] # 0 => state[<<"private", k>>] <= state[<<"public", k>>]
                <5>1. pc \notin {"closed", "recover", "redo", "rows"}
                    BY <1>1, <3>1 DEF IInv, Reconciling, Opened, Idle
                <5> QED
                    BY <1>1, <5>1 DEF IInv, Versions, Pending, Settled
            <4>3. state'[<<"private", k>>] = Version(rec.block, k)
                BY <2>2, <3>1, <3>2 DEF StoresTypeOK
            <4>4. rec.block \in 1 .. N
                BY <1>1, <3>1 DEF IInv, Reconciling
            <4> QED
                BY <2>2, <4>1, <4>2, <4>3, <4>4, ChainType DEF StoresTypeOK
        <3>3. CASE r # <<"private", k>>
            BY <2>2, <3>1, <3>3 DEF StoresTypeOK
        <3> QED
            BY <3>2, <3>3
    <2>6. ASSUME NEW n \in 0 .. Len(blocks), Rollback(n)
          PROVE  state'[<<"private", k>>] = 0
        BY <2>2, <2>6 DEF Rollback
    <2> QED
        BY <2>1, <2>3, <2>4, <2>5, <2>6 DEF Next, Commit, Start, Reconcile, Snapshot, StoreBlock,
           ValidateAndPrepare, LeanPanic, Crash, Stop, CommitPvtData, AddBlock, TxmgrCommit, SaveState,
           HistoryCommit, CommitDone, Open, RecoverState, RecoverHistory, Recovered, GetMissing,
           SelectRows, ReleaseLock, CommitPvtDataOfOldBlocks, ExportState, RenameSnapshot,
           SnapshotDone, SubmitSnapshotRequest, CancelSnapshotRequest, disk
<1> QED
    BY <1>1, LedgerInvariance, PTL DEF Spec, PrivateNeverOlder
-----------------------------------------------------------------------------
(***************************************************************************)
(* What the databases hold. Replay is a recursive function; ReplayDef      *)
(* shows with the lemmas of Recursion that the recursion has a solution.   *)
(***************************************************************************)

(* Where the committing goroutine is tells which blocks the history lacks: *)
(* up to its savepoint none, after it lean ones only, but for the block    *)
(* that is being committed.                                                *)
HistoryCourse ==
    /\ HistoryIsComplete
    /\ Opened =>
         \A n \in 1 .. N :
           /\ histPoint < n /\ n <= Len(blocks)
           /\ ~(pc \in {"state", "rows", "history"} /\ n = Len(blocks))
           => Chain[n].lean
    /\ pc \in {"recover", "redo"} =>
         /\ histPoint < next.history
         /\ \A n \in 1 .. N : histPoint < n /\ n < next.history => Chain[n].lean
    /\ pc \in {"private data", "block", "state", "rows", "history", "done"} =>
         Chain[cur.block].lean = cur.lite
    /\ pc \in {"state", "rows", "history"} => cur.valid = blocks[cur.block]
    /\ pc = "history" => ~cur.lite

(* Where it is tells which block a row of the state is of.                 *)
RowCourse(k) ==
    LET v == state[<<"public", k>>]
    IN  /\ pc \in {"closed", "recover"} =>
             \/ v = Replay[savepoint][k]
             \/ savepoint < Len(blocks) /\ v = Replay[savepoint + 1][k]
        /\ pc \in {"rows", "redo"} =>
             \/ v = Replay[savepoint + 1][k]
             \/ <<"public", k>> \in cur.rows /\ v = Replay[savepoint][k]
        /\ pc \notin {"closed", "recover", "rows", "redo"} => v = Replay[savepoint][k]

FlagCourse ==
    /\ \A n \in DOMAIN blocks : blocks[n] = Valid(n)
    /\ pc \in {"private data", "block"} => cur.valid = Valid(cur.block)

(* A snapshot is under way only while the committer waits.                 *)
SnapshotCourse ==
    /\ snap # NoSnapshot => pc \in {"idle", "blocked"}
    /\ snap.pc = "rename" => snap.state = Replay[snap.height]
    /\ SnapshotIsState

ContentInv == HistoryCourse /\ FlagCourse /\ (\A k \in Key : RowCourse(k)) /\ SnapshotCourse
-----------------------------------------------------------------------------
(* The state after one more block, as Replay computes it.                  *)
ReplayOf(prev, n) ==
    IF \A rd \in Chain[n].reads : prev[rd[1]] = rd[2]
    THEN [k \in Key |-> IF k \in Chain[n].writes THEN Version(n, k) ELSE prev[k]]
    ELSE prev

(* The recursion that defines Replay has a solution: Replay starts with    *)
(* the empty state and takes the blocks one at a time.                     *)
LEMMA ReplayDef ==
    /\ Replay \in [0 .. N -> [Key -> Nat]]
    /\ Replay[0] = [k \in Key |-> 0]
    /\ \A n \in 1 .. N : Replay[n] = ReplayOf(Replay[n - 1], n)
<1> DEFINE S == [Key -> Nat]
           c == [k \in Key |-> 0]
           G == [x \in S \X (1 .. N) |-> ReplayOf(x[1], x[2])]
           Def(f) == f = [n \in 0 .. N |-> IF n = 0 THEN c ELSE ReplayOf(f[n - 1], n)]
<1>1. G \in [S \X (1 .. N) -> S]
  <2> SUFFICES ASSUME NEW s \in S, NEW n \in 1 .. N PROVE ReplayOf(s, n) \in S
    OBVIOUS
  <2>1. \A k \in Key : Version(n, k) \in Nat
    BY ChainType, VersionType
  <2> QED  BY <2>1 DEF ReplayOf
<1>2. PICK f : f \in Recursive(S, c, G, N)
  <2>1. c \in S
    OBVIOUS
  <2> HIDE DEF S, c, G
  <2> QED  BY <1>1, <2>1, ChainType, RecursionExists
<1>3. f \in [0 .. N -> S] /\ f[0] = c /\ \A n \in 1 .. N : f[n] = G[<<f[n - 1], n>>]
  BY <1>2 DEF Recursive
<1>4. \A n \in 1 .. N : f[n] = ReplayOf(f[n - 1], n)
  <2> SUFFICES ASSUME NEW n \in 1 .. N PROVE f[n] = ReplayOf(f[n - 1], n)
    OBVIOUS
  <2>1. n - 1 \in 0 .. N /\ N \in Nat
    BY ChainType
  <2>2. f[n - 1] \in S
    BY <1>3, <2>1
  <2>3. G[<<f[n - 1], n>>] = ReplayOf(f[n - 1], n)
    BY <2>2
  <2> QED  BY <1>3, <2>3
<1>5. Def(f)
  <2> HIDE DEF S, c, G
  <2>1. \A n \in 0 .. N : f[n] = IF n = 0 THEN c ELSE ReplayOf(f[n - 1], n)
    BY <1>3, <1>4, ChainType
  <2> QED  BY <1>3, <2>1
<1>6. Replay = CHOOSE g : Def(g)
  BY DEF Replay, ReplayOf
<1>7. Def(Replay)
  <2> HIDE DEF Def
  <2> QED  BY <1>5, <1>6
<1>8. /\ Replay[0] = c
      /\ \A n \in 1 .. N : Replay[n] = ReplayOf(Replay[n - 1], n)
      /\ DOMAIN Replay = 0 .. N
  <2> HIDE DEF c
  <2> QED  BY <1>7, ChainType
<1>9. \A n \in 0 .. N : Replay[n] \in S
  <2> DEFINE T == {n \in Nat : n <= N => Replay[n] \in S}
  <2>1. 0 \in T
    BY <1>8
  <2>2. ASSUME NEW n \in Nat, n \in T PROVE n + 1 \in T
    <3> SUFFICES ASSUME n + 1 <= N PROVE Replay[n + 1] \in S
      OBVIOUS
    <3>1. n + 1 \in 1 .. N /\ (n + 1) - 1 = n /\ Replay[n] \in S
      BY <2>2, ChainType
    <3>2. ReplayOf(Replay[n], n + 1) \in S
      <4>1. G[<<Replay[n], n + 1>>] \in S
        <5> HIDE DEF S, G
        <5> QED  BY <1>1, <3>1
      <4> QED  BY <3>1, <4>1
    <3> HIDE DEF S
    <3> QED  BY <1>8, <3>1, <3>2
  <2>3. Nat \subseteq T
    <3> HIDE DEF T
    <3> QED  BY <2>1, <2>2, SetInduction
  <2> QED  BY <2>3, ChainType
<1>10. Replay \in [0 .. N -> S]
  <2>1. Replay = [n \in 0 .. N |-> Replay[n]]
    BY <1>7
  <2> HIDE DEF S, Def
  <2> QED  BY <1>9, <2>1
<1> QED  BY <1>8, <1>10

(* What one block makes of the state, by whether it is valid.              *)
LEMMA ReplayNext ==
    ASSUME NEW n \in 1 .. N
    PROVE  /\ Valid(n) \in BOOLEAN
           /\ \A k \in Key :
                Replay[n][k] = IF Valid(n) /\ k \in Chain[n].writes THEN Version(n, k)
                               ELSE Replay[n - 1][k]
<1>1. Valid(n) \in BOOLEAN
  BY DEF Valid
<1>2. Replay[n] = ReplayOf(Replay[n - 1], n)
  BY ReplayDef
<1> QED  BY <1>1, <1>2 DEF ReplayOf, Valid

(* The history is kept complete.                                           *)
LEMMA HistoryStep ==
    ASSUME IInv, HistoryCourse, [Next]_vars
    PROVE  HistoryCourse'
<1> USE ChainType DEF disk, snapVars, bounds
<1>0. StoresTypeOK /\ CommitterTypeOK /\ StoreOrder /\ Position /\ Prepared
  BY DEF IInv, TypeOK
<1>1. ASSUME StoreBlock PROVE HistoryCourse'
  BY <1>0, <1>1 DEF HistoryCourse, HistoryIsComplete, Opened, StoreBlock
<1>2. ASSUME ValidateAndPrepare PROVE HistoryCourse'
  <2>1. cur'.block = cur.block /\ cur'.lite = cur.lite
    BY <1>0, <1>2 DEF ValidateAndPrepare, CommitterTypeOK
  <2> QED  BY <1>0, <1>2, <2>1 DEF HistoryCourse, HistoryIsComplete, Opened, ValidateAndPrepare
<1>3. ASSUME LeanPanic \/ Crash PROVE HistoryCourse'
  BY <1>0, <1>3 DEF HistoryCourse, HistoryIsComplete, Opened, LeanPanic, Crash, Stop
<1>4. ASSUME CommitPvtData PROVE HistoryCourse'
  BY <1>0, <1>4 DEF HistoryCourse, HistoryIsComplete, Opened, CommitPvtData
<1>5. ASSUME AddBlock PROVE HistoryCourse'
  <2>1. /\ pc = "block" /\ pc' = "state" /\ blocks' = Append(blocks, cur.valid)
        /\ UNCHANGED <<history, histPoint, cur>>
    BY <1>5 DEF AddBlock
  <2>2. cur.block = Len(blocks) + 1 /\ cur.block \in 1 .. N
    BY <1>0, <2>1 DEF Position, CommitterTypeOK, StoresTypeOK
  <2>3. /\ Len(blocks') = Len(blocks) + 1 /\ DOMAIN blocks' = 1 .. Len(blocks) + 1
        /\ DOMAIN blocks = 1 .. Len(blocks)
        /\ blocks'[cur.block] = cur.valid
        /\ \A n \in 1 .. Len(blocks) : blocks'[n] = blocks[n]
    BY <1>0, <2>1, <2>2 DEF StoresTypeOK, CommitterTypeOK
  <2>4. HistoryIsComplete'
    <3>1. histPoint <= Len(blocks) /\ histPoint \in Nat /\ Len(blocks) \in Nat
      BY <1>0 DEF StoreOrder, StoresTypeOK
    <3> QED  BY <2>1, <2>3, <3>1 DEF HistoryCourse, HistoryIsComplete
  <2>5. \A n \in 1 .. N : histPoint < n /\ n <= Len(blocks) => Chain[n].lean
    BY <2>1 DEF HistoryCourse, Opened
  <2> QED  BY <1>0, <2>1, <2>2, <2>3, <2>4, <2>5 DEF HistoryCourse, StoresTypeOK
<1>6. ASSUME TxmgrCommit PROVE HistoryCourse'
  BY <1>0, <1>6 DEF HistoryCourse, HistoryIsComplete, Opened, TxmgrCommit
<1>7. ASSUME NEW r \in cur.rows, WriteRow(r) PROVE HistoryCourse'
  <2>1. cur'.block = cur.block /\ cur'.lite = cur.lite /\ cur'.valid = cur.valid
    BY <1>0, <1>7 DEF WriteRow, CommitterTypeOK
  <2> QED  BY <1>0, <1>7, <2>1 DEF HistoryCourse, HistoryIsComplete, Opened, WriteRow
<1>8. ASSUME SaveState PROVE HistoryCourse'
  <2>1. CASE pc = "redo"
    <3>1. next'.history = next.history /\ pc' = "recover" /\ UNCHANGED <<blocks, history, histPoint>>
      BY <1>0, <1>8, <2>1 DEF SaveState, CommitterTypeOK
    <3> QED  BY <2>1, <3>1 DEF HistoryCourse, HistoryIsComplete, Opened
  <2>2. CASE pc = "rows"
    <3>1. /\ pc' = IF cur.lite THEN "done" ELSE "history"
          /\ UNCHANGED <<blocks, history, histPoint, cur>>
      BY <1>8, <2>2 DEF SaveState
    <3>2. cur.block = Len(blocks) /\ cur.lite = Chain[cur.block].lean
      BY <2>2, <1>0 DEF Position, HistoryCourse
    <3> QED  BY <2>2, <3>1, <3>2 DEF HistoryCourse, HistoryIsComplete, Opened
  <2> QED  BY <1>8, <2>1, <2>2 DEF SaveState
<1>9. ASSUME HistoryCommit PROVE HistoryCourse'
  <2>1. /\ pc = "history" /\ pc' = "done" /\ UNCHANGED <<blocks, cur>>
        /\ history' = (IF cur.valid THEN history \cup {cur.block} ELSE history)
        /\ histPoint' = cur.block
    BY <1>9 DEF HistoryCommit, HistoryBatch
  <2>2. /\ cur.block = Len(blocks) /\ cur.block \in 1 .. N /\ ~Chain[cur.block].lean
        /\ cur.valid = blocks[cur.block] /\ cur.block \in DOMAIN blocks
    BY <1>0, <2>1 DEF Position, HistoryCourse, StoresTypeOK
  <2>3. \A n \in 1 .. N : histPoint < n /\ n < cur.block => Chain[n].lean
    BY <1>0, <2>1, <2>2 DEF HistoryCourse, Opened, StoresTypeOK
  <2>4. HistoryIsComplete'
    <3>1. histPoint \in 0 .. cur.block
      BY <1>0, <2>2 DEF StoreOrder, StoresTypeOK
    <3>2. \A n : n \in history <=> /\ n \in 1 .. histPoint /\ n \in DOMAIN blocks
                                   /\ blocks[n] /\ ~Chain[n].lean
      BY DEF HistoryCourse, HistoryIsComplete
    <3>3. \A n : n \in history' <=> /\ n \in 1 .. cur.block /\ n \in DOMAIN blocks
                                    /\ blocks[n] /\ ~Chain[n].lean
      BY <2>1, <2>2, <2>3, <3>1, <3>2
    <3> QED  BY <2>1, <3>3 DEF HistoryIsComplete
  <2> QED  BY <2>1, <2>2, <2>4 DEF HistoryCourse
<1>10. ASSUME CommitDone PROVE HistoryCourse'
  BY <1>0, <1>10 DEF HistoryCourse, HistoryIsComplete, Opened, CommitDone
<1>11. ASSUME Open PROVE HistoryCourse'
  <2>1. /\ pc' = "recover" /\ UNCHANGED <<blocks, history, histPoint>>
        /\ next'.history = histPoint + 1
    BY <1>11 DEF Open
  <2>2. histPoint < next'.history /\ \A n \in 1 .. N : ~(histPoint < n /\ n < next'.history)
    BY <1>0, <2>1 DEF StoresTypeOK
  <2>3. HistoryIsComplete'
    BY <2>1 DEF HistoryCourse, HistoryIsComplete
  <2> QED  BY <2>1, <2>2, <2>3 DEF HistoryCourse, Opened
<1>12. ASSUME RecoverState PROVE HistoryCourse'
  BY <1>0, <1>12 DEF HistoryCourse, HistoryIsComplete, Opened, RecoverState
<1>13. ASSUME RecoverHistory PROVE HistoryCourse'
  <2> DEFINE n == next.history
  <2>1. /\ pc = "recover" /\ n \in 1 .. Len(blocks) /\ UNCHANGED <<pc, blocks, cur>>
        /\ next'.history = n + 1
    BY <1>0, <1>13 DEF RecoverHistory, CommitterTypeOK, StoresTypeOK
  <2>2. /\ histPoint < n /\ n \in 1 .. N /\ n \in DOMAIN blocks
        /\ \A m \in 1 .. N : histPoint < m /\ m < n => Chain[m].lean
    BY <1>0, <2>1 DEF HistoryCourse, StoresTypeOK
  <2>3. CASE Chain[n].lean
    <3>1. UNCHANGED <<history, histPoint>>
      BY <1>13, <2>3 DEF RecoverHistory
    <3> HIDE DEF n
    <3> QED  BY <1>0, <2>1, <2>2, <2>3, <3>1 DEF HistoryCourse, HistoryIsComplete, Opened, StoresTypeOK
  <2>4. CASE ~Chain[n].lean
    <3>1. history' = (IF blocks[n] THEN history \cup {n} ELSE history) /\ histPoint' = n
      BY <1>13, <2>4 DEF RecoverHistory, HistoryBatch
    <3> HIDE DEF n
    <3>2. HistoryIsComplete'
      <4>1. \A m : m \in history <=> /\ m \in 1 .. histPoint /\ m \in DOMAIN blocks
                                     /\ blocks[m] /\ ~Chain[m].lean
        BY DEF HistoryCourse, HistoryIsComplete
      <4>2. \A m : m \in history' <=> /\ m \in 1 .. n /\ m \in DOMAIN blocks
                                      /\ blocks[m] /\ ~Chain[m].lean
        BY <1>0, <2>2, <2>4, <3>1, <4>1 DEF StoresTypeOK
      <4> QED  BY <2>1, <3>1, <4>2 DEF HistoryIsComplete
    <3> QED  BY <2>1, <2>2, <3>1, <3>2 DEF HistoryCourse, Opened
  <2> QED  BY <2>3, <2>4
<1>14. ASSUME Recovered PROVE HistoryCourse'
  <2>1. /\ pc = "recover" /\ pc' = "idle" /\ UNCHANGED <<blocks, history, histPoint>>
        /\ next.history > Len(blocks)
    BY <1>14 DEF Recovered
  <2> QED  BY <1>0, <2>1 DEF HistoryCourse, HistoryIsComplete, Opened, CommitterTypeOK, StoresTypeOK
<1>15. ASSUME Reconcile PROVE HistoryCourse'
  <2>1. UNCHANGED <<pc, blocks, history, histPoint, cur, next>>
    BY <1>15 DEF Reconcile, GetMissing, SelectRows, WriteOldRow, ReleaseLock, CommitPvtDataOfOldBlocks
  <2> QED  BY <2>1 DEF HistoryCourse, HistoryIsComplete, Opened
<1>16. ASSUME ExportState \/ RenameSnapshot PROVE HistoryCourse'
  <2>1. UNCHANGED <<pc, blocks, history, histPoint, cur, next>>
    BY <1>16 DEF ExportState, RenameSnapshot
  <2> QED  BY <2>1 DEF HistoryCourse, HistoryIsComplete, Opened
<1>17. ASSUME SnapshotDone PROVE HistoryCourse'
  BY <1>17 DEF HistoryCourse, HistoryIsComplete, Opened, SnapshotDone
<1>18. ASSUME NEW b \in Request, SubmitSnapshotRequest(b) \/ CancelSnapshotRequest(b)
       PROVE  HistoryCourse'
  <2>1. UNCHANGED <<pc, blocks, history, histPoint, cur, next>>
    BY <1>18 DEF SubmitSnapshotRequest, CancelSnapshotRequest
  <2> QED  BY <2>1 DEF HistoryCourse, HistoryIsComplete, Opened
<1>19. ASSUME NEW n \in 0 .. Len(blocks), Rollback(n) PROVE HistoryCourse'
  BY <1>19 DEF HistoryCourse, HistoryIsComplete, Opened, Rollback
<1>20. CASE UNCHANGED vars
  BY <1>20 DEF HistoryCourse, HistoryIsComplete, Opened, vars
<1> QED
  BY <1>1, <1>2, <1>3, <1>4, <1>5, <1>6, <1>7, <1>8, <1>9, <1>10, <1>11, <1>12, <1>13, <1>14, <1>15,
     <1>16, <1>17, <1>18, <1>19, <1>20 DEF Next, Commit, Start, Snapshot

(* While rows are written, the block that is applied is in the block store *)
(* and the next one of the state database.                                 *)
LEMMA InRows ==
    ASSUME StoresTypeOK, CommitterTypeOK, Position, pc \in {"rows", "redo"}
    PROVE  /\ cur.block = savepoint + 1 /\ savepoint < Len(blocks)
           /\ cur.block \in 1 .. N /\ cur.block \in DOMAIN blocks
<1> USE ChainType DEF StoresTypeOK, CommitterTypeOK, Position
<1>1. CASE pc = "rows"
  BY <1>1
<1>2. CASE pc = "redo"
  BY <1>2
<1> QED  BY <1>1, <1>2

(* The flags are kept those of a validation of the chain.                  *)
LEMMA FlagStep ==
    ASSUME IInv, FlagCourse, \A k \in Key : RowCourse(k), [Next]_vars
    PROVE  FlagCourse'
<1> USE ChainType DEF disk, snapVars, bounds
<1>0. StoresTypeOK /\ CommitterTypeOK /\ Position
  BY DEF IInv, TypeOK
<1>1. ASSUME StoreBlock PROVE FlagCourse'
  BY <1>1 DEF FlagCourse, StoreBlock
<1>2. ASSUME ValidateAndPrepare PROVE FlagCourse'
  <2>1. /\ pc = "validate" /\ UNCHANGED blocks
        /\ cur'.valid = NoConflict(cur.block) /\ cur'.block = cur.block
    BY <1>0, <1>2 DEF ValidateAndPrepare, CommitterTypeOK
  <2>2. savepoint = cur.block - 1 /\ cur.block \in 1 .. N
    BY <1>0, <2>1 DEF Position, CommitterTypeOK, StoresTypeOK
  <2>3. \A rd \in Chain[cur.block].reads : rd[1] \in Key
    <3>1. Chain[cur.block] \in [lean : BOOLEAN, reads : SUBSET (Key \X Nat),
                                writes : SUBSET Key, deletes : SUBSET Key]
      BY <2>2, LedgerAssumption, ElementInS DEF N
    <3> QED  BY <3>1
  <2>4. \A k \in Key : state[<<"public", k>>] = Replay[cur.block - 1][k]
    BY <2>1, <2>2 DEF RowCourse
  <2>5. NoConflict(cur.block) = Valid(cur.block)
    BY <2>3, <2>4 DEF NoConflict, Valid
  <2> QED  BY <2>1, <2>5 DEF FlagCourse
<1>3. ASSUME LeanPanic \/ Crash PROVE FlagCourse'
  BY <1>3 DEF FlagCourse, LeanPanic, Crash, Stop
<1>4. ASSUME CommitPvtData PROVE FlagCourse'
  BY <1>4 DEF FlagCourse, CommitPvtData
<1>5. ASSUME AddBlock PROVE FlagCourse'
  <2>1. pc = "block" /\ pc' = "state" /\ blocks' = Append(blocks, cur.valid)
    BY <1>5 DEF AddBlock
  <2>2. cur.block = Len(blocks) + 1 /\ cur.valid = Valid(cur.block)
    BY <2>1, <1>0 DEF Position, FlagCourse
  <2>3. /\ DOMAIN blocks' = 1 .. Len(blocks) + 1 /\ DOMAIN blocks = 1 .. Len(blocks)
        /\ blocks'[cur.block] = cur.valid
        /\ \A n \in 1 .. Len(blocks) : blocks'[n] = blocks[n]
    BY <1>0, <2>1, <2>2 DEF StoresTypeOK, CommitterTypeOK
  <2>4. Len(blocks) \in Nat
    BY <1>0 DEF StoresTypeOK
  <2> QED  BY <2>1, <2>2, <2>3, <2>4 DEF FlagCourse
<1>6. ASSUME TxmgrCommit \/ SaveState \/ HistoryCommit \/ CommitDone PROVE FlagCourse'
  <2>1. UNCHANGED blocks /\ pc' \notin {"private data", "block"}
    BY <1>6 DEF TxmgrCommit, SaveState, HistoryCommit, CommitDone
  <2> QED  BY <2>1 DEF FlagCourse
<1>7. ASSUME NEW r \in cur.rows, WriteRow(r) PROVE FlagCourse'
  BY <1>7 DEF FlagCourse, WriteRow
<1>8. ASSUME Start PROVE FlagCourse'
  <2>1. UNCHANGED blocks /\ pc' \notin {"private data", "block"}
    BY <1>8 DEF Start, Open, RecoverState, RecoverHistory, Recovered
  <2> QED  BY <2>1 DEF FlagCourse
<1>9. ASSUME Reconcile PROVE FlagCourse'
  <2>1. UNCHANGED <<blocks, pc, cur>>
    BY <1>9 DEF Reconcile, GetMissing, SelectRows, WriteOldRow, ReleaseLock, CommitPvtDataOfOldBlocks
  <2> QED  BY <2>1 DEF FlagCourse
<1>10. ASSUME Snapshot PROVE FlagCourse'
  BY <1>10 DEF FlagCourse, Snapshot, ExportState, RenameSnapshot, SnapshotDone
<1>11. ASSUME NEW b \in Request, SubmitSnapshotRequest(b) \/ CancelSnapshotRequest(b)
       PROVE  FlagCourse'
  <2>1. UNCHANGED <<blocks, pc, cur>>
    BY <1>11 DEF SubmitSnapshotRequest, CancelSnapshotRequest
  <2> QED  BY <2>1 DEF FlagCourse
<1>12. ASSUME NEW n \in 0 .. Len(blocks), Rollback(n) PROVE FlagCourse'
  <2>1. pc = "closed" /\ UNCHANGED pc /\ blocks' = SubSeq(blocks, 1, n)
    BY <1>12 DEF Rollback
  <2>2. \A m \in DOMAIN blocks' : m \in DOMAIN blocks /\ blocks'[m] = blocks[m]
    BY <1>0, <2>1 DEF StoresTypeOK
  <2> QED  BY <2>1, <2>2 DEF FlagCourse
<1>13. CASE UNCHANGED vars
  BY <1>13 DEF FlagCourse, vars
<1> QED
  BY <1>1, <1>2, <1>3, <1>4, <1>5, <1>6, <1>7, <1>8, <1>9, <1>10, <1>11, <1>12, <1>13
     DEF Next, Commit

(* Every row stays that of the block the course of the commit tells.       *)
LEMMA RowStep ==
    ASSUME IInv, FlagCourse, NEW k \in Key, RowCourse(k), [Next]_vars
    PROVE  RowCourse(k)'
<1> USE ChainType DEF disk, snapVars, bounds
<1>0. /\ StoresTypeOK /\ CommitterTypeOK /\ StoreOrder /\ Position /\ Prepared /\ Reconciling
      /\ ReconcilerTypeOK /\ <<"public", k>> \in Row
  BY DEF IInv, TypeOK, Row
<1>1. ASSUME UNCHANGED <<state, savepoint, blocks>>,
             pc \notin {"closed", "recover", "rows", "redo"},
             pc' \notin {"rows", "redo", "recover"}
      PROVE  RowCourse(k)'
  BY <1>1 DEF RowCourse
<1>2. ASSUME StoreBlock \/ ValidateAndPrepare \/ LeanPanic \/ CommitPvtData
      PROVE  RowCourse(k)'
  <2>1. /\ UNCHANGED <<state, savepoint, blocks>>
        /\ pc \notin {"closed", "recover", "rows", "redo"} /\ pc' \notin {"rows", "redo", "recover"}
    BY <1>2 DEF StoreBlock, ValidateAndPrepare, LeanPanic, Stop, CommitPvtData
  <2> QED  BY <1>1, <2>1
<1>3. ASSUME AddBlock PROVE RowCourse(k)'
  BY <1>3 DEF AddBlock, RowCourse
<1>4. ASSUME TxmgrCommit PROVE RowCourse(k)'
  <2>1. /\ pc = "state" /\ pc' = "rows" /\ UNCHANGED <<state, savepoint, blocks, cur>>
    BY <1>4 DEF TxmgrCommit
  <2>2. /\ cur.rows = UpdateBatch(cur.block, blocks[cur.block], cur.got)
        /\ cur.block = savepoint + 1 /\ cur.block \in 1 .. N /\ cur.block \in DOMAIN blocks
    BY <1>0, <2>1 DEF Prepared, Position, CommitterTypeOK, StoresTypeOK
  <2>5. cur.block - 1 = savepoint
    BY <1>0, <2>2 DEF StoresTypeOK
  <2>3. blocks[cur.block] = Valid(cur.block)
    BY <2>2 DEF FlagCourse
  <2>4. <<"public", k>> \notin cur.rows => Replay[savepoint + 1][k] = Replay[savepoint][k]
    BY <2>2, <2>3, <2>5, ReplayNext DEF UpdateBatch
  <2> QED  BY <2>1, <2>4 DEF RowCourse
<1>5. ASSUME NEW r \in cur.rows, WriteRow(r) PROVE RowCourse(k)'
  <2>1. /\ pc \in {"rows", "redo"} /\ UNCHANGED <<pc, blocks, savepoint>>
        /\ state' = [state EXCEPT ![r] = Version(cur.block, r[2])]
        /\ cur'.rows = cur.rows \ {r}
    BY <1>0, <1>5 DEF WriteRow, CommitterTypeOK
  <2>2. CASE r = <<"public", k>>
    <3>1. /\ cur.block = savepoint + 1 /\ cur.block \in 1 .. N /\ cur.block \in DOMAIN blocks
      BY <1>0, <2>1, InRows
    <3>2. blocks[cur.block] /\ k \in Chain[cur.block].writes
      BY <1>0, <2>1, <2>2 DEF Prepared
    <3>3. Replay[savepoint + 1][k] = Version(cur.block, k)
      BY <3>1, <3>2, ReplayNext DEF FlagCourse
    <3>4. state'[<<"public", k>>] = Version(cur.block, k)
      BY <1>0, <2>1, <2>2 DEF StoresTypeOK
    <3> QED  BY <2>1, <3>3, <3>4 DEF RowCourse
  <2>3. CASE r # <<"public", k>>
    <3>1. state'[<<"public", k>>] = state[<<"public", k>>]
      BY <1>0, <2>1, <2>3 DEF StoresTypeOK
    <3> QED  BY <2>1, <2>3, <3>1 DEF RowCourse
  <2> QED  BY <2>2, <2>3
<1>6. ASSUME SaveState PROVE RowCourse(k)'
  <2>1. /\ pc \in {"rows", "redo"} /\ cur.rows = {} /\ UNCHANGED <<state, blocks>>
        /\ savepoint' = cur.block /\ pc' \in {"recover", "done", "history"}
    BY <1>6 DEF SaveState
  <2>2. savepoint' = savepoint + 1
    BY <1>0, <2>1 DEF Position
  <2>3. state[<<"public", k>>] = Replay[savepoint + 1][k]
    BY <2>1 DEF RowCourse
  <2> QED  BY <2>1, <2>2, <2>3 DEF RowCourse
<1>7. ASSUME HistoryCommit \/ CommitDone PROVE RowCourse(k)'
  BY <1>7 DEF HistoryCommit, CommitDone, RowCourse
<1>8. ASSUME Open PROVE RowCourse(k)'
  BY <1>8 DEF Open, RowCourse
<1>9. ASSUME RecoverState PROVE RowCourse(k)'
  <2> DEFINE n == next.state
  <2>1. /\ pc = "recover" /\ pc' = "redo" /\ UNCHANGED <<blocks, state, savepoint>>
        /\ n \in 1 .. Len(blocks) /\ n = savepoint + 1
        /\ cur'.rows = UpdateBatch(n, blocks[n], n \in pvtData)
    BY <1>0, <1>9 DEF RecoverState, NoUpdates, CommitterTypeOK, StoresTypeOK, Position
  <2> HIDE DEF n
  <2>2. n \in 1 .. N /\ n \in DOMAIN blocks /\ n - 1 = savepoint
    BY <1>0, <2>1 DEF StoresTypeOK
  <2>3. blocks[n] = Valid(n)
    BY <2>2 DEF FlagCourse
  <2>4. <<"public", k>> \notin cur'.rows => Replay[savepoint + 1][k] = Replay[savepoint][k]
    BY <2>1, <2>2, <2>3, ReplayNext DEF UpdateBatch
  <2> QED  BY <2>1, <2>4 DEF RowCourse
<1>10. ASSUME RecoverHistory PROVE RowCourse(k)'
  BY <1>10 DEF RecoverHistory, RowCourse
<1>11. ASSUME Recovered PROVE RowCourse(k)'
  <2>1. pc = "recover" /\ pc' = "idle" /\ next.state > Len(blocks) /\ UNCHANGED <<state, savepoint>>
    BY <1>11 DEF Recovered
  <2>2. ~(savepoint < Len(blocks))
    BY <1>0, <2>1 DEF Position, StoresTypeOK
  <2> QED  BY <2>1, <2>2 DEF RowCourse
<1>12. ASSUME Reconcile PROVE RowCourse(k)'
  <2>1. UNCHANGED <<pc, cur, blocks, savepoint>>
    BY <1>12 DEF Reconcile, GetMissing, SelectRows, WriteOldRow, ReleaseLock, CommitPvtDataOfOldBlocks
  <2>2. state'[<<"public", k>>] = state[<<"public", k>>]
    <3>1. CASE UNCHANGED state
      BY <3>1
    <3>2. ASSUME NEW r \in rec.rows, WriteOldRow(r)
          PROVE  state'[<<"public", k>>] = state[<<"public", k>>]
      <4>1. r[1] = "private" /\ state' = [state EXCEPT ![r] = Version(rec.block, r[2])]
        BY <1>0, <3>2 DEF Reconciling, WriteOldRow
      <4>2. r # <<"public", k>>
        BY <4>1
      <4> QED  BY <1>0, <4>1, <4>2 DEF StoresTypeOK
    <3> QED  BY <1>12, <3>1, <3>2 DEF Reconcile, GetMissing, SelectRows, ReleaseLock,
                                      CommitPvtDataOfOldBlocks
  <2> QED  BY <2>1, <2>2 DEF RowCourse
<1>13. ASSUME Snapshot PROVE RowCourse(k)'
  BY <1>13 DEF Snapshot, ExportState, RenameSnapshot, SnapshotDone, RowCourse
<1>14. ASSUME NEW b \in Request, SubmitSnapshotRequest(b) \/ CancelSnapshotRequest(b)
       PROVE  RowCourse(k)'
  <2>1. UNCHANGED <<pc, cur, blocks, savepoint, state>>
    BY <1>14 DEF SubmitSnapshotRequest, CancelSnapshotRequest
  <2> QED  BY <2>1 DEF RowCourse
<1>15. ASSUME Crash PROVE RowCourse(k)'
  <2>1. pc' = "closed" /\ UNCHANGED <<blocks, savepoint, state>>
    BY <1>15 DEF Crash, Stop
  <2>2. pc \in {"rows", "redo"} => savepoint < Len(blocks)
    BY <1>0, InRows
  <2> QED  BY <2>1, <2>2 DEF RowCourse
<1>16. ASSUME NEW n \in 0 .. Len(blocks), Rollback(n) PROVE RowCourse(k)'
  <2>1. pc' = "closed" /\ state' = [r \in Row |-> 0] /\ savepoint' = 0
    BY <1>16 DEF Rollback
  <2>2. Replay[0][k] = 0
    BY ReplayDef
  <2> QED  BY <1>0, <2>1, <2>2 DEF RowCourse
<1>17. CASE UNCHANGED vars
  BY <1>17 DEF RowCourse, vars
<1> QED
  BY <1>2, <1>3, <1>4, <1>5, <1>6, <1>7, <1>8, <1>9, <1>10, <1>11, <1>12, <1>13, <1>14, <1>15, <1>16,
     <1>17 DEF Next, Commit, Start

(* What is exported is the state of one block.                             *)
LEMMA SnapshotStep ==
    ASSUME IInv, \A k \in Key : RowCourse(k), SnapshotCourse, [Next]_vars
    PROVE  SnapshotCourse'
<1> USE DEF disk, snapVars, bounds
<1>0. StoresTypeOK /\ SnapshotTypeOK /\ Position
  BY DEF IInv, TypeOK
<1>1. ASSUME StoreBlock PROVE SnapshotCourse'
  <2>1. UNCHANGED <<snap, snapshots>> /\ pc' = IF snap = NoSnapshot THEN "validate" ELSE "blocked"
    BY <1>1 DEF StoreBlock
  <2> QED  BY <2>1 DEF SnapshotCourse, SnapshotIsState
<1>2. ASSUME \/ ValidateAndPrepare \/ CommitPvtData \/ AddBlock \/ TxmgrCommit \/ SaveState
             \/ HistoryCommit \/ Open \/ RecoverState \/ RecoverHistory
      PROVE  SnapshotCourse'
  <2>1. UNCHANGED <<snap, snapshots>> /\ pc \notin {"idle", "blocked"}
    BY <1>2 DEF ValidateAndPrepare, CommitPvtData, AddBlock, TxmgrCommit, SaveState, HistoryCommit,
                Open, RecoverState, RecoverHistory
  <2> QED  BY <2>1 DEF SnapshotCourse, SnapshotIsState
<1>3. ASSUME NEW r \in cur.rows, WriteRow(r) PROVE SnapshotCourse'
  BY <1>3 DEF SnapshotCourse, SnapshotIsState, WriteRow
<1>4. ASSUME LeanPanic \/ Crash PROVE SnapshotCourse'
  <2>1. snap' = NoSnapshot /\ UNCHANGED snapshots
    BY <1>4 DEF LeanPanic, Crash, Stop
  <2> QED  BY <2>1 DEF SnapshotCourse, SnapshotIsState, NoSnapshot
<1>5. ASSUME CommitDone \/ Recovered PROVE SnapshotCourse'
  <2>1. /\ pc' = "idle" /\ UNCHANGED snapshots
        /\ \/ snap' = NoSnapshot
           \/ \E b : snap' = [pc |-> "export", block |-> b]
    BY <1>5 DEF CommitDone, Recovered
  <2>2. snap'.pc # "rename"
    BY <2>1 DEF NoSnapshot
  <2> QED  BY <2>1, <2>2 DEF SnapshotCourse, SnapshotIsState
<1>6. ASSUME Reconcile PROVE SnapshotCourse'
  <2>1. UNCHANGED <<pc, snap, snapshots>>
    BY <1>6 DEF Reconcile, GetMissing, SelectRows, WriteOldRow, ReleaseLock, CommitPvtDataOfOldBlocks
  <2> QED  BY <2>1 DEF SnapshotCourse, SnapshotIsState
<1>7. ASSUME ExportState PROVE SnapshotCourse'
  <2>1. snap.pc = "export" /\ UNCHANGED <<pc, snapshots>>
    BY <1>7 DEF ExportState
  <2>2. pc \in {"idle", "blocked"}
    BY <2>1 DEF SnapshotCourse, NoSnapshot
  <2>3. savepoint = Len(blocks) /\ Len(blocks) \in 0 .. N
    BY <1>0, <2>2 DEF Position, StoresTypeOK
  <2>4. PublicState = Replay[Len(blocks)]
    <3>1. Replay[Len(blocks)] \in [Key -> Nat]
      BY <2>3, ReplayDef
    <3>2. \A k \in Key : state[<<"public", k>>] = Replay[Len(blocks)][k]
      BY <2>2, <2>3 DEF RowCourse
    <3> QED  BY <3>1, <3>2 DEF PublicState
  <2>5. \/ snap' = [pc |-> "rename", block |-> snap.block, height |-> Len(blocks),
                    state |-> PublicState]
        \/ snap' = [pc |-> "done", block |-> snap.block]
    BY <1>7 DEF ExportState
  <2>6. snap'.pc = "rename" => snap'.state = Replay[snap'.height]
    BY <2>4, <2>5
  <2> QED  BY <2>1, <2>2, <2>6 DEF SnapshotCourse, SnapshotIsState
<1>8. ASSUME RenameSnapshot PROVE SnapshotCourse'
  <2>1. /\ snap.pc = "rename" /\ UNCHANGED pc /\ snap' = [pc |-> "done", block |-> snap.block]
        /\ snapshots' \subseteq snapshots \cup {[block |-> snap.height, state |-> snap.state]}
    BY <1>8 DEF RenameSnapshot
  <2>2. snap # NoSnapshot
    BY <2>1 DEF NoSnapshot
  <2>3. snap.state = Replay[snap.height] /\ pc \in {"idle", "blocked"}
    BY <2>1, <2>2 DEF SnapshotCourse
  <2>4. SnapshotIsState'
    BY <2>1, <2>3 DEF SnapshotCourse, SnapshotIsState
  <2> QED  BY <2>1, <2>3, <2>4 DEF SnapshotCourse
<1>9. ASSUME SnapshotDone PROVE SnapshotCourse'
  <2>1. snap' = NoSnapshot /\ UNCHANGED snapshots
    BY <1>9 DEF SnapshotDone
  <2> QED  BY <2>1 DEF SnapshotCourse, SnapshotIsState, NoSnapshot
<1>10. ASSUME NEW b \in Request, SubmitSnapshotRequest(b) PROVE SnapshotCourse'
  <2>1. /\ Opened /\ UNCHANGED <<pc, snapshots>>
        /\ snap' = IF ~Committing /\ b = last THEN [pc |-> "export", block |-> b] ELSE snap
    BY <1>10 DEF SubmitSnapshotRequest
  <2>2. CASE ~Committing /\ b = last
    <3>1. pc = "idle"
      BY <2>1, <2>2 DEF Committing
    <3>2. snap'.pc # "rename"
      BY <2>1, <2>2
    <3> QED  BY <2>1, <3>1, <3>2 DEF SnapshotCourse, SnapshotIsState
  <2>3. CASE ~(~Committing /\ b = last)
    BY <2>1, <2>3 DEF SnapshotCourse, SnapshotIsState
  <2> QED  BY <2>2, <2>3
<1>11. ASSUME NEW b \in Request, CancelSnapshotRequest(b) PROVE SnapshotCourse'
  BY <1>11 DEF CancelSnapshotRequest, SnapshotCourse, SnapshotIsState
<1>12. ASSUME NEW n \in 0 .. Len(blocks), Rollback(n) PROVE SnapshotCourse'
  BY <1>12 DEF Rollback, SnapshotCourse, SnapshotIsState
<1>13. CASE UNCHANGED vars
  BY <1>13 DEF SnapshotCourse, SnapshotIsState, vars
<1> QED
  BY <1>1, <1>2, <1>3, <1>4, <1>5, <1>6, <1>7, <1>8, <1>9, <1>10, <1>11, <1>12, <1>13
     DEF Next, Commit, Start, Snapshot

(* Whatever is interrupted and repeated, the databases hold what the       *)
(* course of the commit tells: the contents as well as the positions are   *)
(* invariant (commit, recommitLostBlocks, ApplyUpdates).                   *)
THEOREM ContentInvariance == Spec => []ContentInv
<1>1. Init => ContentInv
  <2> SUFFICES ASSUME Init PROVE ContentInv
    OBVIOUS
  <2>1. HistoryCourse
    BY DEF Init, HistoryCourse, HistoryIsComplete, Opened
  <2>2. FlagCourse
    BY DEF Init, FlagCourse
  <2>3. ASSUME NEW k \in Key PROVE RowCourse(k)
    BY ReplayDef DEF Init, RowCourse, Row
  <2>4. SnapshotCourse
    BY DEF Init, SnapshotCourse, SnapshotIsState, NoSnapshot
  <2> QED  BY <2>1, <2>2, <2>3, <2>4 DEF ContentInv
<1>2. ASSUME IInv, ContentInv, [Next]_vars PROVE ContentInv'
  <2>1. HistoryCourse /\ FlagCourse /\ (\A k \in Key : RowCourse(k)) /\ SnapshotCourse
    BY <1>2 DEF ContentInv
  <2>2. HistoryCourse' /\ FlagCourse' /\ SnapshotCourse'
    BY <1>2, <2>1, HistoryStep, FlagStep, SnapshotStep
  <2>3. ASSUME NEW k \in Key PROVE RowCourse(k)'
    BY <1>2, <2>1, RowStep
  <2> QED  BY <2>2, <2>3 DEF ContentInv
<1> QED
  BY <1>1, <1>2, LedgerInvariance, PTL DEF Spec

(* For every chain of blocks and any number of crashes and rollbacks, the  *)
(* flags and the state are those of validating and applying the chain one  *)
(* block after the other (ValidateAndPrepare, recommitLostBlocks).         *)
THEOREM StateAlwaysReplay == Spec => []StateIsReplay
<1>1. IInv /\ ContentInv => StateIsReplay
  <2> SUFFICES ASSUME IInv, ContentInv PROVE StateIsReplay
    OBVIOUS
  <2>1. StoresTypeOK /\ CommitterTypeOK /\ Position /\ FlagCourse /\ \A k \in Key : RowCourse(k)
    BY DEF IInv, TypeOK, ContentInv
  <2>2. pc \in {"rows", "redo"} => savepoint < Len(blocks)
    BY <2>1, InRows
  <2> QED  BY <2>1, <2>2 DEF StateIsReplay, FlagCourse, RowCourse
<1> QED  BY <1>1, LedgerInvariance, ContentInvariance, PTL

(* A snapshot holds the state of one block, whatever is committed, asked   *)
(* for or cancelled at the same time (processSnapshotMgmtEvents).          *)
THEOREM SnapshotsAreStates == Spec => []SnapshotIsState
<1>1. ContentInv => SnapshotIsState
  BY DEF ContentInv, SnapshotCourse
<1> QED  BY <1>1, ContentInvariance, PTL

(* The history misses no valid block up to its savepoint but lean ones,    *)
(* for every order in which recovery brings the databases up.              *)
THEOREM HistoryAlwaysComplete == Spec => []HistoryIsComplete
<1>1. ContentInv => HistoryIsComplete
  BY DEF ContentInv, HistoryCourse
<1> QED  BY <1>1, ContentInvariance, PTL
=============================================================================
