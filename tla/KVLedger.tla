------------------------------ MODULE KVLedger ------------------------------
(***************************************************************************)
(* The ledger of a committing peer (core/ledger/kvledger): a block goes to *)
(* the private data store, the block store, the relational state database  *)
(* and the history database, one after the other; a restart brings the     *)
(* databases up to the block store. Next to the commits, the reconciler    *)
(* adds private data of old blocks and the snapshot manager exports state. *)
(*                                                                         *)
(* A block holds one transaction; the version of a row is the number of    *)
(* the block that wrote it, 0 when there is none. Values are told apart by *)
(* their version. The genesis block (0) writes nothing here. Expiry and    *)
(* application purges of private data, and bootstrapping from a snapshot,  *)
(* are left out. An error of a commit stops the process (gossip/state      *)
(* panics), so errors are crashes.                                         *)
(***************************************************************************)
EXTENDS Integers, Sequences, FiniteSets

CONSTANTS Key,         \* keys; those of PvtKey stand for the key's hash
          PvtKey,      \* keys of private data
          Chain,       \* blocks the peer is sent, from block 1
          Request,     \* blocks snapshots may be requested for
          MaxCrash,    \* bound on crashes
          MaxRollback  \* bound on runs of peer node rollback

N == Len(Chain)
Row == ({"public"} \X Key) \cup ({"private"} \X PvtKey)

ASSUME LedgerAssumption ==
    /\ PvtKey \subseteq Key
    /\ Chain \in Seq([lean : BOOLEAN, reads : SUBSET (Key \X Nat),
                      writes : SUBSET Key, deletes : SUBSET Key])
    /\ \A n \in DOMAIN Chain : Chain[n].deletes \subseteq Chain[n].writes
    /\ Request \subseteq Nat /\ MaxCrash \in Nat /\ MaxRollback \in Nat

VARIABLES
    blocks,     \* block store: validation flag of each block
    pvtHeight,  \* private data store: last block
    pvtData,    \* private data store: blocks whose data it has
    missing,    \* private data store: blocks whose data is recorded as missing
    state,      \* state database: version of each row
    savepoint,  \* state database: last block
    history,    \* history database: blocks it has entries of
    histPoint,  \* history database: last block
    requests,   \* snapshotRequestBookkeeper
    snapshots,  \* generated snapshots
    pc, cur,    \* the committing goroutine, currentUpdates of the transaction manager
    next,       \* recovery: next block of each database
    ahead,      \* isPvtstoreAheadOfBlkstore
    rec,        \* the reconciler
    last, snap, \* snapshot manager: lastCommittedBlockNumber, snapshot in progress
    crashes, rollbacks

disk == <<blocks, pvtHeight, pvtData, missing, state, savepoint, history, histPoint>>
snapVars == <<requests, snapshots, last, snap>>
bounds == <<crashes, rollbacks>>
vars == <<disk, pc, cur, next, ahead, rec, snapVars, bounds>>

Idle == [pc |-> "idle", block |-> 0, rows |-> {}]
NoSnapshot == [pc |-> "none", block |-> 0]
NoUpdates == [block |-> 0, lite |-> FALSE, got |-> FALSE, valid |-> FALSE, rows |-> {}]
-----------------------------------------------------------------------------
PvtKeys(n) == Chain[n].writes \cap PvtKey
HasPvt(n) == PvtKeys(n) # {}

(* What block n leaves of a key. In a lean block public and hashed rows    *)
(* carry the number of the fat block and private rows that of the block;   *)
(* both name n, and the model has one number for them.                     *)
Version(n, k) == IF k \in Chain[n].deletes THEN 0 ELSE n

(* Rows of the update batch of block n.                                    *)
UpdateBatch(n, valid, got) ==
    IF ~valid THEN {}
    ELSE ({"public"} \X Chain[n].writes) \cup
         (IF got THEN {"private"} \X PvtKeys(n) ELSE {})

(* The read-conflict check of the block against the state database.        *)
NoConflict(n) == \A rd \in Chain[n].reads : state[<<"public", rd[1]>>] = rd[2]

Opened == pc \notin {"closed", "recover", "redo"}
Committing == Opened /\ pc # "idle"

Init ==
    /\ blocks = << >> /\ pvtHeight = 0 /\ pvtData = {} /\ missing = {}
    /\ state = [r \in Row |-> 0] /\ savepoint = 0
    /\ history = {} /\ histPoint = 0
    /\ requests = {} /\ snapshots = {}
    /\ pc = "closed" /\ cur = NoUpdates /\ next = [state |-> 1, history |-> 1]
    /\ ahead = FALSE /\ rec = Idle /\ last = 0 /\ snap = NoSnapshot
    /\ crashes = 0 /\ rollbacks = 0
-----------------------------------------------------------------------------
(***************************************************************************)
(* Commit of a block.                                                      *)
(***************************************************************************)

(* Faulty variant: a commit does not wait for a snapshot.                  *)
HastyStoreBlock ==
    LET n == Len(blocks) + 1
        exist == n <= pvtHeight
    IN  /\ pc = "idle" /\ n <= N
        /\ \E got \in IF exist THEN {n \in pvtData} ELSE {HasPvt(n), FALSE} :
             cur' = [NoUpdates EXCEPT !.block = n, !.got = got,
                                      !.lite = Chain[n].lean /\ ~exist]
        /\ pc' = "validate"
        /\ UNCHANGED <<disk, next, ahead, rec, snapVars, bounds>>

(* StoreBlock of the coordinator up to commitStart: the lean path is taken *)
(* for a lean block, unless its private data is in the ledger already.     *)
StoreBlock ==
    LET n == Len(blocks) + 1
        exist == n <= pvtHeight
    IN  /\ pc = "idle" /\ n <= N
        /\ \E got \in IF exist THEN {n \in pvtData} ELSE {HasPvt(n), FALSE} :
             cur' = [NoUpdates EXCEPT !.block = n, !.got = got,
                                      !.lite = Chain[n].lean /\ ~exist]
        /\ pc' = IF snap = NoSnapshot THEN "validate" ELSE "blocked"
        /\ UNCHANGED <<disk, next, ahead, rec, snapVars, bounds>>

(* ValidateAndPrepare(Ltx), under oldBlockCommit. The other path does not  *)
(* survive a lean envelope, which has no payload.                          *)
ValidateAndPrepare ==
    LET valid == NoConflict(cur.block)
    IN  /\ pc = "validate" /\ rec.pc # "rows"
        /\ Chain[cur.block].lean = cur.lite
        /\ cur' = [cur EXCEPT !.valid = valid,
                              !.rows = UpdateBatch(cur.block, valid, cur.got)]
        /\ pc' = "private data"
        /\ UNCHANGED <<disk, next, ahead, rec, snapVars, bounds>>

(* Commit of the private data store: one batch.                            *)
CommitPvtData ==
    /\ pc = "private data"
    /\ IF ahead THEN UNCHANGED <<pvtHeight, pvtData, missing>>
       ELSE /\ cur.block = pvtHeight + 1
            /\ pvtHeight' = cur.block
            /\ pvtData' = pvtData \cup {n \in {cur.block} : cur.got}
            /\ missing' = missing \cup {n \in {cur.block} : HasPvt(n) /\ ~cur.got}
    /\ pc' = "block"
    /\ UNCHANGED <<blocks, state, savepoint, history, histPoint,
                   cur, next, ahead, rec, snapVars, bounds>>

(* AddBlock, and the end of commitToPvtAndBlockStore.                      *)
AddBlock ==
    /\ pc = "block"
    /\ blocks' = Append(blocks, cur.valid)
    /\ ahead' = (ahead /\ pvtHeight # cur.block)
    /\ pc' = "state"
    /\ UNCHANGED <<pvtHeight, pvtData, missing, state, savepoint, history, histPoint,
                   cur, next, rec, snapVars, bounds>>

(* Commit of the transaction manager takes oldBlockCommit.                 *)
TxmgrCommit ==
    /\ pc = "state" /\ rec.pc # "rows"
    /\ pc' = "rows"
    /\ UNCHANGED <<disk, cur, next, ahead, rec, snapVars, bounds>>

(* Set and Delete of the SQL schema run in goroutines, table by table and  *)
(* batch by batch: rows become visible in any order.                       *)
WriteRow(r) ==
    /\ pc \in {"rows", "redo"} /\ r \in cur.rows
    /\ state' = [state EXCEPT ![r] = Version(cur.block, r[2])]
    /\ cur' = [cur EXCEPT !.rows = @ \ {r}]
    /\ UNCHANGED <<blocks, pvtHeight, pvtData, missing, savepoint, history, histPoint,
                   pc, next, ahead, rec, snapVars, bounds>>

(* The savepoint comes last. The lean path ends without the history.       *)
SaveState ==
    /\ pc \in {"rows", "redo"} /\ cur.rows = {}
    /\ savepoint' = cur.block
    /\ IF pc = "redo"
       THEN pc' = "recover" /\ next' = [next EXCEPT !.state = cur.block + 1] /\ cur' = NoUpdates
       ELSE pc' = (IF cur.lite THEN "done" ELSE "history") /\ UNCHANGED <<next, cur>>
    /\ UNCHANGED <<blocks, pvtHeight, pvtData, missing, state, history, histPoint,
                   ahead, rec, snapVars, bounds>>

(* Commit of the history database: one batch with its savepoint.           *)
HistoryBatch(n, valid) ==
    /\ history' = IF valid THEN history \cup {n} ELSE history
    /\ histPoint' = n

HistoryCommit ==
    /\ pc = "history"
    /\ HistoryBatch(cur.block, cur.valid)
    /\ pc' = "done"
    /\ UNCHANGED <<blocks, pvtHeight, pvtData, missing, state, savepoint,
                   cur, next, ahead, rec, snapVars, bounds>>

Smallest(n) == n \in requests /\ \A m \in requests : n <= m

(* commitDone: the snapshot of the block that was requested begins.        *)
CommitDone ==
    /\ pc = "done"
    /\ last' = cur.block
    /\ snap' = IF Smallest(cur.block) THEN [pc |-> "export", block |-> cur.block] ELSE NoSnapshot
    /\ pc' = "idle" /\ cur' = NoUpdates
    /\ UNCHANGED <<disk, next, ahead, rec, requests, snapshots, bounds>>
-----------------------------------------------------------------------------
(***************************************************************************)
(* Start of the ledger: newKVLedger, recoverDBs.                           *)
(***************************************************************************)

(* Faulty variant: recovery begins one block late.                         *)
LateOpen ==
    /\ pc = "closed"
    /\ savepoint <= Len(blocks) /\ histPoint <= Len(blocks)
    /\ ahead' = (pvtHeight > Len(blocks))
    /\ next' = [state |-> savepoint + 2, history |-> histPoint + 2]
    /\ pc' = "recover"
    /\ UNCHANGED <<disk, cur, rec, snapVars, bounds>>

(* Faulty variant: the history is taken to be as far as the state.         *)
OneSavepointOpen ==
    /\ pc = "closed"
    /\ savepoint <= Len(blocks) /\ histPoint <= Len(blocks)
    /\ ahead' = (pvtHeight > Len(blocks))
    /\ next' = [state |-> savepoint + 1, history |-> savepoint + 1]
    /\ pc' = "recover"
    /\ UNCHANGED <<disk, cur, rec, snapVars, bounds>>

(* A database ahead of the block store is an error.                        *)
Open ==
    /\ pc = "closed"
    /\ savepoint <= Len(blocks) /\ histPoint <= Len(blocks)
    /\ ahead' = (pvtHeight > Len(blocks))
    /\ next' = [state |-> savepoint + 1, history |-> histPoint + 1]
    /\ pc' = "recover"
    /\ UNCHANGED <<disk, cur, rec, snapVars, bounds>>

(* Faulty variant: the block is validated again.                           *)
RevalidatingRecoverState ==
    LET n == next.state
    IN  /\ pc = "recover" /\ n <= Len(blocks) /\ n <= next.history
        /\ cur' = [NoUpdates EXCEPT !.block = n, !.valid = NoConflict(n),
                                    !.rows = UpdateBatch(n, NoConflict(n), n \in pvtData)]
        /\ pc' = "redo"
        /\ UNCHANGED <<disk, next, ahead, rec, snapVars, bounds>>

(* The database that lags is brought up first; the flags are those of the  *)
(* block, nothing is validated again.                                      *)
RecoverState ==
    LET n == next.state
    IN  /\ pc = "recover" /\ n <= Len(blocks) /\ n <= next.history
        /\ cur' = [NoUpdates EXCEPT !.block = n, !.valid = blocks[n],
                                    !.rows = UpdateBatch(n, blocks[n], n \in pvtData)]
        /\ pc' = "redo"
        /\ UNCHANGED <<disk, next, ahead, rec, snapVars, bounds>>

(* Nothing is committed to the history for a lean block.                   *)
RecoverHistory ==
    LET n == next.history
    IN  /\ pc = "recover" /\ n <= Len(blocks) /\ n <= next.state
        /\ IF Chain[n].lean THEN UNCHANGED <<history, histPoint>> ELSE HistoryBatch(n, blocks[n])
        /\ next' = [next EXCEPT !.history = n + 1]
        /\ UNCHANGED <<blocks, pvtHeight, pvtData, missing, state, savepoint,
                       pc, cur, ahead, rec, snapVars, bounds>>

Exists(b) == \E s \in snapshots : s.block = b

(* initSnapshotMgr, with regenrateMissedSnapshot.                          *)
Recovered ==
    LET n == Len(blocks)
    IN  /\ pc = "recover" /\ next.state > n /\ next.history > n
        /\ last' = n
        /\ snap' = IF Smallest(n) /\ ~Exists(n) THEN [pc |-> "export", block |-> n] ELSE NoSnapshot
        /\ pc' = "idle"
        /\ UNCHANGED <<disk, cur, next, ahead, rec, requests, snapshots, bounds>>
-----------------------------------------------------------------------------
(***************************************************************************)
(* The reconciler: reconcile, CommitPvtDataOfOldBlocks.                    *)
(***************************************************************************)

(* The tracker asks the private data store without a lock; other peers     *)
(* have the data.                                                          *)
GetMissing(n) ==
    /\ Opened /\ rec = Idle /\ ~ahead /\ n \in missing
    /\ rec' = [Idle EXCEPT !.pc = "fetched", !.block = n]
    /\ UNCHANGED <<disk, pc, cur, next, ahead, snapVars, bounds>>

(* Faulty variant: what was overwritten is applied too.                    *)
NeverStale(n, k) == FALSE

(* checkIfPvtWriteIsStale: the versions agree, or else the value hashes,   *)
(* which tell blocks apart. A fat number is never below that of its block, *)
(* so the versions of different blocks that wrote a key do not agree.      *)
Stale(n, k) ==
    IF state[<<"public", k>>] = 0 THEN k \notin Chain[n].deletes
    ELSE state[<<"public", k>>] # n

(* extractValidPvtData needs the block; the rows that are not stale are    *)
(* selected under oldBlockCommit, which is held until they are written.    *)
SelectRows ==
    /\ rec.pc = "fetched"
    /\ IF rec.block \in DOMAIN blocks
       THEN /\ pc # "rows"
            /\ rec' = [rec EXCEPT !.pc = "rows",
                                  !.rows = {<<"private", k>> : k \in {j \in PvtKeys(rec.block) :
                                              blocks[rec.block] /\ ~Stale(rec.block, j)}}]
       ELSE rec' = Idle
    /\ UNCHANGED <<disk, pc, cur, next, ahead, snapVars, bounds>>

WriteOldRow(r) ==
    /\ rec.pc = "rows" /\ r \in rec.rows
    /\ state' = [state EXCEPT ![r] = Version(rec.block, r[2])]
    /\ rec' = [rec EXCEPT !.rows = @ \ {r}]
    /\ UNCHANGED <<blocks, pvtHeight, pvtData, missing, savepoint, history, histPoint,
                   pc, cur, next, ahead, snapVars, bounds>>

ReleaseLock ==
    /\ rec.pc = "rows" /\ rec.rows = {}
    /\ rec' = [rec EXCEPT !.pc = "store"]
    /\ UNCHANGED <<disk, pc, cur, next, ahead, snapVars, bounds>>

CommitPvtDataOfOldBlocks ==
    /\ rec.pc = "store"
    /\ pvtData' = pvtData \cup {rec.block}
    /\ missing' = missing \ {rec.block}
    /\ rec' = Idle
    /\ UNCHANGED <<blocks, pvtHeight, state, savepoint, history, histPoint,
                   pc, cur, next, ahead, snapVars, bounds>>
-----------------------------------------------------------------------------
(***************************************************************************)
(* Snapshots: processSnapshotMgmtEvents. The committer is idle between     *)
(* commitDone and commitStart.                                             *)
(***************************************************************************)
(* A request for block 0 stands for the least number that is accepted.     *)
SubmitSnapshotRequest(b) ==
    /\ Opened
    /\ b >= IF Committing THEN last + 1 ELSE last
    /\ b \notin requests /\ ~(b = last /\ Exists(b))
    /\ requests' = requests \cup {b}
    /\ snap' = IF ~Committing /\ b = last THEN [pc |-> "export", block |-> b] ELSE snap
    /\ UNCHANGED <<disk, pc, cur, next, ahead, rec, snapshots, last, bounds>>

CancelSnapshotRequest(b) ==
    /\ Opened /\ b \in requests
    /\ ~(snap # NoSnapshot /\ b = last)
    /\ requests' = requests \ {b}
    /\ UNCHANGED <<disk, pc, cur, next, ahead, rec, snapshots, last, snap, bounds>>

PublicState == [k \in Key |-> state[<<"public", k>>]]

(* generateSnapshot: named after the height, renamed into place at the end.*)
(* It may fail.                                                            *)
ExportState ==
    /\ snap.pc = "export"
    /\ \/ snap' = [pc |-> "rename", block |-> snap.block, height |-> Len(blocks),
                   state |-> PublicState]
       \/ snap' = [pc |-> "done", block |-> snap.block]
    /\ UNCHANGED <<disk, pc, cur, next, ahead, rec, requests, snapshots, last, bounds>>

RenameSnapshot ==
    /\ snap.pc = "rename"
    /\ snapshots' = IF Exists(snap.height) THEN snapshots
                    ELSE snapshots \cup {[block |-> snap.height, state |-> snap.state]}
    /\ snap' = [pc |-> "done", block |-> snap.block]
    /\ UNCHANGED <<disk, pc, cur, next, ahead, rec, requests, last, bounds>>

(* Faulty variant: the commit that waits is forgotten.                     *)
ForgetfulSnapshotDone ==
    /\ snap.pc = "done"
    /\ requests' = requests \ {snap.block}
    /\ snap' = NoSnapshot
    /\ UNCHANGED <<disk, pc, cur, next, ahead, rec, snapshots, last, bounds>>

SnapshotDone ==
    /\ snap.pc = "done"
    /\ requests' = requests \ {snap.block}
    /\ pc' = IF pc = "blocked" THEN "validate" ELSE pc
    /\ snap' = NoSnapshot
    /\ UNCHANGED <<disk, cur, next, ahead, rec, snapshots, last, bounds>>

-----------------------------------------------------------------------------
(* What is not on disk is lost.                                            *)
Stop ==
    /\ pc' = "closed" /\ cur' = NoUpdates /\ next' = [state |-> 1, history |-> 1]
    /\ ahead' = FALSE /\ rec' = Idle /\ last' = 0 /\ snap' = NoSnapshot
    /\ UNCHANGED <<disk, requests, snapshots>>

Crash ==
    /\ pc # "closed" /\ crashes < MaxCrash
    /\ crashes' = crashes + 1
    /\ Stop /\ UNCHANGED rollbacks

(* A lean block on the other path: the envelope has no payload header.     *)
LeanPanic ==
    /\ pc = "validate" /\ rec.pc # "rows"
    /\ Chain[cur.block].lean # cur.lite
    /\ Stop /\ UNCHANGED bounds

(* Faulty variant: the databases are kept.                                 *)
KeepingRollback(n) ==
    /\ pc = "closed" /\ rollbacks < MaxRollback
    /\ rollbacks' = rollbacks + 1
    /\ blocks' = SubSeq(blocks, 1, n)
    /\ requests' = {}
    /\ UNCHANGED <<pvtHeight, pvtData, missing, state, savepoint, history, histPoint,
                   pc, cur, next, ahead, rec, snapshots, last, snap, crashes>>

(* RollbackKVLedger: the databases are dropped (the relational one by the  *)
(* operator), then the block store is cut; interrupted, it is not cut.     *)
Rollback(n) ==
    /\ pc = "closed" /\ rollbacks < MaxRollback
    /\ rollbacks' = rollbacks + 1
    /\ blocks' = SubSeq(blocks, 1, n)
    /\ state' = [r \in Row |-> 0] /\ savepoint' = 0
    /\ history' = {} /\ histPoint' = 0
    /\ requests' = {}
    /\ UNCHANGED <<pvtHeight, pvtData, missing, pc, cur, next, ahead, rec,
                   snapshots, last, snap, crashes>>

Commit ==
    \/ StoreBlock \/ ValidateAndPrepare \/ LeanPanic \/ CommitPvtData \/ AddBlock
    \/ TxmgrCommit \/ (\E r \in cur.rows : WriteRow(r)) \/ SaveState
    \/ HistoryCommit \/ CommitDone

Start == Open \/ RecoverState \/ RecoverHistory \/ Recovered

Reconcile ==
    \/ \E n \in missing : GetMissing(n)
    \/ SelectRows \/ (\E r \in rec.rows : WriteOldRow(r)) \/ ReleaseLock
    \/ CommitPvtDataOfOldBlocks

Snapshot == ExportState \/ RenameSnapshot \/ SnapshotDone

Next ==
    \/ Commit \/ Start \/ Reconcile \/ Snapshot
    \/ \E b \in Request : SubmitSnapshotRequest(b) \/ CancelSnapshotRequest(b)
    \/ Crash
    \/ \E n \in 0 .. Len(blocks) : Rollback(n)

Spec == Init /\ [][Next]_vars

(* The goroutines run; a peer that stopped is started again.               *)
FairSpec ==
    /\ Spec
    /\ WF_vars(Commit) /\ WF_vars(Start) /\ WF_vars(Reconcile) /\ WF_vars(Snapshot)
-----------------------------------------------------------------------------
(* Reference: the state after the blocks 1 .. n, one at a time.            *)
Replay[n \in 0 .. N] ==
    IF n = 0 THEN [k \in Key |-> 0]
    ELSE IF \A rd \in Chain[n].reads : Replay[n - 1][rd[1]] = rd[2]
         THEN [k \in Key |-> IF k \in Chain[n].writes THEN Version(n, k) ELSE Replay[n - 1][k]]
         ELSE Replay[n - 1]

Valid(n) == \A rd \in Chain[n].reads : Replay[n - 1][rd[1]] = rd[2]

Pcs == {"closed", "recover", "redo", "idle", "blocked", "validate", "private data",
        "block", "state", "rows", "history", "done"}

StoresTypeOK ==
    /\ blocks \in Seq(BOOLEAN) /\ Len(blocks) <= N
    /\ pvtHeight \in 0 .. N /\ pvtData \subseteq 1 .. N /\ missing \subseteq 1 .. N
    /\ state \in [Row -> 0 .. N] /\ savepoint \in 0 .. N
    /\ history \subseteq 1 .. N /\ histPoint \in 0 .. N

CommitterTypeOK ==
    /\ pc \in Pcs
    /\ cur \in [block : 0 .. N, lite : BOOLEAN, got : BOOLEAN, valid : BOOLEAN, rows : SUBSET Row]
    /\ next \in [state : 1 .. N + 1, history : 1 .. N + 1]
    /\ ahead \in BOOLEAN

ReconcilerTypeOK ==
    rec \in [pc : {"idle", "fetched", "rows", "store"}, block : 0 .. N, rows : SUBSET Row]

SnapshotTypeOK ==
    /\ requests \subseteq Request
    /\ snapshots \subseteq [block : 0 .. N, state : [Key -> 0 .. N]]
    /\ last \in 0 .. N
    /\ snap \in [pc : {"none", "export", "done"}, block : 0 .. N] \cup
               [pc : {"rename"}, block : 0 .. N, height : 0 .. N, state : [Key -> 0 .. N]]

TypeOK ==
    /\ StoresTypeOK /\ CommitterTypeOK /\ ReconcilerTypeOK /\ SnapshotTypeOK
    /\ crashes \in 0 .. MaxCrash /\ rollbacks \in 0 .. MaxRollback

(***************************************************************************)
(* At any moment, were the process to stop there, the stores allow the     *)
(* restart to repair them: no database is ahead of the block store, which  *)
(* is not ahead of the private data store (recoverDBs, commit).            *)
(***************************************************************************)
Recoverable ==
    /\ savepoint <= Len(blocks) /\ histPoint <= Len(blocks)
    /\ Len(blocks) <= pvtHeight
    /\ Opened /\ ~ahead => pvtHeight <= Len(blocks) + (IF pc = "block" THEN 1 ELSE 0)

(***************************************************************************)
(* Whatever was interrupted and repeated, the flags in the block store are *)
(* those of a validation of the chain one block after the other, and a row *)
(* of the state is that after the savepoint or, while the next block is    *)
(* applied, after that block.                                              *)
(***************************************************************************)
StateIsReplay ==
    /\ \A n \in DOMAIN blocks : blocks[n] = Valid(n)
    /\ \A k \in Key :
         \/ state[<<"public", k>>] = Replay[savepoint][k]
         \/ savepoint < Len(blocks) /\ state[<<"public", k>>] = Replay[savepoint + 1][k]

(* A snapshot holds the state of its block: no commit changes it while it  *)
(* is exported (processSnapshotMgmtEvents).                                *)
SnapshotIsState == \A s \in snapshots : s.state = Replay[s.block]

(* The history has the valid blocks up to its savepoint, but for the lean  *)
(* ones (historyDB.Commit, recommitLostBlocks).                            *)
HistoryIsComplete ==
    history = {n \in 1 .. histPoint : n \in DOMAIN blocks /\ blocks[n] /\ ~Chain[n].lean}

(* The reconciler never puts an older private value over a newer one, also *)
(* when a block is committed at the same time (oldBlockCommit,             *)
(* checkIfPvtWriteIsStale).                                                *)
PrivateNeverOlder ==
    [][\A k \in PvtKey :
         LET r == <<"private", k>>
         IN  state'[r] >= state[r] \/ state'[r] = 0]_vars

(* A block that comes next does not stay so: the committer, the snapshots  *)
(* and the reconciler never wait for each other forever. Lean blocks are   *)
(* left out, see LeanCommitted.                                            *)
NextCommitted ==
    \A n \in DOMAIN Chain :
      (~Chain[n].lean /\ Len(blocks) = n - 1) ~> Len(blocks) # n - 1

(* "CommitLegacy commits the block and the corresponding pvt data in an    *)
(* atomic operation": private data of a block in the store is followed by  *)
(* the block.                                                              *)
LeanCommitted ==
    \A n \in DOMAIN Chain : (pvtHeight = n /\ Len(blocks) = n - 1) ~> Len(blocks) # n - 1

(* "it is safe to not acquire a read lock on l.blockAPIsRWLock": private   *)
(* data of the last write of a key that the private data store has is in   *)
(* the state.                                                              *)
StoredIsReadable ==
    pc = "idle" /\ rec = Idle =>
      \A k \in PvtKey :
        LET n == state[<<"public", k>>]
        IN  n # 0 /\ n \in pvtData => state[<<"private", k>>] = n
=============================================================================
